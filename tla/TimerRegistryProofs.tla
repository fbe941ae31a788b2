------------------------- MODULE TimerRegistryProofs -------------------------
(***************************************************************************)
(* Theorems about the registry of timers, for any set of threads and of    *)
(* names and any number of calls.  The spinlock that guards an element has *)
(* the last section.                                                       *)
(***************************************************************************)
EXTENDS TimerRegistry, Spinlock, WellFoundedInduction, TLAPS

-----------------------------------------------------------------------------
(* The walk over the set: a set of keys that is not empty has a least one. *)

LEMMA MinNat ==
  ASSUME NEW S \in SUBSET Nat, S # {}
  PROVE  Min(S) \in S /\ \A n \in S : Min(S) =< n
<1> DEFINE R == {ss \in Nat \X Nat : ss[1] < ss[2]}
<1>0. IsWellFoundedOn(R, Nat)
  BY NatLessThanWellFounded, Zenon DEF OpToRel
<1>a. \A n, k \in Nat : n < k => <<n, k>> \in R
  OBVIOUS
<1> HIDE DEF R
<1>1. PICK m \in S : \A n \in S : ~ <<n, m>> \in R
  BY <1>0, WFMin
<1>2. ASSUME NEW n \in S PROVE m =< n
  <2>1. ~ (n < m)
    BY <1>1, <1>a, Zenon
  <2>2. QED
    BY <2>1
<1>3. QED
  BY <1>2, Zenon DEF Min

LEMMA FirstOfType ==
  ASSUME NEW S \in SUBSET Names
  PROVE  FirstOf(S) = End \/ FirstOf(S) \in S
BY MinNat, RegistryAssumption DEF FirstOf

-----------------------------------------------------------------------------
(* Types.  An element is printed only where iter points at one.            *)

IterAtElement ==
  \A t \in Threads : pc[t] \in {"extract", "next"} => iter[t] \in Names

LEMMA InitTyped == Init => TypeOK /\ IterAtElement
<1> SUFFICES ASSUME Init PROVE TypeOK /\ IterAtElement
  OBVIOUS
<1>1. (CHOOSE n \in Names : TRUE) \in Names
  BY RegistryAssumption
<1>2. TypeOK
  BY <1>1, RegistryAssumption, NoThreadAssumption
     DEF Init, TypeOK, MutexInit, MutexTypeOK, Clocks, RecordPcs, PrintPcs
<1>3. IterAtElement
  BY DEF Init, IterAtElement
<1> QED BY <1>2, <1>3

LEMMA CountUp ==
  ASSUME NEW S, NEW f \in [S -> Nat], NEW s \in S
  PROVE  [f EXCEPT ![s] = @ + 1] \in [S -> Nat]
OBVIOUS

LEMMA CountUpAt ==
  ASSUME NEW S, NEW T, NEW f \in [S -> [T -> Nat]], NEW s \in S, NEW c \in T
  PROVE  [f EXCEPT ![s][c] = @ + 1] \in [S -> [T -> Nat]]
<1>1. [f[s] EXCEPT ![c] = @ + 1] \in [T -> Nat]
  BY CountUp
<1>2. [f EXCEPT ![s][c] = @ + 1] = [f EXCEPT ![s] = [f[s] EXCEPT ![c] = @ + 1]]
  OBVIOUS
<1> QED BY <1>1, <1>2

(* The half of the step that records.                                      *)
RecordStep(t) ==
  \/ \E n \in Names : Call(t, n)
  \/ Search(t) \/ InsertCheck(t) \/ TryUpgrade(t) \/ NewElement(t)
  \/ NewElementThrows(t) \/ Insert(t) \/ InsertCommit(t) \/ InsertUnlock(t)
  \/ NotifyAll(t) \/ CreateUnlock(t) \/ CvWait(t) \/ Relock(t)
  \/ SpuriousWakeup(t)
  \/ SearchUnlock(t) \/ GuardLock(t) \/ Accumulate(t) \/ GuardUnlock(t)

(* The half of the step that prints.                                       *)
PrintStep(t) ==
  \/ \E re \in SUBSET Names : PrintAll(t, re)
  \/ Begin(t) \/ Visit(t) \/ Extract(t) \/ RowsDone(t) \/ Advance(t)
  \/ PrintReturn(t)

LEMMA NextHalves ==
  ASSUME Next
  PROVE  \E t \in Threads : RecordStep(t) \/ PrintStep(t)
BY DEF Next, Step, RecordStep, PrintStep

LEMMA RecordTyped ==
  ASSUME TypeOK, IterAtElement, NEW t \in Threads, RecordStep(t)
  PROVE  TypeOK' /\ IterAtElement'
<1> USE NoThreadAssumption, RegistryAssumption
    DEF TypeOK, MutexTypeOK, IterAtElement, Goto, mutexVars, registryVars, recordVars,
        printVars, callVars, RecordPcs, PrintPcs
<1>1. CASE \E n \in Names : Call(t, n)
  BY <1>1 DEF Call, Linked
<1>2. CASE Search(t)
  BY <1>2 DEF Search, LockShared
<1>3. CASE InsertCheck(t)
  <2>1. Linked \in SUBSET Names
    BY DEF Linked
  <2>2. CASE Goto(t, "check", "release") /\ UNCHANGED ctx
    BY <1>3, <2>2 DEF InsertCheck
  <2>3. CASE Goto(t, "check", "try") /\ ctx' = [ctx EXCEPT ![t] = Linked]
    BY <1>3, <2>1, <2>3 DEF InsertCheck
  <2> QED BY <1>3, <2>2, <2>3 DEF InsertCheck
<1>4. CASE TryUpgrade(t)
  BY <1>4 DEF TryUpgrade, TryUpgradeSucceeds, TryUpgradeFails
<1>5. CASE NewElement(t) \/ NewElementThrows(t)
  <2>1. CASE NewElement(t)
    BY <2>1 DEF NewElement
  <2>2. CASE NewElementThrows(t)
    BY <2>2 DEF NewElementThrows
  <2> QED BY <1>5, <2>1, <2>2
<1>6. CASE Insert(t)
  BY <1>6 DEF Insert, LockExclusive
<1>7. CASE InsertCommit(t)
  <2>0. /\ arg[t] \in Names
        /\ timers' = [timers EXCEPT ![arg[t]] = @ + 1]
    BY <1>7 DEF InsertCommit
  <2>1. timers' \in [Names -> Nat]
    BY <2>0, CountUp, Zenon
  <2> QED BY <1>7, <2>1 DEF InsertCommit
<1>8. CASE InsertUnlock(t)
  BY <1>8 DEF InsertUnlock, UnlockExclusive
<1>9. CASE NotifyAll(t)
  BY <1>9 DEF NotifyAll
<1>10. CASE CreateUnlock(t)
  BY <1>10 DEF CreateUnlock, UnlockUpgrade
<1>11. CASE CvWait(t) \/ SearchUnlock(t)
  BY <1>11 DEF CvWait, SearchUnlock, UnlockShared
<1>12. CASE SpuriousWakeup(t)
  BY <1>12 DEF SpuriousWakeup
<1>13. CASE Relock(t)
  BY <1>13 DEF Relock, LockShared
<1>14. CASE GuardLock(t) \/ GuardUnlock(t)
  <2>1. guard' \in [Names -> Threads \cup {NoThread}]
    BY <1>14 DEF GuardLock, GuardUnlock
  <2> QED BY <1>14, <2>1 DEF GuardLock, GuardUnlock
<1>15. CASE Accumulate(t)
  <2>1. pc[t] \in Clocks /\ arg[t] \in Names
    BY <1>15 DEF Accumulate, Clocks
  <2>2. samples' \in [Names -> [Clocks -> Nat]]
    BY <1>15, <2>1, CountUpAt DEF Accumulate
  <2> QED BY <1>15, <2>2 DEF Accumulate
<1> QED
  BY <1>1, <1>2, <1>3, <1>4, <1>5, <1>6, <1>7, <1>8, <1>9, <1>10, <1>11,
     <1>12, <1>13, <1>14, <1>15 DEF RecordStep

LEMMA PrintTyped ==
  ASSUME TypeOK, IterAtElement, NEW t \in Threads, PrintStep(t)
  PROVE  TypeOK' /\ IterAtElement'
<1> USE NoThreadAssumption, RegistryAssumption
    DEF TypeOK, MutexTypeOK, IterAtElement, Goto, mutexVars, registryVars, recordVars,
        printVars, callVars, RecordPcs, PrintPcs
<1>0. \A S \in SUBSET Names : FirstOf(S) \in Names \cup {End}
  BY FirstOfType
<1>1. CASE \E re \in SUBSET Names : PrintAll(t, re)
  BY <1>1 DEF PrintAll, Linked
<1>2. CASE Begin(t)
  <2>1. FirstOf(Linked) \in Names \cup {End}
    BY <1>0 DEF Linked
  <2> QED BY <1>2, <2>1 DEF Begin, LockShared
<1>3. CASE Visit(t)
  BY <1>3 DEF Visit, UnlockShared
<1>4. CASE Extract(t)
  <2>1. /\ iter[t] \in Names
        /\ ClockOf(cell[t]) \in Clocks
        /\ cell[t] + 1 \in 0 .. 3 * Features
    BY <1>4 DEF Extract, ClockOf, Clocks
  <2>2. samples[iter[t]][ClockOf(cell[t])] \in Nat
    <3>1. samples[iter[t]] \in [Clocks -> Nat]
      BY <2>1
    <3> QED BY <2>1, <3>1, Zenon
  <2>3. version' \in [Threads -> Nat] /\ cell' \in [Threads -> 0 .. 3 * Features]
    BY <1>4, <2>1, <2>2 DEF Extract
  <2> QED BY <1>4, <2>3 DEF Extract
<1>5. CASE RowsDone(t)
  BY <1>5 DEF RowsDone
<1>6. CASE Advance(t)
  <2>1. FirstOf({n \in Linked : n > iter[t]}) \in Names \cup {End}
    BY <1>0 DEF Linked
  <2> QED BY <1>6, <2>1 DEF Advance, LockShared
<1>7. CASE PrintReturn(t)
  BY <1>7 DEF PrintReturn, UnlockShared
<1> QED
  BY <1>1, <1>2, <1>3, <1>4, <1>5, <1>6, <1>7 DEF PrintStep

-----------------------------------------------------------------------------
(* Ownership of the upgrade mutex follows the program counter, and the     *)
(* writer is alone.                                                        *)

WriterAlone == writer # NoThread => sharers = {} /\ upgrader = NoThread

Ownership == OwnershipScoped /\ WriterAlone

LEMMA InitOwnership == Init => Ownership
BY NoThreadAssumption
   DEF Init, MutexInit, Ownership, OwnershipScoped, WriterAlone, SharedPcs,
       UpgradePcs, WriterPcs

LEMMA RecordOwnership ==
  ASSUME TypeOK, Ownership, NEW t \in Threads, RecordStep(t)
  PROVE  Ownership'
<1> pc \in [Threads -> {"idle"} \cup RecordPcs \cup PrintPcs] /\ MutexTypeOK
  BY DEF TypeOK
<1> USE NoThreadAssumption
    DEF MutexTypeOK, Ownership, OwnershipScoped, WriterAlone, SharedPcs, UpgradePcs,
        WriterPcs, Goto, mutexVars
<1>1. CASE \E n \in Names : Call(t, n)
  BY <1>1 DEF Call
<1>2. CASE Search(t) \/ Relock(t)
  BY <1>2 DEF Search, Relock, LockShared
<1>3. CASE InsertCheck(t)
  BY <1>3 DEF InsertCheck
<1>4. CASE TryUpgrade(t)
  BY <1>4 DEF TryUpgrade, TryUpgradeSucceeds, TryUpgradeFails
<1>5. CASE NewElement(t) \/ NewElementThrows(t)
  BY <1>5 DEF NewElement, NewElementThrows
<1>6. CASE Insert(t)
  BY <1>6 DEF Insert, LockExclusive
<1>7. CASE InsertCommit(t)
  BY <1>7 DEF InsertCommit
<1>8. CASE InsertUnlock(t)
  BY <1>8 DEF InsertUnlock, UnlockExclusive
<1>9. CASE NotifyAll(t)
  BY <1>9 DEF NotifyAll
<1>10. CASE CreateUnlock(t)
  BY <1>10 DEF CreateUnlock, UnlockUpgrade
<1>11. CASE CvWait(t) \/ SearchUnlock(t)
  BY <1>11 DEF CvWait, SearchUnlock, UnlockShared
<1>12. CASE SpuriousWakeup(t)
  BY <1>12 DEF SpuriousWakeup
<1>13. CASE GuardLock(t) \/ GuardUnlock(t)
  BY <1>13 DEF GuardLock, GuardUnlock
<1>14. CASE Accumulate(t)
  BY <1>14 DEF Accumulate
<1> QED
  BY <1>1, <1>2, <1>3, <1>4, <1>5, <1>6, <1>7, <1>8, <1>9, <1>10, <1>11,
     <1>12, <1>13, <1>14 DEF RecordStep

LEMMA PrintOwnership ==
  ASSUME TypeOK, Ownership, NEW t \in Threads, PrintStep(t)
  PROVE  Ownership'
<1> pc \in [Threads -> {"idle"} \cup RecordPcs \cup PrintPcs] /\ MutexTypeOK
  BY DEF TypeOK
<1> USE NoThreadAssumption
    DEF MutexTypeOK, Ownership, OwnershipScoped, WriterAlone, SharedPcs, UpgradePcs,
        WriterPcs, Goto, mutexVars
<1>1. CASE \E re \in SUBSET Names : PrintAll(t, re)
  BY <1>1 DEF PrintAll
<1>2. CASE Begin(t) \/ Advance(t)
  BY <1>2 DEF Begin, Advance, LockShared
<1>3. CASE Visit(t) \/ PrintReturn(t)
  BY <1>3 DEF Visit, PrintReturn, UnlockShared
<1>4. CASE Extract(t) \/ RowsDone(t)
  BY <1>4 DEF Extract, RowsDone
<1> QED BY <1>1, <1>2, <1>3, <1>4 DEF PrintStep

-----------------------------------------------------------------------------
(* The position computed under the shared lock stays right up to the       *)
(* commit, so no key is linked twice.                                      *)

AbsentKey ==
  \A t \in Threads :
    pc[t] \in {"try", "alloc", "upgrade", "commit"}
      => ctx[t] = Linked /\ arg[t] \notin Linked

Position == AbsentKey /\ UniqueKeys

LEMMA InitPosition == Init => Position
BY DEF Init, Position, AbsentKey, UniqueKeys

(* Only the commit links an element, and its thread is then alone.         *)
LEMMA RecordPosition ==
  ASSUME TypeOK, Ownership, Position, NEW t \in Threads, RecordStep(t)
  PROVE  Position'
<1> /\ pc \in [Threads -> {"idle"} \cup RecordPcs \cup PrintPcs]
    /\ arg \in [Threads -> Names]
    /\ ctx \in [Threads -> SUBSET Names]
    /\ timers \in [Names -> Nat]
  BY DEF TypeOK
<1> USE DEF Position, AbsentKey, UniqueKeys, Goto, registryVars, recordVars
<1>1. CASE InsertCommit(t)
  <2>1. pc[t] = "commit" /\ pc' = [pc EXCEPT ![t] = "unlock"]
        /\ timers' = [timers EXCEPT ![arg[t]] = @ + 1]
    BY <1>1 DEF InsertCommit
  <2>2. \A u \in Threads \ {t} :
          pc[u] \notin {"try", "alloc", "upgrade", "commit"}
    BY <2>1, NoThreadAssumption
       DEF Ownership, OwnershipScoped, WriterAlone, SharedPcs, UpgradePcs, WriterPcs
  <2>3. AbsentKey'
    BY <2>1, <2>2
  <2>4. timers[arg[t]] = 0
    BY <2>1 DEF Linked
  <2>5. UniqueKeys'
    BY <2>1, <2>4
  <2> QED BY <2>3, <2>5
<1>2. CASE timers' = timers
  <2>1. Linked' = Linked
    BY <1>2 DEF Linked
  <2>2. CASE \E n \in Names : Call(t, n)
    BY <1>2, <2>1, <2>2 DEF Call
  <2>3. CASE InsertCheck(t)
    BY <1>2, <2>1, <2>3 DEF InsertCheck
  <2>4. CASE TryUpgrade(t) \/ NewElement(t) \/ NewElementThrows(t) \/ Insert(t)
    BY <1>2, <2>1, <2>4 DEF TryUpgrade, NewElement, NewElementThrows, Insert
  <2>5. CASE Search(t) \/ InsertUnlock(t) \/ CreateUnlock(t) \/ CvWait(t)
             \/ Relock(t) \/ SpuriousWakeup(t) \/ SearchUnlock(t)
    BY <1>2, <2>1, <2>5
       DEF Search, InsertUnlock, CreateUnlock, CvWait, Relock, SpuriousWakeup,
           SearchUnlock
  <2>6. CASE NotifyAll(t)
    BY <1>2, <2>1, <2>6 DEF NotifyAll
  <2>7. CASE GuardLock(t) \/ GuardUnlock(t) \/ Accumulate(t)
    BY <1>2, <2>1, <2>7 DEF GuardLock, GuardUnlock, Accumulate
  <2>8. CASE InsertCommit(t)
    BY <1>1, <2>8
  <2> QED
    BY <2>2, <2>3, <2>4, <2>5, <2>6, <2>7, <2>8 DEF RecordStep
<1>3. InsertCommit(t) \/ timers' = timers
  BY DEF RecordStep, Call, Search, InsertCheck, TryUpgrade, NewElement,
         NewElementThrows, Insert, InsertUnlock, NotifyAll, CreateUnlock, CvWait,
         Relock, SpuriousWakeup, SearchUnlock, GuardLock, GuardUnlock, Accumulate
<1> QED BY <1>1, <1>2, <1>3

LEMMA PrintPosition ==
  ASSUME TypeOK, Position, NEW t \in Threads, PrintStep(t)
  PROVE  Position'
<1> pc \in [Threads -> {"idle"} \cup RecordPcs \cup PrintPcs]
  BY DEF TypeOK
<1>1. UNCHANGED <<timers, arg, ctx>>
  BY DEF PrintStep, PrintAll, Begin, Visit, Extract, RowsDone, Advance, PrintReturn,
         registryVars, recordVars
<1>2. /\ \A u \in Threads \ {t} : pc'[u] = pc[u]
      /\ pc'[t] \notin {"try", "alloc", "upgrade", "commit"}
  BY DEF PrintStep, PrintAll, Begin, Visit, Extract, RowsDone, Advance, PrintReturn,
         Goto
<1> QED BY <1>1, <1>2 DEF Position, AbsentKey, UniqueKeys, Linked

-----------------------------------------------------------------------------
(* Whoever waits, or is about to wait, has somebody who will notify.       *)

LoserHasUpgrader ==
  \A t \in Threads :
    pc[t] = "wait" =>
      \E u \in Threads : pc[u] \in {"alloc", "upgrade", "failnotify"}

Waking == LoserHasUpgrader /\ WaiterHasWaker

(* The steps of t by which it, or another thread, misses a notification.   *)
(* The exceptional exit notifies while it still has upgrade ownership: a   *)
(* thread may have failed to upgrade already, or may fail between the      *)
(* notification and the unlocking, and wait afterwards.                    *)
Misses(t) ==
  \/ /\ pc[t] = "failnotify" /\ pc'[t] = "failunlock"
     /\ \E u \in Threads : pc[u] = "wait"
  \/ /\ pc[t] = "try" /\ pc'[t] = "wait"
     /\ \E u \in Threads : pc[u] = "failunlock"

NobodyMisses == \A t \in Threads : ~ Misses(t)

LEMMA InitWaking == Init => Waking
BY DEF Init, Waking, LoserHasUpgrader, WaiterHasWaker

LEMMA RecordWaking ==
  ASSUME NobodyMisses, TypeOK, Ownership, Waking, NEW t \in Threads,
         RecordStep(t)
  PROVE  Waking'
<1> pc \in [Threads -> {"idle"} \cup RecordPcs \cup PrintPcs] /\ MutexTypeOK
  BY DEF TypeOK
<1> USE DEF Waking, LoserHasUpgrader, WaiterHasWaker, Goto
<1>1. CASE \E n \in Names : Call(t, n)
  BY <1>1 DEF Call
<1>2. CASE Search(t) \/ Relock(t) \/ InsertCheck(t)
  BY <1>2 DEF Search, Relock, InsertCheck
<1>3. CASE TryUpgrade(t)
  <2>1. CASE Goto(t, "try", "alloc")
    BY <2>1
  <2>2. CASE Goto(t, "try", "wait") /\ TryUpgradeFails(t)
    <3>1. writer = NoThread
      BY <2>2 DEF Ownership, OwnershipScoped, WriterAlone, SharedPcs
    <3>2. upgrader \in Threads
      BY <2>2, <3>1 DEF TryUpgradeFails, MutexTypeOK
    <3>3. pc[upgrader] \in UpgradePcs
      BY <3>2 DEF Ownership, OwnershipScoped
    <3>4. pc[t] = "try" /\ pc'[t] = "wait"
      BY <2>2
    <3>5. pc[upgrader] # "failunlock"
      BY <3>2, <3>4 DEF NobodyMisses, Misses
    <3> QED BY <2>2, <3>2, <3>3, <3>5 DEF UpgradePcs
  <2> QED BY <1>3, <2>1, <2>2 DEF TryUpgrade
<1>4. CASE NewElement(t) \/ NewElementThrows(t)
  BY <1>4 DEF NewElement, NewElementThrows
<1>5. CASE Insert(t)
  <2>1. \A u \in Threads : pc[u] # "wait"
    BY <1>5 DEF Insert, LockExclusive, Ownership, OwnershipScoped, SharedPcs
  <2> QED BY <1>5, <2>1 DEF Insert
<1>6. CASE InsertCommit(t) \/ InsertUnlock(t)
  BY <1>6 DEF InsertCommit, InsertUnlock
<1>7. CASE NotifyAll(t)
  <2>1. \A u \in Threads : pc'[u] # "waiting"
    BY <1>7 DEF NotifyAll
  <2>2. CASE pc[t] = "notify"
    BY <1>7, <2>1, <2>2 DEF NotifyAll
  <2>3. CASE pc[t] = "failnotify"
    <3>1. \A u \in Threads : pc[u] # "wait"
      BY <1>7, <2>3 DEF NotifyAll, NobodyMisses, Misses
    <3> QED BY <1>7, <2>1, <3>1 DEF NotifyAll
  <2> QED BY <1>7, <2>2, <2>3 DEF NotifyAll
<1>8. CASE CreateUnlock(t)
  BY <1>8 DEF CreateUnlock
<1>9. CASE CvWait(t)
  BY <1>9 DEF CvWait
<1>10. CASE SpuriousWakeup(t) \/ SearchUnlock(t)
  BY <1>10 DEF SpuriousWakeup, SearchUnlock
<1>11. CASE GuardLock(t) \/ GuardUnlock(t) \/ Accumulate(t)
  BY <1>11 DEF GuardLock, GuardUnlock, Accumulate
<1> QED
  BY <1>1, <1>2, <1>3, <1>4, <1>5, <1>6, <1>7, <1>8, <1>9, <1>10, <1>11
     DEF RecordStep

LEMMA PrintWaking ==
  ASSUME TypeOK, Waking, NEW t \in Threads, PrintStep(t)
  PROVE  Waking'
<1> pc \in [Threads -> {"idle"} \cup RecordPcs \cup PrintPcs]
  BY DEF TypeOK
<1>1. /\ \A u \in Threads \ {t} : pc'[u] = pc[u]
      /\ {pc[t], pc'[t]} \subseteq {"idle"} \cup PrintPcs
  BY DEF PrintStep, PrintAll, Begin, Visit, Extract, RowsDone, Advance, PrintReturn,
         Goto, PrintPcs
<1> QED BY <1>1 DEF Waking, LoserHasUpgrader, WaiterHasWaker, PrintPcs

-----------------------------------------------------------------------------
(* The accumulators of an element are apart only while its spinlock is     *)
(* held, and then by what the holder has still to add.                     *)

GuardScoped ==
  \A t \in Threads, n \in Names :
    guard[n] = t <=> pc[t] \in GuardPcs /\ arg[t] = n

(* What the clock lacks of the wall clock when its holder is at p.         *)
Lag(p, c) ==
  IF c = "wall" \/ p \in {"wall", "unguard"} \/ (p = "system" /\ c = "user")
  THEN 0 ELSE 1

ClocksLag ==
  /\ \A t \in Threads : pc[t] \in GuardPcs =>
       \A c \in Clocks :
         samples[arg[t]]["wall"] = samples[arg[t]][c] + Lag(pc[t], c)
  /\ ClocksAgree

Sampling == GuardScoped /\ ClocksLag

LEMMA InitSampling == Init => Sampling
BY NoThreadAssumption
   DEF Init, Sampling, GuardScoped, ClocksLag, ClocksAgree, GuardPcs, Clocks

LEMMA RecordSampling ==
  ASSUME TypeOK, Sampling, NEW t \in Threads, RecordStep(t)
  PROVE  Sampling'
<1> /\ pc \in [Threads -> {"idle"} \cup RecordPcs \cup PrintPcs]
    /\ arg \in [Threads -> Names]
    /\ guard \in [Names -> Threads \cup {NoThread}]
    /\ samples \in [Names -> [Clocks -> Nat]]
  BY DEF TypeOK
<1> USE NoThreadAssumption DEF Sampling, GuardScoped, ClocksLag, ClocksAgree, GuardPcs, Goto
<1>1. CASE GuardLock(t)
  BY <1>1 DEF GuardLock, Lag, Clocks, recordVars
<1>2. CASE Accumulate(t)
  BY <1>2 DEF Accumulate, Lag, Clocks, recordVars
<1>3. CASE GuardUnlock(t)
  BY <1>3 DEF GuardUnlock, Lag, Clocks, recordVars
<1>4. CASE /\ UNCHANGED <<samples, guard>>
           /\ \A u \in Threads : pc[u] \in GuardPcs =>
                pc'[u] = pc[u] /\ arg'[u] = arg[u]
           /\ \A u \in Threads : pc'[u] \in GuardPcs => pc[u] \in GuardPcs
  BY <1>4
<1>5. \/ GuardLock(t) \/ Accumulate(t) \/ GuardUnlock(t)
      \/ /\ UNCHANGED <<samples, guard>>
         /\ \A u \in Threads : pc[u] \in GuardPcs =>
              pc'[u] = pc[u] /\ arg'[u] = arg[u]
         /\ \A u \in Threads : pc'[u] \in GuardPcs => pc[u] \in GuardPcs
  BY DEF RecordStep, Call, Search, InsertCheck, TryUpgrade, NewElement,
         NewElementThrows, Insert, InsertCommit, InsertUnlock, NotifyAll,
         CreateUnlock, CvWait, Relock, SpuriousWakeup, SearchUnlock,
         registryVars, recordVars
<1> QED BY <1>1, <1>2, <1>3, <1>4, <1>5

LEMMA PrintSampling ==
  ASSUME TypeOK, Sampling, NEW t \in Threads, PrintStep(t)
  PROVE  Sampling'
<1> pc \in [Threads -> {"idle"} \cup RecordPcs \cup PrintPcs]
  BY DEF TypeOK
<1>1. UNCHANGED <<samples, guard, arg>>
  BY DEF PrintStep, PrintAll, Begin, Visit, Extract, RowsDone, Advance, PrintReturn,
         registryVars, recordVars
<1>2. /\ \A u \in Threads \ {t} : pc'[u] = pc[u]
      /\ {pc[t], pc'[t]} \cap GuardPcs = {}
  BY DEF PrintStep, PrintAll, Begin, Visit, Extract, RowsDone, Advance, PrintReturn,
         Goto, GuardPcs
<1> QED BY <1>1, <1>2 DEF Sampling, GuardScoped, ClocksLag, ClocksAgree

-----------------------------------------------------------------------------
(* What a thread has printed of an element is no newer than the slowest of *)
(* its clocks.                                                             *)

RowBehind ==
  \A t \in Threads :
    pc[t] = "extract" => version[t] =< samples[iter[t]]["system"]

LEMMA RecordRow ==
  ASSUME TypeOK, IterAtElement, RowBehind, NEW t \in Threads, RecordStep(t)
  PROVE  RowBehind'
<1> /\ pc \in [Threads -> {"idle"} \cup RecordPcs \cup PrintPcs]
    /\ arg \in [Threads -> Names]
    /\ samples \in [Names -> [Clocks -> Nat]]
    /\ version \in [Threads -> Nat]
    /\ IterAtElement
  BY DEF TypeOK
<1>1. /\ UNCHANGED <<iter, version>>
      /\ \A u \in Threads : pc'[u] = "extract" => pc[u] = "extract"
  BY DEF RecordStep, Call, Search, InsertCheck, TryUpgrade, NewElement,
         NewElementThrows, Insert, InsertCommit, InsertUnlock, NotifyAll,
         CreateUnlock, CvWait, Relock, SpuriousWakeup, SearchUnlock, GuardLock,
         GuardUnlock, Accumulate, printVars, Goto
<1>2. CASE samples' = samples
  BY <1>1, <1>2 DEF RowBehind
<1>3. CASE Accumulate(t)
  <2>1. \A n \in Names : samples'[n]["system"] >= samples[n]["system"]
    <3>1. arg[t] \in Names /\ pc[t] \in Clocks
      BY <1>3 DEF Accumulate, Goto, Clocks
    <3>2. samples' = [samples EXCEPT ![arg[t]][pc[t]] = @ + 1]
      BY <1>3 DEF Accumulate
    <3> QED BY <3>1, <3>2 DEF Clocks
  <2>2. \A u \in Threads : pc[u] = "extract" => iter[u] \in Names
    BY DEF IterAtElement
  <2>3. \A n \in Names : samples[n]["system"] \in Nat /\ samples'[n]["system"] \in Int
    <3>1. samples' \in [Names -> [Clocks -> Nat]]
      BY RecordTyped DEF TypeOK
    <3> QED BY <3>1 DEF Clocks
  <2> QED BY <1>1, <2>1, <2>2, <2>3 DEF RowBehind
<1>4. Accumulate(t) \/ samples' = samples
  BY DEF RecordStep, Call, Search, InsertCheck, TryUpgrade, NewElement,
         NewElementThrows, Insert, InsertCommit, InsertUnlock, NotifyAll,
         CreateUnlock, CvWait, Relock, SpuriousWakeup, SearchUnlock, GuardLock,
         GuardUnlock, registryVars
<1> QED BY <1>2, <1>3, <1>4

LEMMA PrintRow ==
  ASSUME TypeOK, IterAtElement, Sampling, RowBehind, NEW t \in Threads,
         PrintStep(t)
  PROVE  RowBehind' /\ (cell'[t] > cell[t] => version'[t] >= version[t])
<1> /\ pc \in [Threads -> {"idle"} \cup RecordPcs \cup PrintPcs]
    /\ samples \in [Names -> [Clocks -> Nat]]
    /\ version \in [Threads -> Nat]
    /\ cell \in [Threads -> 0 .. 3 * Features]
    /\ iter \in [Threads -> Names \cup {End}]
    /\ IterAtElement
  BY DEF TypeOK
<1> USE DEF Goto, registryVars
<1>1. CASE Extract(t)
  <2>1. iter[t] \in Names /\ ClockOf(cell[t]) \in Clocks
    BY <1>1 DEF Extract, IterAtElement, ClockOf, Clocks
  <2>2. samples[iter[t]][ClockOf(cell[t])] = samples[iter[t]]["system"]
    BY <1>1, <2>1 DEF Extract, Sampling, ClocksLag, ClocksAgree, Clocks
  <2>3. version' = [version EXCEPT ![t] = samples[iter[t]]["system"]]
        /\ UNCHANGED <<pc, iter, samples>>
    BY <1>1, <2>2 DEF Extract
  <2>4. samples[iter[t]]["system"] \in Nat
    BY <2>1 DEF Clocks
  <2> QED BY <1>1, <2>3, <2>4 DEF RowBehind, Extract
<1>2. CASE Visit(t)
  <2>1. \A n \in Names : samples[n]["system"] \in Nat
    BY DEF Clocks
  <2>2. iter[t] \in Names
    BY <1>2 DEF Visit
  <2> QED BY <1>2, <2>1, <2>2 DEF RowBehind, Visit
<1>3. CASE (\E re \in SUBSET Names : PrintAll(t, re)) \/ PrintReturn(t)
  BY <1>3 DEF RowBehind, PrintAll, PrintReturn, printVars
<1>4. CASE Begin(t) \/ Advance(t) \/ RowsDone(t)
  BY <1>4 DEF RowBehind, Begin, Advance, RowsDone
<1> QED BY <1>1, <1>2, <1>3, <1>4 DEF PrintStep

(* The next element is a greater one.                                      *)
LEMMA PrintForward ==
  ASSUME TypeOK, IterAtElement, NEW t \in Threads, PrintStep(t)
  PROVE  pc[t] = "next" /\ iter'[t] # iter[t] /\ iter'[t] # End
           => iter'[t] > iter[t]
<1>1. CASE Advance(t)
  <2>1. {n \in Linked : n > iter[t]} \in SUBSET Names
    BY DEF Linked
  <2>2. iter'[t] = FirstOf({n \in Linked : n > iter[t]})
    BY <1>1 DEF Advance, TypeOK
  <2> QED BY <2>1, <2>2, FirstOfType
<1>2. CASE pc[t] # "next"
  BY <1>2
<1> QED
  BY <1>1, <1>2 DEF PrintStep, PrintAll, Begin, Visit, Extract, RowsDone, PrintReturn,
     Goto

-----------------------------------------------------------------------------
(* What a call knows of its name: it is linked, or it was not when the     *)
(* call began.                                                             *)

KnowsLinked(t) ==
  \/ pc[t] \in {"unlock", "notify"} \cup {"guard", "wall", "user", "system"}
  \/ pc[t] = "release" /\ found[t]

KnowsFresh(t) ==
  \/ pc[t] \in {"try", "alloc", "upgrade", "commit", "wait", "waiting", "relock",
                "failnotify", "failunlock"}
  \/ pc[t] = "release" /\ ~ found[t]

Knowledge ==
  \A t \in Threads :
    /\ before[t] \subseteq Linked
    /\ KnowsLinked(t) => arg[t] \in Linked
    /\ KnowsFresh(t) => arg[t] \notin before[t]
    /\ pc[t] \in {"search", "check", "try", "wait", "waiting", "relock"} => ~ found[t]

LEMMA InitKnowledge == Init => Knowledge
BY DEF Init, Knowledge, KnowsLinked, KnowsFresh, Linked

LEMMA RecordKnowledge ==
  ASSUME TypeOK, Position, Knowledge, NEW t \in Threads, RecordStep(t)
  PROVE  Knowledge'
<1> /\ pc \in [Threads -> {"idle"} \cup RecordPcs \cup PrintPcs]
    /\ arg \in [Threads -> Names]
    /\ found \in [Threads -> BOOLEAN]
    /\ before \in [Threads -> SUBSET Names]
    /\ timers \in [Names -> Nat]
  BY DEF TypeOK
<1> USE DEF Knowledge, KnowsLinked, KnowsFresh, Goto, registryVars, recordVars, callVars
<1>1. CASE InsertCommit(t)
  <2>1. arg[t] \in Names /\ timers' = [timers EXCEPT ![arg[t]] = @ + 1]
    BY <1>1 DEF InsertCommit
  <2>2. Linked' = Linked \cup {arg[t]}
    BY <2>1 DEF Linked
  <2> QED BY <1>1, <2>2 DEF InsertCommit
<1>2. CASE timers' = timers
  <2>1. Linked' = Linked
    BY <1>2 DEF Linked
  <2>2. CASE \E n \in Names : Call(t, n)
    BY <2>1, <2>2 DEF Call
  <2>3. CASE InsertCheck(t)
    BY <2>1, <2>3 DEF InsertCheck
  <2>4. CASE TryUpgrade(t) \/ NewElementThrows(t) \/ Insert(t)
    BY <2>1, <2>4 DEF TryUpgrade, NewElementThrows, Insert
  <2>5. CASE NewElement(t)
    BY <2>1, <2>5 DEF NewElement
  <2>6. CASE Search(t) \/ InsertUnlock(t) \/ CreateUnlock(t) \/ CvWait(t)
             \/ Relock(t) \/ SpuriousWakeup(t) \/ SearchUnlock(t)
    BY <2>1, <2>6
       DEF Search, InsertUnlock, CreateUnlock, CvWait, Relock, SpuriousWakeup,
           SearchUnlock
  <2>7. CASE NotifyAll(t)
    BY <2>1, <2>7 DEF NotifyAll
  <2>8. CASE GuardLock(t) \/ GuardUnlock(t) \/ Accumulate(t)
    BY <2>1, <2>8 DEF GuardLock, GuardUnlock, Accumulate
  <2>9. CASE InsertCommit(t)
    BY <1>1, <2>9
  <2> QED
    BY <2>2, <2>3, <2>4, <2>5, <2>6, <2>7, <2>8, <2>9 DEF RecordStep
<1>3. InsertCommit(t) \/ timers' = timers
  BY DEF RecordStep, Call, Search, InsertCheck, TryUpgrade, NewElement,
         NewElementThrows, Insert, InsertUnlock, NotifyAll, CreateUnlock, CvWait,
         Relock, SpuriousWakeup, SearchUnlock, GuardLock, GuardUnlock, Accumulate
<1> QED BY <1>1, <1>2, <1>3

LEMMA PrintKnowledge ==
  ASSUME TypeOK, Knowledge, NEW t \in Threads, PrintStep(t)
  PROVE  Knowledge'
<1> /\ pc \in [Threads -> {"idle"} \cup RecordPcs \cup PrintPcs]
    /\ before \in [Threads -> SUBSET Names]
  BY DEF TypeOK
<1>1. UNCHANGED <<timers, arg, found>>
  BY DEF PrintStep, PrintAll, Begin, Visit, Extract, RowsDone, Advance, PrintReturn,
         registryVars, recordVars
<1>2. /\ \A u \in Threads \ {t} : pc'[u] = pc[u]
      /\ pc'[t] \in {"idle"} \cup PrintPcs
  BY DEF PrintStep, PrintAll, Begin, Visit, Extract, RowsDone, Advance, PrintReturn,
         Goto, PrintPcs
<1>3. before' = before \/ before' = [before EXCEPT ![t] = Linked]
  BY DEF PrintStep, PrintAll, Begin, Visit, Extract, RowsDone, Advance, PrintReturn,
         callVars
<1> QED
  BY <1>1, <1>2, <1>3 DEF Knowledge, KnowsLinked, KnowsFresh, Linked, PrintPcs

-----------------------------------------------------------------------------
(* What the walk has behind it is printed.                                 *)

(* The keys the walk of t has passed.                                      *)
Passed(t) ==
  {n \in Names : \/ iter[t] = End
                 \/ n < iter[t]
                 \/ n = iter[t] /\ pc[t] = "next"}

Walk ==
  \A t \in Threads :
    /\ pc[t] \in {"test", "extract", "next"} =>
         before[t] \cap pattern[t] \cap Passed(t) \subseteq printed[t]
    /\ pc[t] \in PrintPcs => printed[t] \subseteq pattern[t]
    /\ pc[t] = "extract" => iter[t] \in pattern[t]

LEMMA InitWalk == Init => Walk
BY DEF Init, Walk, PrintPcs

(* FirstOf leaves no key of the set behind.                                *)
LEMMA FirstOfLeast ==
  ASSUME NEW S \in SUBSET Names, NEW n \in S
  PROVE  FirstOf(S) \in S /\ FirstOf(S) =< n
<1>1. S \in SUBSET Nat /\ S # {}
  BY RegistryAssumption
<1> QED BY <1>1, MinNat DEF FirstOf

LEMMA RecordWalk ==
  ASSUME TypeOK, Walk, NEW t \in Threads, RecordStep(t)
  PROVE  Walk'
<1> /\ pc \in [Threads -> {"idle"} \cup RecordPcs \cup PrintPcs]
    /\ before \in [Threads -> SUBSET Names]
  BY DEF TypeOK
<1>1. UNCHANGED <<iter, pattern, printed>>
  BY DEF RecordStep, Call, Search, InsertCheck, TryUpgrade, NewElement,
         NewElementThrows, Insert, InsertCommit, InsertUnlock, NotifyAll,
         CreateUnlock, CvWait, Relock, SpuriousWakeup, SearchUnlock, GuardLock,
         GuardUnlock, Accumulate, printVars
<1>2. \A u \in Threads : pc'[u] \in {"test", "extract", "next"} =>
        pc'[u] = pc[u] /\ before'[u] = before[u]
  BY DEF RecordStep, Call, Search, InsertCheck, TryUpgrade, NewElement,
         NewElementThrows, Insert, InsertCommit, InsertUnlock, NotifyAll,
         CreateUnlock, CvWait, Relock, SpuriousWakeup, SearchUnlock, GuardLock,
         GuardUnlock, Accumulate, callVars, Goto
<1>3. \A u \in Threads : pc'[u] \in PrintPcs => pc[u] \in PrintPcs
  BY DEF RecordStep, Call, Search, InsertCheck, TryUpgrade, NewElement,
         NewElementThrows, Insert, InsertCommit, InsertUnlock, NotifyAll,
         CreateUnlock, CvWait, Relock, SpuriousWakeup, SearchUnlock, GuardLock,
         GuardUnlock, Accumulate, Goto, PrintPcs
<1> QED BY <1>1, <1>2, <1>3 DEF Walk, Passed

LEMMA PrintWalk ==
  ASSUME TypeOK, IterAtElement, Knowledge, Walk, NEW t \in Threads, PrintStep(t)
  PROVE  Walk'
<1> /\ pc \in [Threads -> {"idle"} \cup RecordPcs \cup PrintPcs]
    /\ before \in [Threads -> SUBSET Names]
    /\ pattern \in [Threads -> SUBSET Names]
    /\ printed \in [Threads -> SUBSET Names]
    /\ iter \in [Threads -> Names \cup {End}]
    /\ before[t] \subseteq Linked
  BY DEF TypeOK, Knowledge
<1> USE RegistryAssumption DEF Goto, Walk, Passed, PrintPcs, callVars
<1>1. CASE \E re \in SUBSET Names : PrintAll(t, re)
  BY <1>1 DEF PrintAll
<1>0. \A m \in Names : m \in Nat /\ m # End
  OBVIOUS
<1>2. CASE Begin(t)
  <2>1. Linked \in SUBSET Names
    BY DEF Linked
  <2>2. \A n \in before[t] : FirstOf(Linked) \in Names /\ FirstOf(Linked) =< n
    BY <2>1, FirstOfLeast
  <2>3. \A n \in before[t] : iter'[t] \in Names /\ ~ (n < iter'[t])
    <3>1. iter'[t] = FirstOf(Linked)
      BY <1>2 DEF Begin
    <3>2. \A n, m \in Nat : m =< n => ~ (n < m)
      OBVIOUS
    <3> QED BY <1>0, <2>2, <3>1, <3>2, Zenon
  <2>4. printed[t] \subseteq pattern[t]
    BY <1>2 DEF Begin
  <2> QED BY <1>2, <2>3, <2>4 DEF Begin
<1>3. CASE Visit(t)
  BY <1>3 DEF Visit
<1>4. CASE Extract(t)
  BY <1>4 DEF Extract
<1>5. CASE RowsDone(t)
  BY <1>5 DEF RowsDone
<1>6. CASE Advance(t)
  <2> DEFINE rest == {n \in Linked : n > iter[t]}
  <2>1. rest \in SUBSET Names
    BY DEF Linked
  <2>2. iter[t] \in Names
    BY <1>6 DEF Advance, IterAtElement
  <2>3. \A n \in before[t] :
          n > iter[t] => FirstOf(rest) \in Names /\ FirstOf(rest) =< n
    BY <2>1, FirstOfLeast
  <2>4. \A n \in before[t] : n > iter[t] => iter'[t] \in Names /\ ~ (n < iter'[t])
    <3>1. iter'[t] = FirstOf(rest)
      BY <1>6 DEF Advance
    <3>2. \A n, m \in Nat : m =< n => ~ (n < m)
      OBVIOUS
    <3> QED BY <1>0, <2>3, <3>1, <3>2, Zenon
  <2>5. \A n \in before[t] : n > iter[t] \/ n < iter[t] \/ n = iter[t]
    <3>1. \A n, m \in Nat : n > m \/ n < m \/ n = m
      OBVIOUS
    <3> QED BY <1>0, <2>2, <3>1, Zenon
  <2> QED BY <1>6, <2>2, <2>4, <2>5 DEF Advance
<1>7. CASE PrintReturn(t)
  BY <1>7 DEF PrintReturn, printVars
<1> QED
  BY <1>1, <1>2, <1>3, <1>4, <1>5, <1>6, <1>7 DEF PrintStep

-----------------------------------------------------------------------------
(* The inductive invariant of the registry.                                *)

IInv ==
  /\ TypeOK /\ IterAtElement /\ Ownership /\ Position /\ Sampling /\ RowBehind
  /\ Knowledge /\ Walk

LEMMA InitIInv == Init => IInv
<1>1. Init => RowBehind
  BY DEF Init, RowBehind
<1> QED
  BY <1>1, InitTyped, InitOwnership, InitPosition, InitSampling, InitKnowledge,
     InitWalk
     DEF IInv

LEMMA NextIInv == ASSUME IInv, Next PROVE IInv'
<1>1. PICK t \in Threads : RecordStep(t) \/ PrintStep(t)
  BY NextHalves
<1>2. CASE RecordStep(t)
  BY <1>2, RecordTyped, RecordOwnership, RecordPosition, RecordSampling, RecordRow,
     RecordKnowledge, RecordWalk
     DEF IInv
<1>3. CASE PrintStep(t)
  BY <1>3, PrintTyped, PrintOwnership, PrintPosition, PrintSampling, PrintRow,
     PrintKnowledge, PrintWalk
     DEF IInv
<1> QED BY <1>1, <1>2, <1>3

LEMMA StutterIInv == ASSUME IInv, UNCHANGED vars PROVE IInv'
BY DEF IInv, TypeOK, MutexTypeOK, IterAtElement, Ownership, OwnershipScoped,
       WriterAlone, Position, AbsentKey, UniqueKeys, Linked, Sampling, GuardScoped,
       ClocksLag, ClocksAgree, RowBehind, Knowledge, KnowsLinked, KnowsFresh, Walk,
       Passed, vars, mutexVars, registryVars,
       recordVars, printVars, callVars

(* The strengthened invariant holds throughout (timing.cpp:142-221,        *)
(* 230-279); every safety property of the registry follows from it.        *)
THEOREM Inductive == Spec => []IInv
<1>1. IInv /\ [Next]_vars => IInv'
  BY NextIInv, StutterIInv
<1> QED BY InitIInv, <1>1, PTL DEF Spec

(* Type correctness (TypeOK): every value stays in its range, among them   *)
(* the column of a report being printed (timing.cpp:265-274), which never  *)
(* passes the last feature of the last clock.                              *)
THEOREM TypeCorrect == Spec => []TypeOK
<1>1. IInv => TypeOK
  BY DEF IInv
<1> QED BY <1>1, Inductive, PTL

(* Ownership follows the block structure of report(name, loc) on every     *)
(* path, the exceptional one included (timing.cpp:177-214).                *)
THEOREM OwnershipIsScoped == Spec => []OwnershipScoped
<1>1. IInv => OwnershipScoped
  BY DEF IInv, Ownership
<1> QED BY <1>1, Inductive, PTL

(* No key is ever linked twice, for any number of threads that race to     *)
(* create any number of timers (timing.cpp:180, 187, 204).                 *)
THEOREM KeysAreUnique == Spec => []UniqueKeys
<1>1. IInv => UniqueKeys
  BY DEF IInv, Position
<1> QED BY <1>1, Inductive, PTL

(* The commit data of insert_check are still valid when insert_commit uses *)
(* them (timing.cpp:180-204).                                              *)
THEOREM CommitDataIsFresh == Spec => []CommitDataFresh
<1>1. IInv => CommitDataFresh
  BY DEF IInv, Position, AbsentKey, CommitDataFresh
<1> QED BY <1>1, Inductive, PTL

(* The three clocks of an element have the same number of samples whenever *)
(* its spinlock is free (timing.cpp:217-220).                              *)
THEOREM ClocksStayTogether == Spec => []ClocksAgree
<1>1. IInv => ClocksAgree
  BY DEF IInv, Sampling, ClocksLag
<1> QED BY <1>1, Inductive, PTL

(* A printed report has every timer that matched and existed when it       *)
(* began, and only timers that match (timing.cpp:256-261).                 *)
THEOREM ReportIsComplete == Spec => []ReportComplete
<1>1. IInv => ReportComplete
  BY DEF IInv, TypeOK, Walk, Passed, PrintPcs, ReportComplete
<1> QED BY <1>1, Inductive, PTL

(* The rows of an element never go back in time, however its updates fall  *)
(* between the extractions (timing.cpp:265-274).                           *)
THEOREM RowsGoForward == Spec => RowsNeverGoBack
<1>1. IInv /\ [Next]_vars =>
        [\A t \in Threads : cell'[t] > cell[t] => version'[t] >= version[t]]_vars
  <2> SUFFICES ASSUME IInv, Next, NEW u \in Threads, cell'[u] > cell[u]
               PROVE  version'[u] >= version[u]
    OBVIOUS
  <2>1. PICK t \in Threads : RecordStep(t) \/ PrintStep(t)
    BY NextHalves
  <2>2. CASE u = t /\ PrintStep(t)
    BY <2>2, PrintRow DEF IInv
  <2>3. CASE u # t \/ RecordStep(t)
    <3>1. cell'[u] = cell[u]
      BY <2>1, <2>3
         DEF IInv, TypeOK, RecordStep, Call, Search, InsertCheck, TryUpgrade, NewElement,
             NewElementThrows, Insert, InsertCommit, InsertUnlock, NotifyAll,
             CreateUnlock, CvWait, Relock, SpuriousWakeup, SearchUnlock, GuardLock,
             GuardUnlock, Accumulate, printVars, PrintStep, PrintAll, Begin, Visit,
             Extract, RowsDone, Advance, PrintReturn
    <3> QED BY <3>1 DEF IInv, TypeOK
  <2> QED BY <2>1, <2>2, <2>3
<1> QED BY <1>1, Inductive, PTL DEF Spec, RowsNeverGoBack

(* The walk over the set goes forward only, whatever is inserted while the *)
(* set is unlocked (timing.cpp:256).                                       *)
THEOREM WalkGoesForward == Spec => ReportOrdered
<1>1. IInv /\ [Next]_vars =>
        [\A t \in Threads :
           pc[t] = "next" /\ iter'[t] # iter[t] /\ iter'[t] # End
             => iter'[t] > iter[t]]_vars
  <2> SUFFICES ASSUME IInv, Next, NEW u \in Threads, iter'[u] # iter[u],
                      pc[u] = "next", iter'[u] # End
               PROVE  iter'[u] > iter[u]
    OBVIOUS
  <2>1. PICK t \in Threads : RecordStep(t) \/ PrintStep(t)
    BY NextHalves
  <2>2. CASE u = t /\ PrintStep(t)
    BY <2>2, PrintForward DEF IInv
  <2>3. CASE u # t \/ RecordStep(t)
    <3>1. iter'[u] = iter[u]
      BY <2>1, <2>3
         DEF IInv, TypeOK, RecordStep, Call, Search, InsertCheck, TryUpgrade, NewElement,
             NewElementThrows, Insert, InsertCommit, InsertUnlock, NotifyAll,
             CreateUnlock, CvWait, Relock, SpuriousWakeup, SearchUnlock, GuardLock,
             GuardUnlock, Accumulate, printVars, PrintStep, PrintAll, Begin, Visit,
             Extract, RowsDone, Advance, PrintReturn
    <3> QED BY <3>1
  <2> QED BY <2>1, <2>2, <2>3
<1> QED BY <1>1, Inductive, PTL DEF Spec, ReportOrdered

(* Whatever allocations fail, a thread blocked in cv.wait has a thread that *)
(* has still to notify it, until the first step by which a notification is *)
(* missed (timing.cpp:187-209).                                            *)
UntilMissed == Init /\ [][Next /\ NobodyMisses]_vars

THEOREM WakersUntilMissed == UntilMissed => []WaiterHasWaker
<1>1. IInv /\ Waking /\ [Next /\ NobodyMisses]_vars => Waking'
  <2>1. ASSUME IInv, Waking, Next, NobodyMisses PROVE Waking'
    BY <2>1, NextHalves, RecordWaking, PrintWaking DEF IInv
  <2>2. ASSUME Waking, UNCHANGED vars PROVE Waking'
    BY <2>2 DEF Waking, LoserHasUpgrader, WaiterHasWaker, vars
  <2> QED BY <2>1, <2>2
<1>2. [Next /\ NobodyMisses]_vars => [Next]_vars
  OBVIOUS
<1>3. Waking => WaiterHasWaker
  BY DEF Waking
<1> QED BY InitWaking, <1>1, <1>2, <1>3, Inductive, PTL DEF Spec, UntilMissed

(* Without allocation failures nobody ever misses a notification: a thread *)
(* blocked in cv.wait always has one that has still to notify it           *)
(* (timing.cpp:187-209).                                                   *)
NoFailure == \A t \in Threads : pc[t] \notin {"failnotify", "failunlock"}

THEOREM WaitersHaveWakers == ~ AllocMayFail => (Spec => []WaiterHasWaker)
<1> SUFFICES ASSUME ~ AllocMayFail PROVE Spec => []WaiterHasWaker
  OBVIOUS
<1>1. Init => NoFailure
  BY DEF Init, NoFailure
<1>2. IInv /\ NoFailure /\ [Next]_vars => NoFailure'
  <2>1. ASSUME TypeOK, NoFailure, NEW t \in Threads, RecordStep(t)
        PROVE  NoFailure'
    <3>1. pc \in [Threads -> {"idle"} \cup RecordPcs \cup PrintPcs]
      BY <2>1 DEF TypeOK
    <3> QED BY <2>1, <3>1
            DEF RecordStep, NoFailure, Goto, Call, Search, InsertCheck,
                TryUpgrade, NewElement, NewElementThrows, Insert,
                InsertCommit, InsertUnlock, NotifyAll, CreateUnlock, CvWait,
                Relock, SpuriousWakeup, SearchUnlock, GuardLock, Accumulate,
                GuardUnlock
  <2>2. ASSUME TypeOK, NoFailure, NEW t \in Threads, PrintStep(t)
        PROVE  NoFailure'
    <3>1. pc \in [Threads -> {"idle"} \cup RecordPcs \cup PrintPcs]
      BY <2>2 DEF TypeOK
    <3> QED BY <2>2, <3>1
            DEF PrintStep, NoFailure, Goto, PrintAll, Begin, Visit, Extract,
                RowsDone, Advance, PrintReturn
  <2>3. ASSUME NoFailure, UNCHANGED vars PROVE NoFailure'
    BY <2>3 DEF NoFailure, vars
  <2> QED BY <2>1, <2>2, <2>3, NextHalves DEF IInv
<1>3. NoFailure => NobodyMisses
  BY DEF NoFailure, NobodyMisses, Misses
<1>4. NoFailure /\ [Next]_vars => [Next /\ NobodyMisses]_vars
  BY <1>3
<1> QED BY <1>1, <1>2, <1>4, WakersUntilMissed, Inductive, PTL
        DEF Spec, UntilMissed

-----------------------------------------------------------------------------
(* Refinement of TimerBoard.                                               *)

pending == {CallOf(t) : t \in InCall}

(* The three ways a step can change the calls in progress.                 *)
LEMMA CallStays ==
  ASSUME InCall' = InCall,
         \A u \in InCall : arg'[u] = arg[u] /\ before'[u] = before[u]
  PROVE  pending' = pending
BY DEF pending, CallOf

LEMMA CallEnds ==
  ASSUME NEW t \in InCall, InCall' = InCall \ {t}, arg' = arg, before' = before
  PROVE  CallOf(t) \in pending /\ pending' = pending \ {CallOf(t)}
<1>1. \A u, v : CallOf(u) = CallOf(v) => u = v
  BY DEF CallOf
<1>2. \A u : CallOf(u)' = CallOf(u)
  BY DEF CallOf
<1> QED BY <1>1, <1>2 DEF pending

LEMMA CallBegins ==
  ASSUME TypeOK, NEW t \in Threads, NEW n \in Names, Call(t, n)
  PROVE  /\ \A c \in pending : c.thread # t
         /\ pending' = pending \cup
              {[thread |-> t, name |-> n, fresh |-> n \notin Linked]}
<1>1. /\ t \notin InCall
      /\ InCall' = InCall \cup {t}
  BY DEF Call, Goto, InCall, RecordPcs, TypeOK
<1>2. \A u \in InCall : CallOf(u)' = CallOf(u)
  BY <1>1 DEF Call, CallOf, TypeOK
<1>3. CallOf(t)' = [thread |-> t, name |-> n, fresh |-> n \notin Linked]
  BY DEF Call, CallOf, TypeOK
<1>4. \A u : CallOf(u).thread = u
  BY DEF CallOf
<1>5. \A c \in pending : c.thread # t
  BY <1>1, <1>4 DEF pending
<1>6. pending' = pending \cup
        {[thread |-> t, name |-> n, fresh |-> n \notin Linked]}
  BY <1>1, <1>2, <1>3 DEF pending
<1> QED BY <1>5, <1>6

count == [n \in Names |-> samples[n]["system"]]

LEMMA RecordRefines ==
  ASSUME IInv, NEW t \in Threads, RecordStep(t)
  PROVE  Board!BoardNext \/ UNCHANGED Board!boardVars
<1> /\ pc \in [Threads -> {"idle"} \cup RecordPcs \cup PrintPcs]
    /\ arg \in [Threads -> Names]
    /\ timers \in [Names -> Nat]
    /\ samples \in [Names -> [Clocks -> Nat]]
    /\ Knowledge
  BY DEF IInv, TypeOK
<1> USE DEF Goto, registryVars, recordVars, callVars
<1>1. CASE \E n \in Names : Call(t, n)
  <2>1. PICK n \in Names : Call(t, n)
    BY <1>1
  <2>2. Linked' = Linked /\ count' = count
    BY <2>1 DEF Call, Linked, count
  <2>3. /\ \A c \in pending : c.thread # t
        /\ pending' = pending \cup
             {[thread |-> t, name |-> n, fresh |-> n \notin Linked]}
    BY <2>1, CallBegins DEF IInv
  <2> QED BY <2>2, <2>3 DEF Board!BoardNext, Board!BoardCall, pending, count
<1>2. CASE InsertCommit(t)
  <2>1. CallOf(t) \in pending
    BY <1>2 DEF InsertCommit, pending, InCall, RecordPcs
  <2>2. pending' = pending
    <3>1. InCall' = InCall
      BY <1>2 DEF InsertCommit, InCall, RecordPcs
    <3> QED BY <1>2, <3>1, CallStays DEF InsertCommit
  <2>3. arg[t] \notin Linked
    BY <1>2 DEF InsertCommit, IInv, Position, AbsentKey
  <2>4. Linked' = Linked \cup {arg[t]}
    <3>1. arg[t] \in Names /\ timers' = [timers EXCEPT ![arg[t]] = @ + 1]
      BY <1>2 DEF InsertCommit
    <3> QED BY <3>1 DEF Linked
  <2>5. count' = count
    BY <1>2 DEF InsertCommit, count
  <2>6. Board!Create(CallOf(t))
    BY <2>2, <2>3, <2>4, <2>5 DEF Board!Create, CallOf, pending, count
  <2> QED BY <2>1, <2>6 DEF Board!BoardNext, pending
<1>3. CASE Accumulate(t) /\ pc[t] = "system"
  <2>1. t \in InCall /\ InCall' = InCall \ {t}
    BY <1>3 DEF Accumulate, InCall, RecordPcs
  <2>2. CallOf(t) \in pending /\ pending' = pending \ {CallOf(t)}
    BY <1>3, <2>1, CallEnds DEF Accumulate
  <2>3. arg[t] \in Linked /\ Linked' = Linked
    BY <1>3 DEF Accumulate, Knowledge, KnowsLinked, Linked
  <2>4. count' = [count EXCEPT ![arg[t]] = @ + 1]
    <3>1. arg[t] \in Names
          /\ samples' = [samples EXCEPT ![arg[t]]["system"] = @ + 1]
      BY <1>3 DEF Accumulate
    <3> QED BY <3>1 DEF count, Clocks
  <2>5. PICK c \in pending : c = CallOf(t)
    BY <2>2
  <2>6. Board!Record(c)
    BY <2>2, <2>3, <2>4, <2>5 DEF Board!Record, CallOf, pending, count
  <2> QED BY <2>5, <2>6 DEF Board!BoardNext, pending
<1>4. CASE CreateUnlock(t) \/ (SearchUnlock(t) /\ ~ found[t])
  <2>1. t \in InCall /\ InCall' = InCall \ {t}
    BY <1>4 DEF CreateUnlock, SearchUnlock, InCall, RecordPcs
  <2>2. CallOf(t) \in pending /\ pending' = pending \ {CallOf(t)}
    BY <1>4, <2>1, CallEnds DEF CreateUnlock, SearchUnlock
  <2>3. arg[t] \notin before[t]
    BY <1>4 DEF CreateUnlock, SearchUnlock, Knowledge, KnowsFresh
  <2>4. Linked' = Linked /\ count' = count
    BY <1>4 DEF CreateUnlock, SearchUnlock, Linked, count
  <2>5. Board!Drop(CallOf(t))
    BY <2>2, <2>3, <2>4 DEF Board!Drop, CallOf, pending, count
  <2> QED BY <2>2, <2>5 DEF Board!BoardNext, pending
<1>5. CASE Accumulate(t) /\ pc[t] # "system"
  <2>1. InCall' = InCall
    BY <1>5 DEF Accumulate, InCall, RecordPcs
  <2>2. pending' = pending
    BY <1>5, <2>1, CallStays DEF Accumulate
  <2>3. Linked' = Linked /\ count' = count
    <3>1. arg[t] \in Names /\ pc[t] \in Clocks \ {"system"}
          /\ samples' = [samples EXCEPT ![arg[t]][pc[t]] = @ + 1]
      BY <1>5 DEF Accumulate, Clocks
    <3> QED BY <1>5, <3>1 DEF Accumulate, Linked, count, Clocks
  <2> QED BY <2>2, <2>3 DEF Board!boardVars, pending, count
<1>6. CASE \/ Search(t) \/ InsertCheck(t) \/ TryUpgrade(t) \/ NewElement(t)
           \/ NewElementThrows(t) \/ Insert(t) \/ InsertUnlock(t) \/ NotifyAll(t)
           \/ CvWait(t) \/ Relock(t) \/ SpuriousWakeup(t)
           \/ (SearchUnlock(t) /\ found[t]) \/ GuardLock(t) \/ GuardUnlock(t)
  <2>1. InCall' = InCall
    BY <1>6
       DEF Search, InsertCheck, TryUpgrade, NewElement, NewElementThrows, Insert,
           InsertUnlock, NotifyAll, CvWait, Relock, SpuriousWakeup, SearchUnlock,
           GuardLock, GuardUnlock, InCall, RecordPcs
  <2>2. UNCHANGED <<timers, samples, arg, before>>
    BY <1>6
       DEF Search, InsertCheck, TryUpgrade, NewElement, NewElementThrows, Insert,
           InsertUnlock, NotifyAll, CvWait, Relock, SpuriousWakeup, SearchUnlock,
           GuardLock, GuardUnlock
  <2>3. pending' = pending
    BY <2>1, <2>2, CallStays
  <2> QED BY <2>2, <2>3 DEF Board!boardVars, pending, Linked
<1> QED BY <1>1, <1>2, <1>3, <1>4, <1>5, <1>6 DEF RecordStep

LEMMA PrintRefines ==
  ASSUME IInv, NEW t \in Threads, PrintStep(t)
  PROVE  UNCHANGED Board!boardVars
<1> pc \in [Threads -> {"idle"} \cup RecordPcs \cup PrintPcs] /\ t \notin InCall
  BY DEF IInv, TypeOK, PrintStep, PrintAll, Begin, Visit, Extract, RowsDone, Advance,
         PrintReturn, Goto, InCall, RecordPcs
<1>1. UNCHANGED <<timers, samples, arg>>
  BY DEF PrintStep, PrintAll, Begin, Visit, Extract, RowsDone, Advance, PrintReturn,
         registryVars, recordVars
<1>2. /\ InCall' = InCall
      /\ \A u \in InCall : before'[u] = before[u]
  BY DEF IInv, TypeOK, PrintStep, PrintAll, Begin, Visit, Extract, RowsDone, Advance,
         PrintReturn, Goto, InCall, RecordPcs, callVars
<1>3. pending' = pending
  BY <1>1, <1>2, CallStays
<1> QED BY <1>1, <1>3 DEF Board!boardVars, pending, Linked

(* The registry implements TimerBoard: every call either adds one sample   *)
(* to its name or, only if the name was not known when it began, none      *)
(* (timing.cpp:177-221).                                                   *)
THEOREM Refinement == Spec => ImplementsBoard
<1>1. Init => Board!BoardInit
  BY DEF Init, Board!BoardInit, Linked, InCall, RecordPcs, Clocks
<1>2. IInv /\ [Next]_vars => [Board!BoardNext]_(Board!boardVars)
  <2>1. ASSUME IInv, Next PROVE Board!BoardNext \/ UNCHANGED Board!boardVars
    BY <2>1, NextHalves, RecordRefines, PrintRefines
  <2>2. ASSUME UNCHANGED vars PROVE UNCHANGED Board!boardVars
    BY <2>2 DEF vars, registryVars, recordVars, callVars, Board!boardVars, Linked,
                InCall, CallOf
  <2> QED BY <2>1, <2>2
<1> QED BY <1>1, <1>2, Inductive, PTL DEF Spec, ImplementsBoard, Board!BoardSpec

-----------------------------------------------------------------------------
(* The spinlock, which the registry takes in one step (GuardLock).         *)

(* The flag is set exactly while somebody owns the lock, and nobody else   *)
(* does.                                                                   *)
SpinOwned ==
  /\ guard_ <=> \E t \in Threads : place[t] = "held"
  /\ MutualExclusion

SpinInv == LockTypeOK /\ SpinOwned /\ NoStrandedWaiter

LEMMA SpinInit == LockInit => SpinInv
BY DEF LockInit, SpinInv, LockTypeOK, PcsOf, SpinOwned,
       MutualExclusion, NoStrandedWaiter

(* The states of a thread in each build, without CASE.                     *)
LEMMA SpinPcs ==
  ASSUME LockTypeOK, NEW t \in Threads
  PROVE  /\ build \in {"wait", "test", "spin"}
         /\ place[t] \in {"out", "try", "held", "wait", "blocked", "notify", "test"}
         /\ place[t] \in {"wait", "blocked", "notify"} => build = "wait"
         /\ place[t] = "test" => build = "test"
<1>1. build \in {"wait", "test", "spin"}
  BY DEF LockTypeOK, Builds
<1> QED BY <1>1 DEF LockTypeOK, PcsOf

LEMMA SpinGotoTyped ==
  ASSUME LockTypeOK, NEW t \in Threads, NEW p \in PcsOf(build), build' = build,
         place' = [place EXCEPT ![t] = p], guard_' \in BOOLEAN
  PROVE  LockTypeOK'
BY DEF LockTypeOK

LEMMA SpinNext == ASSUME SpinInv, LockNext PROVE SpinInv'
<1> LockTypeOK /\ SpinOwned /\ NoStrandedWaiter
  BY DEF SpinInv
<1> place \in [Threads -> PcsOf(build)] /\ guard_ \in BOOLEAN
  BY DEF LockTypeOK
<1>a. build \in {"wait", "test", "spin"}
  BY DEF LockTypeOK, Builds
<1> USE DEF SpinInv, SpinOwned, MutualExclusion, NoStrandedWaiter,
            MoveTo
<1>1. ASSUME NEW t \in Threads, Lock(t) PROVE SpinInv'
  <2>1. LockTypeOK'
    BY <1>1, SpinGotoTyped DEF Lock, PcsOf
  <2> QED BY <1>1, <2>1 DEF Lock
<1>2. ASSUME NEW t \in Threads, TryLock(t) PROVE SpinInv'
  <2>1. LockTypeOK'
    BY <1>2, SpinGotoTyped DEF TryLock, PcsOf
  <2> QED BY <1>2, <2>1 DEF TryLock
<1>3. ASSUME NEW t \in Threads, WakeUp(t) PROVE SpinInv'
  <2>1. build = "wait"
    BY <1>3, SpinPcs DEF WakeUp
  <2>2. LockTypeOK'
    BY <1>3, <2>1, SpinGotoTyped DEF WakeUp, PcsOf
  <2> QED BY <1>3, <2>2 DEF WakeUp
<1>4. ASSUME NEW t \in Threads, TestAndSet(t) PROVE SpinInv'
  <2>1. LockTypeOK'
    BY <1>4, <1>a, SpinGotoTyped DEF TestAndSet, PcsOf
  <2> QED BY <1>4, <1>a, <2>1 DEF TestAndSet
<1>5. ASSUME NEW t \in Threads, Wait(t) PROVE SpinInv'
  <2>1. build = "wait"
    BY <1>5, SpinPcs DEF Wait
  <2>2. LockTypeOK'
    BY <1>5, <2>1, SpinGotoTyped DEF Wait, PcsOf
  <2> QED BY <1>5, <2>2 DEF Wait
<1>6. ASSUME NEW t \in Threads, Test(t) PROVE SpinInv'
  <2>1. LockTypeOK'
    BY <1>6, SpinGotoTyped DEF Test, PcsOf
  <2> QED BY <1>6, <2>1 DEF Test
<1>7. ASSUME NEW t \in Threads, Unlock(t) PROVE SpinInv'
  <2>1. LockTypeOK'
    BY <1>7, <1>a, SpinGotoTyped DEF Unlock, PcsOf
  <2>2. CASE build = "wait"
    BY <1>7, <2>1, <2>2 DEF Unlock
  <2>3. CASE build # "wait"
    <3>1. \A u \in Threads : place[u] # "blocked"
      BY <2>3, SpinPcs
    <3> QED BY <1>7, <2>1, <2>3, <3>1 DEF Unlock
  <2> QED BY <2>2, <2>3
<1>8. ASSUME NEW t \in Threads, NotifyOne(t) PROVE SpinInv'
  <2>1. build = "wait"
    BY <1>8, SpinPcs DEF NotifyOne
  <2>2. CASE /\ \A u \in Threads : place[u] # "blocked"
             /\ place' = [place EXCEPT ![t] = "out"]
    <3>1. LockTypeOK'
      BY <1>8, <2>1, <2>2, SpinGotoTyped DEF NotifyOne, PcsOf
    <3> QED BY <1>8, <2>2, <3>1 DEF NotifyOne
  <2>3. ASSUME NEW u \in Threads, place[u] = "blocked",
               place' = [place EXCEPT ![t] = "out", ![u] = "wait"]
        PROVE  SpinInv'
    <3>1. LockTypeOK'
      BY <1>8, <2>1, <2>3 DEF NotifyOne, PcsOf, LockTypeOK
    <3> QED BY <1>8, <2>3, <3>1 DEF NotifyOne
  <2> QED BY <1>8, <2>2, <2>3 DEF NotifyOne
<1> QED BY <1>1, <1>2, <1>3, <1>4, <1>5, <1>6, <1>7, <1>8 DEF LockNext, LockStep

(* The strengthened invariant holds throughout (spinlock.hpp:21-44); the   *)
(* safety properties of the spinlock follow from it.                       *)
THEOREM SpinInductive == LockSpec => []SpinInv
<1>1. ASSUME SpinInv, UNCHANGED lockVars PROVE SpinInv'
  BY <1>1 DEF SpinInv, LockTypeOK, SpinOwned, MutualExclusion,
              NoStrandedWaiter, lockVars
<1>2. SpinInv /\ [LockNext]_lockVars => SpinInv'
  BY <1>1, SpinNext
<1> QED BY SpinInit, <1>2, PTL DEF LockSpec

(* The flag is a boolean and every thread is at a place its build has.     *)
THEOREM SpinTypeCorrect == LockSpec => []LockTypeOK
<1>1. SpinInv => LockTypeOK
  BY DEF SpinInv
<1> QED BY <1>1, SpinInductive, PTL

(* At most one thread is between lock() and unlock(), in every build       *)
(* (spinlock.hpp:21-44).                                                   *)
THEOREM SpinExclusive == LockSpec => []MutualExclusion
<1>1. SpinInv => MutualExclusion
  BY DEF SpinInv, SpinOwned
<1> QED BY <1>1, SpinInductive, PTL

(* No thread sleeps in guard_.wait while the flag is clear and nobody is   *)
(* about to take it or to notify (spinlock.hpp:26-39).                     *)
THEOREM SpinNobodyStranded == LockSpec => []NoStrandedWaiter
<1>1. SpinInv => NoStrandedWaiter
  BY DEF SpinInv
<1> QED BY <1>1, SpinInductive, PTL

-----------------------------------------------------------------------------
(* Refinement.  The owner of the abstract mutex is the thread at "held".   *)

LEMMA SpinOwnerValue ==
  ASSUME MutualExclusion
  PROVE  /\ \A t \in Threads : place[t] = "held" => owner = t
         /\ (\A t \in Threads : place[t] # "held") => owner = NoThread
         /\ \A t \in Threads : owner = t => place[t] = "held"
<1>1. CASE \E t \in Threads : place[t] = "held"
  <2>1. owner \in Threads /\ place[owner] = "held"
    BY <1>1 DEF owner
  <2> QED BY <2>1, <1>1 DEF MutualExclusion
<1>2. CASE \A t \in Threads : place[t] # "held"
  BY <1>2, NoThreadAssumption DEF owner
<1> QED BY <1>1, <1>2

LEMMA SpinStepRefines ==
  ASSUME SpinInv, SpinInv', LockNext
  PROVE  Lockable!MutexNext \/ UNCHANGED Lockable!mutexVars
<1> DEFINE waiting == {t \in Threads : place[t] \in LockPcs}
<1>0. /\ LockTypeOK /\ SpinOwned /\ MutualExclusion /\ MutualExclusion'
      /\ place \in [Threads -> PcsOf(build)]
  BY DEF SpinInv, LockTypeOK, SpinOwned
<1>a. /\ \A t \in Threads : place[t] = "held" => owner = t
      /\ (\A t \in Threads : place[t] # "held") => owner = NoThread
      /\ \A t \in Threads : owner = t => place[t] = "held"
  BY <1>0, SpinOwnerValue
<1>b. /\ \A t \in Threads : place'[t] = "held" => owner' = t
      /\ (\A t \in Threads : place'[t] # "held") => owner' = NoThread
  <2>1. ASSUME MutualExclusion'
        PROVE  /\ \A t \in Threads : place'[t] = "held" => owner' = t
               /\ (\A t \in Threads : place'[t] # "held") => owner' = NoThread
    <3>1. CASE \E t \in Threads : place'[t] = "held"
      <4>1. owner' \in Threads /\ place'[owner'] = "held"
        BY <3>1 DEF owner
      <4> QED BY <4>1, <2>1, <3>1 DEF MutualExclusion
    <3>2. CASE \A t \in Threads : place'[t] # "held"
      BY <3>2 DEF owner
    <3> QED BY <3>1, <3>2
  <2> QED BY <1>0, <2>1
<1>c. guard_ <=> \E t \in Threads : place[t] = "held"
  BY <1>0 DEF SpinOwned
<1> USE <1>0 DEF MoveTo
<1>1. ASSUME NEW t \in Threads, Lock(t) PROVE Lockable!MutexNext
  <2>1. owner # t /\ owner' = owner
    BY <1>1, <1>a, <1>b DEF Lock
  <2>2. waiting' = waiting \cup {t}
    BY <1>1 DEF Lock, LockPcs
  <2> QED BY <2>1, <2>2 DEF Lockable!MutexNext, Lockable!Request
<1>2. ASSUME NEW t \in Threads, TryLock(t)
      PROVE  Lockable!MutexNext \/ UNCHANGED Lockable!mutexVars
  <2>1. waiting' = waiting /\ t \notin waiting
    BY <1>2 DEF TryLock, LockPcs
  <2>2. CASE guard_
    <3>1. owner' = owner
      BY <1>2, <2>2, <1>a, <1>b, <1>c DEF TryLock
    <3> QED BY <2>1, <3>1 DEF Lockable!mutexVars
  <2>3. CASE ~ guard_
    <3>1. owner = NoThread /\ owner' = t
      BY <1>2, <2>3, <1>a, <1>b, <1>c DEF TryLock
    <3> QED BY <2>1, <3>1 DEF Lockable!MutexNext, Lockable!TryAcquire
  <2> QED BY <2>2, <2>3
<1>3. ASSUME NEW t \in Threads, TestAndSet(t)
      PROVE  Lockable!MutexNext \/ UNCHANGED Lockable!mutexVars
  <2>0. build \in {"wait", "test", "spin"}
    BY DEF LockTypeOK, Builds
  <2>1. CASE guard_
    <3>1. owner' = owner /\ waiting' = waiting
      BY <1>3, <2>0, <2>1, <1>a, <1>b, <1>c DEF TestAndSet, LockPcs
    <3> QED BY <3>1 DEF Lockable!mutexVars
  <2>2. CASE ~ guard_
    <3>1. owner = NoThread /\ owner' = t
      BY <1>3, <2>2, <1>a, <1>b, <1>c DEF TestAndSet
    <3>2. t \in waiting /\ waiting' = waiting \ {t}
      BY <1>3, <2>2 DEF TestAndSet, LockPcs
    <3> QED BY <3>1, <3>2 DEF Lockable!MutexNext, Lockable!Acquire
  <2> QED BY <2>1, <2>2
<1>4. ASSUME NEW t \in Threads, Wait(t) \/ Test(t) \/ WakeUp(t)
      PROVE  UNCHANGED Lockable!mutexVars
  <2>1. owner' = owner /\ waiting' = waiting
    BY <1>4, <1>a, <1>b DEF Wait, Test, WakeUp, LockPcs
  <2> QED BY <2>1 DEF Lockable!mutexVars
<1>5. ASSUME NEW t \in Threads, Unlock(t) PROVE Lockable!MutexNext
  <2>1. owner = t /\ owner' = NoThread
    <3>1. \A u \in Threads : place'[u] # "held"
      BY <1>5 DEF Unlock, MutualExclusion
    <3> QED BY <1>5, <3>1, <1>a, <1>b DEF Unlock
  <2>2. waiting' = waiting
    BY <1>5 DEF Unlock, LockPcs
  <2> QED BY <2>1, <2>2 DEF Lockable!MutexNext, Lockable!Release
<1>6. ASSUME NEW t \in Threads, NotifyOne(t)
      PROVE  UNCHANGED Lockable!mutexVars
  <2>1. owner' = owner /\ waiting' = waiting
    BY <1>6, <1>a, <1>b DEF NotifyOne, LockPcs
  <2> QED BY <2>1 DEF Lockable!mutexVars
<1> QED BY <1>1, <1>2, <1>3, <1>4, <1>5, <1>6 DEF LockNext, LockStep

(* Every build of the spinlock is a mutex (spinlock.hpp:21-44).            *)
THEOREM SpinRefinement == LockSpec => ImplementsMutex
<1>1. LockInit => Lockable!MutexInit
  BY DEF LockInit, Lockable!MutexInit, LockPcs, owner
<1>2. SpinInv /\ SpinInv' /\ [LockNext]_lockVars
        => [Lockable!MutexNext]_(Lockable!mutexVars)
  <2>1. ASSUME UNCHANGED lockVars PROVE UNCHANGED Lockable!mutexVars
    BY <2>1 DEF lockVars, Lockable!mutexVars, owner
  <2> QED BY <2>1, SpinStepRefines
<1> QED
  BY <1>1, <1>2, SpinInductive, PTL
     DEF LockSpec, ImplementsMutex, Lockable!MutexSpec

=============================================================================

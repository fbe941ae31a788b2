------------------------------ MODULE StringRef ------------------------------
(***************************************************************************)
(* ing::string_base (src/src/string.cpp, src/include/ing/string.hpp): a    *)
(* string object is one pointer into a shared buffer, and every special    *)
(* member is a few plain pointer moves around one atomic operation on the  *)
(* count.  Threads work on their objects concurrently under the rules for  *)
(* every C++ type: an object that is written is used by one thread only;   *)
(* the buffers behind the objects are shared without any rule.  The atomic *)
(* operations are sequentially consistent here, although the code asks for *)
(* memory_order_relaxed only.                                              *)
(***************************************************************************)
EXTENDS SharedBuffers, FiniteSets

CONSTANTS Threads, (* a thread is also the name of its temporary object    *)
          Handles, (* string objects                                       *)
          Dead,    (* the object does not exist                            *)
          NoHandle (* no object to assign to                               *)

ASSUME StringAssumption ==
  /\ IsFiniteSet(Threads) /\ IsFiniteSet(Handles)
  /\ Threads \cap Handles = {}
  /\ Dead \notin AllBuffers
  /\ NoHandle \notin Threads \cup Handles

(* As many strings as an int can count, all of them empty and nullstr's    *)
(* own reference on top.                                                   *)
ASSUME CountsFit == Cardinality(Handles \cup Threads) + 1 <= IntMax

VARIABLES
  str,    (* the pointer of each object                                    *)
  pc,     (* the next step of the operation of each thread                 *)
  count,  (* the object whose buffer gets another reference                *)
  target, (* operator=: the object assigned to                             *)
  writes, (* the objects that the operation of each thread writes          *)
  reads   (* the objects that it reads                                     *)

vars == <<bufferVars, str, pc, count, target, writes, reads>>

Objects == Handles \cup Threads

TypeOK ==
  /\ BufferTypeOK /\ \A b \in AllBuffers : refcount[b] >= 0
  /\ str \in [Objects -> AllBuffers \cup {Dead}]
  /\ pc \in [Threads -> {"idle", "addref", "swap", "release"}]
  /\ count \in [Threads -> Objects]
  /\ target \in [Threads -> Handles \cup {NoHandle}]
  /\ writes \in [Threads -> SUBSET Handles]
  /\ reads \in [Threads -> SUBSET Handles]

Init ==
  /\ BufferInit
  /\ str = [o \in Objects |-> Dead]
  /\ pc = [t \in Threads |-> "idle"]
  /\ count = [t \in Threads |-> t]
  /\ target = [t \in Threads |-> NoHandle]
  /\ writes = [t \in Threads |-> {}]
  /\ reads = [t \in Threads |-> {}]

Exists(h) == str[h] # Dead

(* Thread t may start an operation that writes W and reads R.              *)
MayUse(t, W, R) ==
  /\ pc[t] = "idle"
  /\ \A u \in Threads : /\ writes[u] \cap (W \cup R) = {}
                        /\ reads[u] \cap W = {}

(* ... whose next step is p, on the buffer of o, and which assigns to h.   *)
Begin(t, p, o, h, W, R) ==
  /\ MayUse(t, W, R)
  /\ pc' = [pc EXCEPT ![t] = p]
  /\ count' = [count EXCEPT ![t] = o]
  /\ target' = [target EXCEPT ![t] = h]
  /\ writes' = [writes EXCEPT ![t] = W]
  /\ reads' = [reads EXCEPT ![t] = R]

(* An operation of one step.                                               *)
AtOnce(t, W, R) ==
  /\ MayUse(t, W, R)
  /\ UNCHANGED <<pc, count, target, writes, reads>>

(* The operation of t is over.                                             *)
Finish(t) ==
  /\ pc' = [pc EXCEPT ![t] = "idle"]
  /\ writes' = [writes EXCEPT ![t] = {}]
  /\ reads' = [reads EXCEPT ![t] = {}]
  /\ UNCHANGED <<count, target>>

-----------------------------------------------------------------------------
(* Variants with a plausible bug, to show that the properties notice.      *)

(* The copy does not count.                                                *)
Copy_Uncounted(t, h, s) ==
  /\ ~ Exists(h) /\ Exists(s)
  /\ AtOnce(t, {h}, {s})
  /\ str' = [str EXCEPT ![h] = str[s]]
  /\ UNCHANGED bufferVars

(* The object moved from is empty, but nullstr does not count it.          *)
Move_Uncounted(t, h, s) ==
  /\ ~ Exists(h) /\ Exists(s)
  /\ AtOnce(t, {h, s}, {})
  /\ str' = [str EXCEPT ![h] = str[s], ![s] = nullstr]
  /\ UNCHANGED bufferVars

(* operator= takes the pointer over without a temporary to destroy.        *)
SwapIn_Overwrites(t) ==
  /\ pc[t] = "swap"
  /\ str' = [str EXCEPT ![target[t]] = str[t], ![t] = Dead]
  /\ Finish(t)
  /\ UNCHANGED bufferVars

-----------------------------------------------------------------------------
(* string_base(): nullstr, which gets another reference.                   *)
Default(t, h) ==
  /\ ~ Exists(h)
  /\ Begin(t, "addref", h, NoHandle, {h}, {})
  /\ str' = [str EXCEPT ![h] = nullstr]
  /\ UNCHANGED bufferVars

(* string_base(buf, count, size) of something: malloc, or bad_alloc and no *)
(* object.  Of nothing it is Default.                                      *)
New(t, h, c) ==
  /\ ~ Exists(h)
  /\ c # Empty
  /\ AtOnce(t, {h}, {})
  /\ \E b \in Buffers : Alloc(b, c) /\ str' = [str EXCEPT ![h] = b]

(* string_base(const string_base&): share, then count.                     *)
Copy(t, h, s) ==
  /\ ~ Exists(h) /\ Exists(s)
  /\ Begin(t, "addref", h, NoHandle, {h}, {s})
  /\ str' = [str EXCEPT ![h] = str[s]]
  /\ UNCHANGED bufferVars

(* string_base(string_base&&): the other object is left empty.             *)
Move(t, h, s) ==
  /\ ~ Exists(h) /\ Exists(s)
  /\ Begin(t, "addref", s, NoHandle, {h, s}, {})
  /\ str' = [str EXCEPT ![h] = str[s], ![s] = nullstr]
  /\ UNCHANGED bufferVars

(* operator=(const string_base&): copy to a temporary, swap, destroy it;   *)
(* nothing for an assignment to itself.                                    *)
CopyAssign(t, h, s) ==
  /\ h # s /\ Exists(h) /\ Exists(s)
  /\ Begin(t, "addref", t, h, {h}, {s})
  /\ str' = [str EXCEPT ![t] = str[s]]
  /\ UNCHANGED bufferVars

(* operator=(string_base&&): the same with a move.                         *)
MoveAssign(t, h, s) ==
  /\ h # s /\ Exists(h) /\ Exists(s)
  /\ Begin(t, "addref", s, h, {h, s}, {})
  /\ str' = [str EXCEPT ![t] = str[s], ![s] = nullstr]
  /\ UNCHANGED bufferVars

Swap(t, h, s) ==
  /\ h # s /\ Exists(h) /\ Exists(s)
  /\ AtOnce(t, {h, s}, {})
  /\ str' = [str EXCEPT ![h] = str[s], ![s] = str[h]]
  /\ UNCHANGED bufferVars

(* ~string_base() of an object of the user.                                *)
Destroy(t, h) ==
  /\ Exists(h)
  /\ AtOnce(t, {h}, {})
  /\ DropRef(str[h])
  /\ str' = [str EXCEPT ![h] = Dead]

(* refcount.fetch_add of the constructors.                                 *)
CountUp(t) ==
  /\ pc[t] = "addref"
  /\ AddRef(str[count[t]])
  /\ IF target[t] = NoHandle THEN Finish(t)
     ELSE /\ pc' = [pc EXCEPT ![t] = "swap"]
          /\ UNCHANGED <<count, target, writes, reads>>
  /\ UNCHANGED str

(* swap of the temporary with this object in operator=.                    *)
SwapIn(t) ==
  /\ pc[t] = "swap"
  /\ pc' = [pc EXCEPT ![t] = "release"]
  /\ str' = [str EXCEPT ![t] = str[target[t]], ![target[t]] = str[t]]
  /\ UNCHANGED <<bufferVars, count, target, writes, reads>>

(* ~string_base() of the temporary.                                        *)
Release(t) ==
  /\ pc[t] = "release"
  /\ DropRef(str[t])
  /\ str' = [str EXCEPT ![t] = Dead]
  /\ Finish(t)

Next ==
  \E t \in Threads :
    \/ \E h \in Handles :
         \/ Default(t, h) \/ Destroy(t, h)
         \/ \E c \in Contents : New(t, h, c)
         \/ \E s \in Handles : \/ Copy(t, h, s) \/ Move(t, h, s)
                               \/ CopyAssign(t, h, s) \/ MoveAssign(t, h, s)
                               \/ Swap(t, h, s)
    \/ CountUp(t) \/ SwapIn(t) \/ Release(t)

Spec == Init /\ [][Next]_vars

-----------------------------------------------------------------------------
Pointing(b) == {o \in Objects : str[o] = b}
Counting(b) == {t \in Threads : pc[t] = "addref" /\ str[count[t]] = b}

(* The count of a buffer is the number of objects that share it, less    *)
(* those whose constructor has not counted yet (string.cpp:25-75).         *)
CountsAreExact ==
  \A b \in AllBuffers :
    refcount[b] + Cardinality(Counting(b)) =
      Cardinality(Pointing(b)) + (IF b = nullstr THEN 1 ELSE 0)

(* No object points into freed memory, however the constructors,           *)
(* assignments and destructors of threads interleave on one buffer, and   *)
(* no buffer outlives its last object (string.cpp:25-75).                  *)
AllocatedWhileShared ==
  \A b \in Buffers : content[b] # Freed <=> Pointing(b) # {}

Value == INSTANCE StringValues
  WITH Objects <- Objects, Values <- Contents, EmptyValue <- Empty,
       Unborn <- Freed,
       value <- [o \in Objects |-> IF Exists(o) THEN content[str[o]] ELSE Freed]

(* Strings are values: sharing, freeing and reusing the buffers is not     *)
(* visible to the owner of another string (string.hpp:8-41).               *)
ImplementsValues == Value!ValueSpec

=============================================================================

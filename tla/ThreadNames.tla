---------------------------- MODULE ThreadNames ----------------------------
(***************************************************************************)
(* The names of threads (src/src/threading.cpp): a map from thread ids to  *)
(* strings behind a spinlock, an iterator into it that every thread keeps  *)
(* in thread-local storage, and the name that the platform keeps.  A call  *)
(* that names a thread by its id takes the lock; a call about the calling  *)
(* thread goes through the iterator without it.  Strings are pointers into *)
(* counted buffers: a copy reads the pointer and then counts, a swap reads *)
(* and then writes.  A thread is identified with its id, which the next    *)
(* thread may be given when it has ended.  Nothing keeps two threads from  *)
(* one string if one of them goes without the lock, and an insertion that  *)
(* rehashes the map may invalidate the iterators of the others: what such  *)
(* a step does C++ leaves undefined, and `undefined' notes that there was  *)
(* one.                                                                    *)
(***************************************************************************)
EXTENDS SharedBuffers, FiniteSets

CONSTANTS
  Threads,    (* the ids of the threads                                    *)
  Names,      (* names given by users                                      *)
  DefName,    (* the name of a thread without one: its id in hexadecimal   *)
  Cut,        (* what the platform keeps of a name: its first 15 bytes     *)
  Inherited,  (* names the platform may give a new thread                  *)
  Platforms,  (* the platforms to consider: TRUE if a thread can only be   *)
              (* named by itself there (__APPLE__)                         *)
  MaxLives,   (* bound: threads started under each id                      *)
  NoThread, NoEntry

ASSUME NamesAssumption ==
  /\ Names \cup {DefName} \subseteq Contents /\ Inherited \subseteq Contents
  /\ Cut \in [Contents -> Contents]
  /\ Platforms \subseteq BOOLEAN
  /\ MaxLives \in Nat
  /\ NoThread \notin Threads
  /\ NoEntry \notin AllBuffers

(* The strings there may be at a time, as many as an int can count: the    *)
(* entry of each id, the parameter of each call, and its node or result.   *)
Strings == {"entry", "param", "node"} \X Threads

ASSUME CountsFit ==
  IsFiniteSet(Threads) /\ Cardinality(Strings) + 1 <= IntMax

VARIABLES
  selfOnly, (* the platform                                                *)
  lives,    (* threads started under each id so far                        *)
  running,  (* the threads that run                                        *)
  ready,    (* the threads whose `current' is constructed                  *)
  entries,  (* name_map: the string of each id                             *)
  invalid,  (* the threads whose iterator a rehash has invalidated         *)
  guard,    (* the owner of name_map_guard                                 *)
  platform, (* the name of each thread on the platform                     *)
  op, pc,   (* the call in progress and its next step                      *)
  about,    (* the id that it is about                                     *)
  param,    (* its parameter `name'                                        *)
  ptr,      (* the string of its new node, or the pointer it has read      *)
  renamed,  (* history: the threads about to publish a name that another   *)
            (* one has replaced                                            *)
  undefined (* history: a step was taken without a defined meaning         *)

callVars == <<op, pc, about, param, ptr>>
threadVars == <<selfOnly, lives, running, ready>>
mapVars == <<entries, invalid, guard>>
history == <<renamed, undefined>>
vars == <<bufferVars, threadVars, mapVars, platform, callVars, history>>

OwnOps == {"setOwn", "getOwn", "sync", "exit"}
Ops == OwnOps \cup {"none", "setId", "getId"}
Pcs == {"idle", "construct", "insert", "read", "lookup", "write", "add",
        "return", "drop"}

TypeOK ==
  /\ BufferTypeOK
  /\ selfOnly \in Platforms
  /\ lives \in [Threads -> 0 .. MaxLives]
  /\ running \subseteq Threads /\ ready \subseteq running
  /\ entries \in [Threads -> AllBuffers \cup {NoEntry}]
  /\ invalid \subseteq ready
  /\ guard \in Threads \cup {NoThread}
  /\ platform \in [Threads -> Contents]
  /\ op \in [Threads -> Ops] /\ pc \in [Threads -> Pcs]
  /\ about \in [Threads -> Threads]
  /\ param \in [Threads -> AllBuffers \cup {NoEntry}]
  /\ ptr \in [Threads -> AllBuffers \cup {NoEntry}]

HistoryTypeOK == renamed \subseteq Threads /\ undefined \in BOOLEAN

Init ==
  /\ BufferInit
  /\ selfOnly \in Platforms
  /\ lives = [t \in Threads |-> 0] /\ running = {} /\ ready = {}
  /\ entries = [t \in Threads |-> NoEntry]
  /\ invalid = {} /\ guard = NoThread
  /\ platform = [t \in Threads |-> Empty]
  /\ op = [t \in Threads |-> "none"] /\ pc = [t \in Threads |-> "idle"]
  /\ about = [t \in Threads |-> t]
  /\ param = [t \in Threads |-> NoEntry] /\ ptr = [t \in Threads |-> NoEntry]
  /\ renamed = {} /\ undefined = FALSE

(* What get_thread_name(i) would return.                                   *)
NameOf(i) == IF entries[i] = NoEntry THEN DefName ELSE content[entries[i]]

At(t, p) == pc[t] = p
Goto(t, p) == pc' = [pc EXCEPT ![t] = p]

(* Two threads are in one string, one of them between the halves of a swap *)
(* and at least one of them without the lock.                              *)
Overlap ==
  \E t, u \in Threads :
    /\ t # u /\ about[t] = about[u]
    /\ op[t] \in OwnOps \/ op[u] \in OwnOps
    /\ pc[t] = "write" /\ pc[u] \in {"write", "add"}

(* A thread is about to use an iterator that is not valid any more.        *)
UsesInvalid ==
  \E t \in invalid : pc[t] = "read" \/ (op[t] = "exit" /\ pc[t] = "lookup")

Undefined == Overlap \/ UsesInvalid

(* An insertion of a new element: if it rehashes, the iterators made before*)
(* are invalid ([unord.req]), unless the library keeps elements in nodes   *)
(* and iterators point to these, as libstdc++ does outside of debug mode.  *)
Inserted == invalid' = invalid \/ invalid' = ready

(* Thread t calls o about i, whose first step is p.                        *)
Call(t, o, i, p) ==
  /\ t \in running /\ op[t] = "none"
  /\ op' = [op EXCEPT ![t] = o]
  /\ about' = [about EXCEPT ![t] = i]
  /\ Goto(t, p)

(* The first use of `current' constructs it.                               *)
FirstStep(t) == IF t \in ready THEN "read" ELSE "construct"

Finish(t) ==
  /\ op' = [op EXCEPT ![t] = "none"]
  /\ Goto(t, "idle")
  /\ param' = [param EXCEPT ![t] = NoEntry]
  /\ ptr' = [ptr EXCEPT ![t] = NoEntry]
  /\ about' = [about EXCEPT ![t] = t]

(* set_platform(i, n) by t.                                                *)
SetPlatform(t, i, n) ==
  platform' = IF i \in running /\ (selfOnly => i = t)
              THEN [platform EXCEPT ![i] = Cut[n]] ELSE platform

-----------------------------------------------------------------------------
(* Variants with a plausible bug, to show that the properties notice.      *)

(* get(id) releases the lock before the copy has counted.                  *)
Find_Unlocked(t) ==
  /\ At(t, "lookup") /\ op[t] = "getId" /\ guard = NoThread
  /\ IF entries[about[t]] = NoEntry THEN Finish(t)
     ELSE /\ ptr' = [ptr EXCEPT ![t] = entries[about[t]]]
          /\ Goto(t, "add")
          /\ UNCHANGED <<op, about, param>>
  /\ UNCHANGED <<bufferVars, threadVars, mapVars, platform>>

(* The destructor drops the string and leaves the entry to the next user.  *)
Extract_Keeps(t) ==
  /\ At(t, "lookup") /\ op[t] = "exit" /\ guard = NoThread
  /\ running' = running \ {t} /\ ready' = ready \ {t}
  /\ param' = [param EXCEPT ![t] = entries[t]]
  /\ Goto(t, "drop")
  /\ UNCHANGED <<bufferVars, selfOnly, lives, mapVars, platform, op, about,
                 ptr>>

(* An insertion of the new node over an entry that set(id) has made.       *)
Insert_Replaces(t) ==
  /\ At(t, "insert") /\ guard = NoThread
  /\ ready' = ready \cup {t}
  /\ entries' = [entries EXCEPT ![t] = ptr[t]]
  /\ Goto(t, "read")
  /\ UNCHANGED <<bufferVars, selfOnly, lives, running, invalid, guard,
                 platform, op, about, param, ptr>>

(* sync_thread_name() publishes the name only if there is none yet.        *)
Return_Lazy(t) ==
  /\ At(t, "return")
  /\ IF op[t] = "sync" /\ platform[t] = Empty
     THEN SetPlatform(t, t, content[ptr[t]]) ELSE UNCHANGED platform
  /\ DropRef(ptr[t])
  /\ Finish(t)
  /\ UNCHANGED <<threadVars, mapVars>>

-----------------------------------------------------------------------------
(* A thread starts under a free id, with a name given by the platform.     *)
Start(t) ==
  /\ t \notin running /\ op[t] = "none" /\ lives[t] < MaxLives
  /\ lives' = [lives EXCEPT ![t] = @ + 1]
  /\ running' = running \cup {t}
  /\ \E n \in Inherited : platform' = [platform EXCEPT ![t] = n]
  /\ UNCHANGED <<bufferVars, selfOnly, ready, mapVars, callVars>>

(* set_thread_name(name): the platform first.                              *)
SetOwn(t, n) ==
  /\ Call(t, "setOwn", t, FirstStep(t))
  /\ \E b \in Buffers : Alloc(b, n) /\ param' = [param EXCEPT ![t] = b]
  /\ SetPlatform(t, t, n)
  /\ UNCHANGED <<threadVars, mapVars, ptr>>

(* get_thread_name(), for the user or for sync_thread_name().              *)
GetOwn(t, o) ==
  /\ Call(t, o, t, FirstStep(t))
  /\ UNCHANGED <<bufferVars, threadVars, mapVars, platform, param,
                 ptr>>

SetId(t, i, n) ==
  /\ Call(t, "setId", i, "lookup")
  /\ \E b \in Buffers : Alloc(b, n) /\ param' = [param EXCEPT ![t] = b]
  /\ SetPlatform(t, i, n)
  /\ UNCHANGED <<threadVars, mapVars, ptr>>

GetId(t, i) ==
  /\ Call(t, "getId", i, "lookup")
  /\ UNCHANGED <<bufferVars, threadVars, mapVars, platform, param,
                 ptr>>

(* The end of a thread: there is nothing to destroy if it never used its   *)
(* `current'.                                                              *)
Exit(t) ==
  /\ t \in ready
  /\ Call(t, "exit", t, "lookup")
  /\ UNCHANGED <<bufferVars, threadVars, mapVars, platform, param,
                 ptr>>

ExitUnnamed(t) ==
  /\ t \in running \ ready /\ op[t] = "none"
  /\ running' = running \ {t}
  /\ UNCHANGED <<bufferVars, selfOnly, lives, ready, mapVars, platform,
                 callVars>>

(* thread_name(): a node with the name on the platform, or the default.    *)
Construct(t) ==
  /\ At(t, "construct")
  /\ \E b \in Buffers :
       /\ Alloc(b, IF platform[t] = Empty THEN DefName ELSE platform[t])
       /\ ptr' = [ptr EXCEPT ![t] = b]
  /\ Goto(t, "insert")
  /\ UNCHANGED <<threadVars, mapVars, platform, op, about, param>>

(* name_map.insert under the lock: an entry that is there stays, and the   *)
(* node is destroyed; `current' gets the position after the insertion.     *)
Insert(t) ==
  /\ At(t, "insert") /\ guard = NoThread
  /\ ready' = ready \cup {t}
  /\ IF entries[t] = NoEntry
     THEN /\ entries' = [entries EXCEPT ![t] = ptr[t]] /\ Inserted
          /\ UNCHANGED bufferVars
     ELSE DropRef(ptr[t]) /\ UNCHANGED <<entries, invalid>>
  /\ Goto(t, "read")
  /\ UNCHANGED <<selfOnly, lives, running, guard, platform, op, about, param,
                 ptr>>

(* current.entry->second, without the lock: the pointer.                   *)
Read(t) ==
  /\ At(t, "read")
  /\ ptr' = [ptr EXCEPT ![t] = entries[t]]
  /\ Goto(t, IF op[t] = "setOwn" THEN "write" ELSE "add")
  /\ UNCHANGED <<bufferVars, threadVars, mapVars, platform, op, about,
                 param>>

(* get(id): lock, find, read the pointer; or no entry, and def(id).        *)
Find(t) ==
  /\ At(t, "lookup") /\ op[t] = "getId" /\ guard = NoThread
  /\ IF entries[about[t]] = NoEntry THEN Finish(t) /\ UNCHANGED guard
     ELSE /\ guard' = t
          /\ ptr' = [ptr EXCEPT ![t] = entries[about[t]]]
          /\ Goto(t, "add")
          /\ UNCHANGED <<op, about, param>>
  /\ UNCHANGED <<bufferVars, threadVars, entries, invalid, platform>>

(* set(id): lock, and the entry that operator[] finds or makes.            *)
FindOrMake(t) ==
  /\ At(t, "lookup") /\ op[t] = "setId" /\ guard = NoThread
  /\ guard' = t
  /\ IF entries[about[t]] = NoEntry
     THEN /\ AddRef(nullstr) /\ Inserted
          /\ entries' = [entries EXCEPT ![about[t]] = nullstr]
     ELSE UNCHANGED <<bufferVars, entries, invalid>>
  /\ ptr' = [ptr EXCEPT ![t] = entries'[about[t]]]
  /\ Goto(t, "write")
  /\ UNCHANGED <<threadVars, platform, op, about, param>>

(* ~thread_name(): lock, extract, unlock; then the node is destroyed.      *)
Extract(t) ==
  /\ At(t, "lookup") /\ op[t] = "exit" /\ guard = NoThread
  /\ running' = running \ {t} /\ ready' = ready \ {t}
  /\ param' = [param EXCEPT ![t] = entries[t]]
  /\ entries' = [entries EXCEPT ![t] = NoEntry]
  /\ invalid' = invalid \ {t}
  /\ Goto(t, "drop")
  /\ UNCHANGED <<bufferVars, selfOnly, lives, guard, platform, op, about,
                 ptr>>

(* The second half of the swap; set(id) unlocks.                           *)
Swap(t) ==
  /\ At(t, "write")
  /\ entries' = [entries EXCEPT ![about[t]] = param[t]]
  /\ param' = [param EXCEPT ![t] = ptr[t]]
  /\ guard' = IF op[t] = "setId" THEN NoThread ELSE guard
  /\ Goto(t, "drop")
  /\ UNCHANGED <<bufferVars, threadVars, invalid, platform, op, about, ptr>>

(* The copy counts; get(id) unlocks.                                       *)
Add(t) ==
  /\ At(t, "add")
  /\ AddRef(ptr[t])
  /\ guard' = IF op[t] = "getId" THEN NoThread ELSE guard
  /\ Goto(t, "return")
  /\ UNCHANGED <<threadVars, entries, invalid, platform, op, about, param,
                 ptr>>

(* The result is used, by the user or for the platform, and destroyed.     *)
Return(t) ==
  /\ At(t, "return")
  /\ IF op[t] = "sync" THEN SetPlatform(t, t, content[ptr[t]])
     ELSE UNCHANGED platform
  /\ DropRef(ptr[t])
  /\ Finish(t)
  /\ UNCHANGED <<threadVars, mapVars>>

(* The parameter, or the node of the thread that has ended, is destroyed.  *)
Drop(t) ==
  /\ At(t, "drop")
  /\ DropRef(param[t])
  /\ Finish(t)
  /\ UNCHANGED <<threadVars, mapVars, platform>>

Step(t) ==
  \/ Construct(t) \/ Insert(t) \/ Read(t) \/ Find(t) \/ FindOrMake(t)
  \/ Extract(t) \/ Swap(t) \/ Add(t) \/ Return(t) \/ Drop(t)

StepOf(t) ==
  \/ Start(t) \/ Exit(t) \/ ExitUnnamed(t) \/ Step(t)
  \/ \E n \in Names : SetOwn(t, n)
  \/ \E o \in {"getOwn", "sync"} : GetOwn(t, o)
  \/ \E i \in Threads : GetId(t, i) \/ \E n \in Names : SetId(t, i, n)

(* The history of each step.                                               *)
Watch ==
  /\ undefined' = (undefined \/ Undefined')
  /\ renamed' = {t \in Threads : op'[t] = "sync" /\ pc'[t] = "return"
                    /\ (t \in renamed \/ entries'[t] # entries[t])}

Next == (\E t \in Threads : StepOf(t)) /\ Watch

Spec == Init /\ [][Next]_vars

-----------------------------------------------------------------------------
(* Half of the functions take no lock, and threads end, ids are used again *)
(* and names are set by id at any time; but as long as no two threads are  *)
(* in one string, one of them unlocked and one swapping, and none uses an  *)
(* iterator after a rehash that the library does not promise to survive,   *)
(* no string is destroyed while the map, a parameter or a result points to *)
(* it, and no entry while a thread keeps its iterator (threading.cpp:36,   *)
(* 47-77, 153-168).  test_threading.cpp:27, 41 goes beyond that.           *)
NoDanglingName ==
  ~ undefined =>
    /\ \A i \in Threads : entries[i] # NoEntry => content[entries[i]] # Freed
    /\ \A t \in Threads :
         /\ pc[t] \in {"write", "add", "return"} => content[ptr[t]] # Freed
         /\ param[t] # NoEntry => content[param[t]] # Freed
    /\ \A t \in ready : entries[t] # NoEntry

(* ... and none is forgotten: at rest, every buffer is that of an entry.   *)
NoLostBuffer ==
  ~ undefined /\ (\A t \in Threads : op[t] = "none") =>
    \A b \in Buffers : content[b] # Freed
                         <=> \E i \in Threads : entries[i] = b

(* The board of names behind the state: a string that set(id) has made for *)
(* its own swap is not a name yet, and a call has taken effect when it has *)
(* read or swapped.                                                        *)
ShownName(i) ==
  IF \E t \in Threads : pc[t] = "write" /\ about[t] = i /\ ptr[t] = nullstr
  THEN DefName ELSE NameOf(i)

ShownCall(t) ==
  [do |-> IF op[t] = "none" THEN "idle"
          ELSE IF pc[t] \in {"add", "return", "drop"} THEN "done"
          ELSE CASE op[t] \in {"setOwn", "setId"} -> "setting"
                 [] op[t] = "exit" -> "ending"
                 [] OTHER -> "getting",
   id |-> about[t],
   name |-> IF pc[t] \in {"add", "return"} THEN content[ptr[t]]
            ELSE IF op[t] \in {"setOwn", "setId"} /\ pc[t] # "drop"
            THEN content[param[t]] ELSE NoEntry]

Board == INSTANCE NameBoard WITH
           name <- [i \in Threads |-> ShownName(i)],
           introduced <- ready,
           call <- [t \in Threads |-> ShownCall(t)],
           Unknown <- NoEntry

(* The map implements NameBoard as long as steps have a defined meaning:   *)
(* with two steps for every copy and swap, and with accesses by id and     *)
(* without lock to the same entries, each call takes effect once, between  *)
(* its beginning and its return (threading.cpp:41-77, 153-178).            *)
ImplementsNameBoard ==
  Board!BoardInit /\ [][undefined' \/ Board!BoardNext]_(Board!boardVars)

(* When sync_thread_name() returns the platform knows the thread under the *)
(* name that the map has, unless set_thread_name(id, name) of another has  *)
(* replaced the name after it was read: then the platform keeps the old one*)
(* whatever the other has set there (threading.cpp:159-163, 175-178).      *)
SyncPublishes ==
  [][\A t \in Threads :
       op[t] = "sync" /\ op'[t] = "none" /\ ~ undefined'
         => t \in renamed \/ platform'[t] = Cut[NameOf(t)]]_vars

=============================================================================

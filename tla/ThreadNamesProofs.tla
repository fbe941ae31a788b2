-------------------------- MODULE ThreadNamesProofs --------------------------
(***************************************************************************)
(* Theorems about the names of threads, for any finite set of threads, any *)
(* buffers and any names, as long as no step lacks a defined meaning.      *)
(***************************************************************************)
EXTENDS ThreadNames, FunctionTheorems, FiniteSetTheorems, TLAPS

(* The pointer of each string that holds a counted reference, and the      *)
(* strings that hold one to b.                                             *)
Held(s) ==
  CASE s[1] = "entry" -> entries[s[2]]
    [] s[1] = "param" -> param[s[2]]
    [] s[1] = "node" -> IF pc[s[2]] \in {"insert", "return"} THEN ptr[s[2]]
                        ELSE NoEntry

Holding(b) == {s \in Strings : Held(s) = b}

(* The count of a buffer is the number of strings that hold it, and it is  *)
(* allocated as long as there is one; nullstr always is.                   *)
Exact ==
  \A b \in AllBuffers :
    refcount[b] = Cardinality(Holding(b)) + (IF b = nullstr THEN 1 ELSE 0)

Alive ==
  /\ \A b \in Buffers : content[b] # Freed <=> Holding(b) # {}
  /\ content[nullstr] = Empty

(* The steps of each call.                                                 *)
PcsOf(o) ==
  CASE o = "none" -> {"idle"}
    [] o = "setOwn" -> {"construct", "insert", "read", "write", "drop"}
    [] o \in {"getOwn", "sync"} ->
         {"construct", "insert", "read", "add", "return"}
    [] o = "setId" -> {"lookup", "write", "drop"}
    [] o = "getId" -> {"lookup", "add", "return"}
    [] o = "exit" -> {"lookup", "drop"}

(* A call whose pointer must still be that of the entry: it is between the *)
(* halves of a swap or of a copy.                                          *)
Reading(t) == pc[t] \in {"write", "add"}

(* What a thread is in the middle of.                                      *)
Placed(t) ==
  /\ pc[t] \in PcsOf(op[t])
  /\ op[t] \in OwnOps => about[t] = t
  /\ op[t] = "none" => about[t] = t /\ ptr[t] = NoEntry
  /\ param[t] # NoEntry <=> \/ op[t] \in {"setOwn", "setId"}
                            \/ op[t] = "exit" /\ pc[t] = "drop"
  /\ op[t] \in {"setOwn", "setId"} /\ pc[t] # "drop" => param[t] \in Buffers
  /\ pc[t] = "insert" => ptr[t] \in Buffers
  /\ pc[t] = "return" => ptr[t] # NoEntry
  /\ op[t] # "none" /\ pc[t] # "drop" => t \in running
  /\ pc[t] \in {"construct", "insert"} => t \notin ready
  /\ \/ pc[t] = "read"
     \/ pc[t] \in {"write", "add", "return"} /\ op[t] \in OwnOps
     \/ pc[t] = "lookup" /\ op[t] = "exit"
     => t \in ready
  /\ Reading(t) => ptr[t] # NoEntry /\ ptr[t] = entries[about[t]]

(* The lock is held between the lookup of a call by id and its last access *)
(* to the entry.                                                           *)
Guarded ==
  \A t \in Threads :
    guard = t <=> op[t] \in {"setId", "getId"} /\ pc[t] \in {"write", "add"}

(* A thread that keeps an iterator has an entry, and an entry without a    *)
(* name is about to get one from the call that has made it.                *)
Entered ==
  /\ \A t \in ready : entries[t] # NoEntry /\ entries[t] # nullstr
  /\ \A i \in Threads : entries[i] = nullstr =>
       \E t \in Threads : op[t] = "setId" /\ pc[t] = "write" /\ about[t] = i

IInv ==
  /\ TypeOK /\ Exact /\ Alive
  /\ \A t \in Threads : Placed(t)
  /\ Guarded /\ Entered

(* A sync_thread_name() is about to publish the name of its entry, unless  *)
(* that has another by now.                                                *)
Published ==
  \A t \in Threads :
    op[t] = "sync" /\ pc[t] = "return" /\ t \notin renamed
      => ptr[t] = entries[t]

(* As long as no step lacks a defined meaning.                             *)
Sound ==
  /\ HistoryTypeOK
  /\ ~ undefined => IInv /\ Published /\ ~ Undefined

-----------------------------------------------------------------------------
(* The strings that hold references, and how many there are.               *)

LEMMA StringsFinite ==
  /\ IsFiniteSet(Strings)
  /\ Cardinality(Strings) \in Nat
  /\ Cardinality(Strings) + 1 <= IntMax
<1>1. IsFiniteSet({"entry", "param", "node"})
  <2>1. IsFiniteSet({"entry"})
    BY FS_Singleton
  <2>2. IsFiniteSet({"entry"} \cup {"param"})
    BY <2>1, FS_AddElement
  <2>3. IsFiniteSet(({"entry"} \cup {"param"}) \cup {"node"})
    BY <2>2, FS_AddElement
  <2>4. ({"entry"} \cup {"param"}) \cup {"node"} = {"entry", "param", "node"}
    OBVIOUS
  <2> QED BY <2>3, <2>4
<1>2. IsFiniteSet(Strings)
  BY <1>1, CountsFit, FS_Product DEF Strings
<1> QED BY <1>2, FS_CardinalityType, CountsFit

LEMMA SubsetFinite ==
  ASSUME NEW S \in SUBSET Strings
  PROVE  /\ IsFiniteSet(S) /\ Cardinality(S) \in Nat
         /\ Cardinality(S) <= Cardinality(Strings)
         /\ Cardinality(S) = 0 <=> S = {}
<1>1. IsFiniteSet(S) /\ Cardinality(S) <= Cardinality(Strings)
  BY StringsFinite, FS_Subset
<1> QED BY <1>1, FS_CardinalityType, FS_EmptySet

LEMMA Transferred ==
  ASSUME NEW S \in SUBSET Strings, NEW x \in S, NEW y \in Strings \ S
  PROVE  /\ (S \ {x}) \cup {y} \in SUBSET Strings
         /\ Cardinality((S \ {x}) \cup {y}) = Cardinality(S)
<1>1. IsFiniteSet(S) /\ Cardinality(S) \in Nat
  BY SubsetFinite
<1>2. /\ IsFiniteSet(S \ {x})
      /\ Cardinality(S \ {x}) = Cardinality(S) - 1
  BY <1>1, FS_RemoveElement
<1>3. Cardinality((S \ {x}) \cup {y}) = Cardinality(S \ {x}) + 1
  BY <1>2, FS_AddElement
<1> QED BY <1>1, <1>2, <1>3

LEMMA HoldersAreStrings == \A b : Holding(b) \in SUBSET Strings
BY DEF Holding

LEMMA HeldBy ==
  ASSUME NEW t \in Threads
  PROVE  /\ <<"entry", t>> \in Strings /\ Held(<<"entry", t>>) = entries[t]
         /\ <<"param", t>> \in Strings /\ Held(<<"param", t>>) = param[t]
         /\ <<"node", t>> \in Strings
         /\ Held(<<"node", t>>) =
              IF pc[t] \in {"insert", "return"} THEN ptr[t] ELSE NoEntry
BY DEF Held, Strings

LEMMA HeldByNext ==
  ASSUME NEW t \in Threads
  PROVE  /\ Held(<<"entry", t>>)' = entries'[t]
         /\ Held(<<"param", t>>)' = param'[t]
         /\ Held(<<"node", t>>)' =
              IF pc'[t] \in {"insert", "return"} THEN ptr'[t] ELSE NoEntry
BY DEF Held, Strings

(* A step moves no references but those of the strings it changes.         *)
LEMMA Unmoved ==
  ASSUME NEW D,
         \A i \in Threads : <<"entry", i>> \notin D => entries'[i] = entries[i],
         \A u \in Threads : <<"param", u>> \notin D => param'[u] = param[u],
         \A u \in Threads : <<"node", u>> \notin D =>
           (IF pc'[u] \in {"insert", "return"} THEN ptr'[u] ELSE NoEntry)
             = (IF pc[u] \in {"insert", "return"} THEN ptr[u] ELSE NoEntry)
  PROVE  \A s \in Strings \ D : Held(s)' = Held(s)
<1> SUFFICES ASSUME NEW s \in Strings, s \notin D PROVE Held(s)' = Held(s)
  OBVIOUS
<1>1. PICK k \in {"entry", "param", "node"}, u \in Threads : s = <<k, u>>
  BY DEF Strings
<1>2. CASE k = "entry"
  BY <1>1, <1>2, HeldBy, HeldByNext
<1>3. CASE k = "param"
  BY <1>1, <1>3, HeldBy, HeldByNext
<1>4. CASE k = "node"
  BY <1>1, <1>4, HeldBy, HeldByNext
<1> QED BY <1>2, <1>3, <1>4

-----------------------------------------------------------------------------
(* What each kind of step on the buffers preserves.                        *)

(* Two strings exchange what they hold.                                    *)
LEMMA Exchanged ==
  ASSUME TypeOK, Exact, Alive, UNCHANGED bufferVars,
         NEW x \in Strings, NEW y \in Strings,
         Held(x)' = Held(y), Held(y)' = Held(x),
         \A s \in Strings \ {x, y} : Held(s)' = Held(s)
  PROVE  Exact' /\ Alive'
<1>1. ASSUME NEW b \in AllBuffers
      PROVE  /\ Cardinality(Holding(b)') = Cardinality(Holding(b))
             /\ Holding(b)' # {} <=> Holding(b) # {}
  <2>1. CASE Held(x) = b /\ Held(y) # b
    <3>1. /\ Holding(b)' = (Holding(b) \ {x}) \cup {y}
          /\ x \in Holding(b) /\ y \in Strings \ Holding(b)
      BY <2>1 DEF Holding
    <3> QED BY <3>1, HoldersAreStrings, Transferred
  <2>2. CASE Held(x) # b /\ Held(y) = b
    <3>1. /\ Holding(b)' = (Holding(b) \ {y}) \cup {x}
          /\ y \in Holding(b) /\ x \in Strings \ Holding(b)
      BY <2>2 DEF Holding
    <3> QED BY <3>1, HoldersAreStrings, Transferred
  <2>3. CASE Held(x) = b <=> Held(y) = b
    <3>1. Holding(b)' = Holding(b)
      BY <2>3 DEF Holding
    <3> QED BY <3>1
  <2> QED BY <2>1, <2>2, <2>3
<1>2. Exact'
  BY <1>1 DEF Exact, bufferVars
<1>3. Alive'
  BY <1>1 DEF Alive, bufferVars, AllBuffers
<1> QED BY <1>2, <1>3

(* fetch_add: a string becomes a holder of c, which is allocated.          *)
LEMMA Gained ==
  ASSUME TypeOK, Exact, Alive,
         NEW c \in AllBuffers, AddRef(c), c = nullstr \/ Holding(c) # {},
         NEW x \in Strings, Held(x) = NoEntry, Held(x)' = c,
         \A s \in Strings \ {x} : Held(s)' = Held(s)
  PROVE  BufferTypeOK' /\ Exact' /\ Alive'
<1>1. /\ Holding(c)' = Holding(c) \cup {x} /\ x \notin Holding(c)
      /\ \A b \in AllBuffers \ {c} : Holding(b)' = Holding(b)
  BY NamesAssumption DEF Holding
<1>2. /\ Cardinality(Holding(c)) \in Nat
      /\ Cardinality(Holding(c) \cup {x}) = Cardinality(Holding(c)) + 1
      /\ Cardinality(Holding(c) \cup {x}) <= Cardinality(Strings)
  <2>1. Holding(c) \cup {x} \in SUBSET Strings
    BY HoldersAreStrings
  <2>2. IsFiniteSet(Holding(c)) /\ Cardinality(Holding(c)) \in Nat
    BY HoldersAreStrings, SubsetFinite
  <2>3. Cardinality(Holding(c) \cup {x}) = Cardinality(Holding(c)) + 1
    BY <1>1, <2>2, FS_AddElement
  <2> QED BY <2>1, <2>2, <2>3, SubsetFinite
<1>3. /\ refcount[c] = Cardinality(Holding(c)) + (IF c = nullstr THEN 1 ELSE 0)
      /\ refcount[c] \in Nat /\ IntMax \in Nat
      /\ refcount[c] + 1 <= IntMax
  BY <1>2, StringsFinite, BufferAssumption DEF Exact
<1>4. Wrapped(refcount[c] + 1) = refcount[c] + 1
  BY <1>3 DEF Wrapped
<1>5. /\ refcount \in [AllBuffers -> -IntMax - 1 .. IntMax]
      /\ content \in [AllBuffers -> Contents \cup {Freed}]
  BY DEF TypeOK, BufferTypeOK
<1>6. /\ refcount' = [refcount EXCEPT ![c] = refcount[c] + 1]
      /\ content' = content
  BY <1>4 DEF AddRef
<1>7. refcount[c] + 1 \in -IntMax - 1 .. IntMax
  BY <1>3
<1>8. /\ refcount' \in [AllBuffers -> -IntMax - 1 .. IntMax]
      /\ refcount'[c] = refcount[c] + 1
      /\ \A b \in AllBuffers \ {c} : refcount'[b] = refcount[b]
  BY <1>5, <1>6, <1>7
<1>9. BufferTypeOK'
  BY <1>5, <1>6, <1>8 DEF BufferTypeOK
<1>10. Exact'
  BY <1>1, <1>2, <1>3, <1>8 DEF Exact
<1>11. ASSUME NEW b \in Buffers
       PROVE  content'[b] # Freed <=> Holding(b)' # {}
  <2>1. CASE b = c
    BY <1>1, <1>6, <2>1, BufferAssumption DEF Alive
  <2>2. CASE b # c
    BY <1>1, <1>6, <2>2 DEF Alive, AllBuffers
  <2> QED BY <2>1, <2>2
<1>12. Alive'
  BY <1>6, <1>11 DEF Alive
<1> QED BY <1>9, <1>10, <1>12

(* fetch_sub, and free: x is a holder of c no longer.                      *)
LEMMA Lost ==
  ASSUME TypeOK, Exact, Alive,
         NEW c \in AllBuffers, DropRef(c),
         NEW x \in Strings, Held(x) = c, Held(x)' = NoEntry,
         \A s \in Strings \ {x} : Held(s)' = Held(s)
  PROVE  BufferTypeOK' /\ Exact' /\ Alive'
<1>1. /\ Holding(c)' = Holding(c) \ {x} /\ x \in Holding(c)
      /\ \A b \in AllBuffers \ {c} : Holding(b)' = Holding(b)
  BY NamesAssumption DEF Holding
<1>2. /\ Cardinality(Holding(c)) \in Nat
      /\ Cardinality(Holding(c) \ {x}) = Cardinality(Holding(c)) - 1
      /\ Cardinality(Holding(c) \ {x}) \in Nat
      /\ Cardinality(Holding(c) \ {x}) = 0 <=> Holding(c) = {x}
  <2>1. Holding(c) \ {x} \in SUBSET Strings
    BY HoldersAreStrings
  <2>2. IsFiniteSet(Holding(c)) /\ Cardinality(Holding(c)) \in Nat
    BY HoldersAreStrings, SubsetFinite
  <2>3. Cardinality(Holding(c) \ {x}) = Cardinality(Holding(c)) - 1
    BY <1>1, <2>2, FS_RemoveElement
  <2>4. /\ Cardinality(Holding(c) \ {x}) \in Nat
        /\ Cardinality(Holding(c) \ {x}) = 0 <=> Holding(c) \ {x} = {}
    BY <2>1, SubsetFinite
  <2> QED BY <1>1, <2>2, <2>3, <2>4
<1>3. /\ refcount[c] = Cardinality(Holding(c)) + (IF c = nullstr THEN 1 ELSE 0)
      /\ refcount[c] \in Nat /\ IntMax \in Nat /\ refcount[c] >= 1
      /\ refcount[c] <= IntMax
      /\ refcount[c] = 1 <=> c # nullstr /\ Holding(c) = {x}
  BY <1>2, BufferAssumption DEF Exact, TypeOK, BufferTypeOK
<1>4. Wrapped(refcount[c] - 1) = refcount[c] - 1
  BY <1>3 DEF Wrapped
<1>5. /\ refcount \in [AllBuffers -> -IntMax - 1 .. IntMax]
      /\ content \in [AllBuffers -> Contents \cup {Freed}]
  BY DEF TypeOK, BufferTypeOK
<1>6. /\ refcount' = [refcount EXCEPT ![c] = refcount[c] - 1]
      /\ content' = [content EXCEPT ![c] =
           IF c # nullstr /\ Holding(c) = {x} THEN Freed ELSE @]
  BY <1>3, <1>4 DEF DropRef
<1>7. refcount[c] - 1 \in -IntMax - 1 .. IntMax
  BY <1>3
<1>8. /\ refcount' \in [AllBuffers -> -IntMax - 1 .. IntMax]
      /\ refcount'[c] = refcount[c] - 1
      /\ \A b \in AllBuffers \ {c} : refcount'[b] = refcount[b]
  BY <1>5, <1>6, <1>7
<1>9. /\ content' \in [AllBuffers -> Contents \cup {Freed}]
      /\ \A b \in AllBuffers \ {c} : content'[b] = content[b]
      /\ content'[c] = IF c # nullstr /\ Holding(c) = {x} THEN Freed
                       ELSE content[c]
  BY <1>5, <1>6
<1>10. BufferTypeOK'
  BY <1>5, <1>8, <1>9 DEF BufferTypeOK
<1>11. Exact'
  BY <1>1, <1>2, <1>3, <1>8 DEF Exact
<1>12. Alive'
  <2>1. content'[nullstr] = Empty
    BY <1>9 DEF Alive, AllBuffers
  <2>2. ASSUME NEW b \in Buffers
        PROVE  content'[b] # Freed <=> Holding(b)' # {}
    <3>1. CASE b = c
      BY <1>1, <1>9, <3>1, BufferAssumption DEF Alive
    <3>2. CASE b # c
      BY <1>1, <1>9, <3>2 DEF Alive, AllBuffers
    <3> QED BY <3>1, <3>2
  <2> QED BY <2>1, <2>2 DEF Alive
<1> QED BY <1>10, <1>11, <1>12

(* malloc: x is the one holder of a buffer that nobody held.               *)
LEMMA Allocated ==
  ASSUME TypeOK, Exact, Alive,
         NEW c \in Buffers, NEW n \in Contents, Alloc(c, n),
         NEW x \in Strings, Held(x) = NoEntry, Held(x)' = c,
         \A s \in Strings \ {x} : Held(s)' = Held(s)
  PROVE  BufferTypeOK' /\ Exact' /\ Alive'
<1>1. /\ c \in AllBuffers /\ c # nullstr
      /\ Holding(c)' = {x} /\ Cardinality({x}) = 1
      /\ \A b \in AllBuffers \ {c} : Holding(b)' = Holding(b)
  <2>1. Holding(c) = {} /\ c \in AllBuffers /\ c # nullstr
    BY BufferAssumption DEF Alloc, Alive, AllBuffers
  <2>2. Holding(c)' = {x}
    BY <2>1 DEF Holding
  <2>3. \A b \in AllBuffers \ {c} : Holding(b)' = Holding(b)
    BY NamesAssumption DEF Holding
  <2> QED BY <2>1, <2>2, <2>3, FS_Singleton
<1>2. /\ refcount \in [AllBuffers -> -IntMax - 1 .. IntMax]
      /\ content \in [AllBuffers -> Contents \cup {Freed}]
      /\ 1 \in -IntMax - 1 .. IntMax
  BY BufferAssumption DEF TypeOK, BufferTypeOK
<1>3. /\ refcount' \in [AllBuffers -> -IntMax - 1 .. IntMax]
      /\ refcount'[c] = 1
      /\ \A b \in AllBuffers \ {c} : refcount'[b] = refcount[b]
  BY <1>1, <1>2 DEF Alloc
<1>4. /\ content' \in [AllBuffers -> Contents \cup {Freed}]
      /\ content'[c] = n
      /\ \A b \in AllBuffers \ {c} : content'[b] = content[b]
  BY <1>1, <1>2 DEF Alloc
<1>5. BufferTypeOK'
  BY <1>3, <1>4 DEF BufferTypeOK
<1>6. ASSUME NEW b \in AllBuffers
      PROVE  refcount'[b] = Cardinality(Holding(b)')
                             + (IF b = nullstr THEN 1 ELSE 0)
  <2>1. CASE b = c
    <3>1. Cardinality(Holding(b)') = 1 /\ refcount'[b] = 1 /\ b # nullstr
      BY <1>1, <1>3, <2>1
    <3> QED BY <3>1
  <2>2. CASE b # c
    <3>1. Holding(b)' = Holding(b) /\ refcount'[b] = refcount[b]
      BY <1>1, <1>3, <2>2
    <3> QED BY <3>1 DEF Exact
  <2> QED BY <2>1, <2>2
<1>7. Exact'
  BY <1>6 DEF Exact
<1>8. Alive'
  BY <1>1, <1>4, BufferAssumption DEF Alive, AllBuffers
<1> QED BY <1>5, <1>7, <1>8

LEMMA AsBefore ==
  ASSUME Exact, Alive, UNCHANGED bufferVars,
         \A s \in Strings : Held(s)' = Held(s)
  PROVE  Exact' /\ Alive'
<1>1. \A b : Holding(b)' = Holding(b)
  BY DEF Holding
<1> QED BY <1>1 DEF Exact, Alive, bufferVars

(* What a string points to is allocated and has characters.                *)
LEMMA HeldIsAlive ==
  ASSUME TypeOK, Alive, NEW s \in Strings, Held(s) \in AllBuffers
  PROVE  content[Held(s)] \in Contents /\ content[Held(s)] # Freed
<1>1. \/ Held(s) = nullstr
      \/ Held(s) \in Buffers /\ s \in Holding(Held(s))
  BY DEF AllBuffers, Holding
<1>2. content[Held(s)] # Freed
  BY <1>1, BufferAssumption DEF Alive
<1> QED BY <1>2 DEF TypeOK, BufferTypeOK

-----------------------------------------------------------------------------
(* What a step of one thread means for the others.                         *)

(* t is the one thread whose call goes on.                                 *)
OthersStay(t) ==
  \A u \in Threads \ {t} :
    /\ op'[u] = op[u] /\ pc'[u] = pc[u] /\ about'[u] = about[u]
    /\ param'[u] = param[u] /\ ptr'[u] = ptr[u]

Locked(t) == op[t] \in {"setId", "getId"} /\ pc[t] \in {"write", "add"}

LEMMA OthersPlaced ==
  ASSUME IInv, NEW t \in Threads, OthersStay(t),
         \A u \in Threads \ {t} :
           /\ u \in running => u \in running'
           /\ u \in ready' <=> u \in ready
           /\ Reading(u) => entries'[about[u]] = entries[about[u]]
  PROVE  \A u \in Threads \ {t} : Placed(u)'
<1> SUFFICES ASSUME NEW u \in Threads \ {t} PROVE Placed(u)'
  OBVIOUS
<1>1. Placed(u) /\ about[u] \in Threads
  BY DEF IInv, TypeOK
<1>2. Reading(u)' <=> Reading(u)
  BY DEF OthersStay, Reading
<1>3. PcsOf(op[u])' = PcsOf(op[u])
  BY DEF OthersStay
<1> QED BY <1>1, <1>2, <1>3 DEF OthersStay, Placed

LEMMA GuardedKept ==
  ASSUME IInv, NEW t \in Threads, OthersStay(t),
         \/ guard' = guard /\ (Locked(t)' <=> Locked(t))
         \/ guard = NoThread /\ guard' = t /\ Locked(t)'
         \/ Locked(t) /\ guard' = NoThread /\ ~Locked(t)'
  PROVE  Guarded'
<1>1. \A u \in Threads \ {t} : Locked(u)' <=> Locked(u)
  BY DEF OthersStay, Locked
<1>2. \A u \in Threads : guard = u <=> Locked(u)
  BY DEF IInv, Guarded, Locked
<1>3. \A u \in Threads : guard' = u <=> Locked(u)'
  BY <1>1, <1>2, NamesAssumption
<1> QED BY <1>3 DEF Guarded, Locked

LEMMA EnteredKept ==
  ASSUME IInv, NEW t \in Threads, OthersStay(t),
         entries' = entries, ready' \subseteq ready,
         op[t] = "setId" /\ pc[t] = "write" =>
           op'[t] = "setId" /\ pc'[t] = "write" /\ about'[t] = about[t]
  PROVE  Entered'
<1>1. \A u \in Threads :
        op[u] = "setId" /\ pc[u] = "write" =>
          op'[u] = "setId" /\ pc'[u] = "write" /\ about'[u] = about[u]
  BY DEF OthersStay
<1> QED BY <1>1 DEF IInv, Entered

-----------------------------------------------------------------------------
(* The parts that steps are made of.                                       *)

CallTyped ==
  /\ op \in [Threads -> Ops] /\ pc \in [Threads -> Pcs]
  /\ about \in [Threads -> Threads]
  /\ param \in [Threads -> AllBuffers \cup {NoEntry}]
  /\ ptr \in [Threads -> AllBuffers \cup {NoEntry}]

LEMMA Went ==
  ASSUME CallTyped, NEW t \in Threads, NEW p \in Pcs, Goto(t, p)
  PROVE  /\ pc' \in [Threads -> Pcs] /\ pc'[t] = p
         /\ \A u \in Threads \ {t} : pc'[u] = pc[u]
BY DEF CallTyped, Goto

LEMMA Finished ==
  ASSUME CallTyped, NEW t \in Threads, Finish(t)
  PROVE  /\ CallTyped'
         /\ op'[t] = "none" /\ pc'[t] = "idle" /\ about'[t] = t
         /\ param'[t] = NoEntry /\ ptr'[t] = NoEntry
         /\ OthersStay(t)
<1>1. /\ op' \in [Threads -> Ops] /\ op'[t] = "none"
      /\ \A u \in Threads \ {t} : op'[u] = op[u]
  BY DEF CallTyped, Finish, Ops
<1>2. /\ pc' \in [Threads -> Pcs] /\ pc'[t] = "idle"
      /\ \A u \in Threads \ {t} : pc'[u] = pc[u]
  BY Went DEF Finish, Pcs
<1>3. /\ about' \in [Threads -> Threads] /\ about'[t] = t
      /\ \A u \in Threads \ {t} : about'[u] = about[u]
  BY DEF CallTyped, Finish
<1>4. /\ param' \in [Threads -> AllBuffers \cup {NoEntry}]
      /\ param'[t] = NoEntry
      /\ \A u \in Threads \ {t} : param'[u] = param[u]
  BY DEF CallTyped, Finish
<1>5. /\ ptr' \in [Threads -> AllBuffers \cup {NoEntry}]
      /\ ptr'[t] = NoEntry
      /\ \A u \in Threads \ {t} : ptr'[u] = ptr[u]
  BY DEF CallTyped, Finish
<1> QED BY <1>1, <1>2, <1>3, <1>4, <1>5 DEF CallTyped, OthersStay

LEMMA Called ==
  ASSUME CallTyped, NEW t \in Threads, NEW o \in Ops, NEW i \in Threads,
         NEW p \in Pcs, Call(t, o, i, p)
  PROVE  /\ op' \in [Threads -> Ops] /\ pc' \in [Threads -> Pcs]
         /\ about' \in [Threads -> Threads]
         /\ op'[t] = o /\ pc'[t] = p /\ about'[t] = i
         /\ \A u \in Threads \ {t} :
              op'[u] = op[u] /\ pc'[u] = pc[u] /\ about'[u] = about[u]
<1>1. /\ op' \in [Threads -> Ops] /\ op'[t] = o
      /\ \A u \in Threads \ {t} : op'[u] = op[u]
  BY DEF CallTyped, Call
<1>2. /\ pc' \in [Threads -> Pcs] /\ pc'[t] = p
      /\ \A u \in Threads \ {t} : pc'[u] = pc[u]
  BY Went DEF Call
<1>3. /\ about' \in [Threads -> Threads] /\ about'[t] = i
      /\ \A u \in Threads \ {t} : about'[u] = about[u]
  BY DEF CallTyped, Call
<1> QED BY <1>1, <1>2, <1>3

-----------------------------------------------------------------------------
(* The steps.                                                              *)

LEMMA InitKeeps == ASSUME Init PROVE IInv
<1>1. TypeOK
  <2>1. -IntMax - 1 <= 0 /\ 1 <= IntMax /\ 0 \in 0 .. MaxLives
    BY BufferAssumption, NamesAssumption
  <2>2. BufferTypeOK
    BY <2>1, BufferAssumption DEF Init, BufferInit, BufferTypeOK, AllBuffers
  <2>3. platform \in [Threads -> Contents]
    BY BufferAssumption DEF Init
  <2> QED BY <2>1, <2>2, <2>3 DEF Init, TypeOK, Ops, Pcs
<1>2. \A b \in AllBuffers : Holding(b) = {}
  <2> SUFFICES ASSUME NEW b \in AllBuffers, NEW s \in Strings
               PROVE  Held(s) # b
    BY DEF Holding
  <2>1. PICK k \in {"entry", "param", "node"}, u \in Threads : s = <<k, u>>
    BY DEF Strings
  <2>2. Held(s) = NoEntry
    BY <2>1, HeldBy DEF Init
  <2> QED BY <2>2, NamesAssumption
<1>3. Exact
  BY <1>2, FS_EmptySet DEF Init, BufferInit, Exact
<1>4. Alive
  BY <1>2, BufferAssumption DEF Init, BufferInit, Alive, AllBuffers
<1>5. ASSUME NEW t \in Threads PROVE Placed(t)
  <2>1. op[t] = "none" /\ pc[t] = "idle" /\ about[t] = t /\ ptr[t] = NoEntry
        /\ param[t] = NoEntry /\ ready = {}
    BY DEF Init
  <2> QED BY <2>1 DEF Placed, PcsOf, Reading, OwnOps
<1>6. Guarded /\ Entered
  BY NamesAssumption, BufferAssumption
     DEF Init, Guarded, Entered, AllBuffers
<1> QED BY <1>1, <1>3, <1>4, <1>5, <1>6 DEF IInv

LEMMA StartKeeps ==
  ASSUME IInv, NEW t \in Threads, Start(t)
  PROVE  IInv'
<1>1. /\ op[t] = "none" /\ UNCHANGED <<bufferVars, ready, mapVars>>
      /\ op' = op /\ pc' = pc /\ about' = about /\ param' = param /\ ptr' = ptr
      /\ running' = running \cup {t} /\ selfOnly' = selfOnly
  BY DEF Start, callVars
<1>2. TypeOK'
  <2>1. lives' \in [Threads -> 0 .. MaxLives]
    BY NamesAssumption DEF Start, IInv, TypeOK
  <2>2. platform' \in [Threads -> Contents]
    BY NamesAssumption DEF Start, IInv, TypeOK
  <2> QED BY <1>1, <2>1, <2>2 DEF IInv, TypeOK, BufferTypeOK, bufferVars, mapVars
<1>3. \A s : Held(s)' = Held(s)
  BY <1>1 DEF Held, mapVars
<1>4. Exact' /\ Alive'
  BY <1>1, <1>3, AsBefore DEF IInv
<1>5. \A u \in Threads : Placed(u)'
  BY <1>1 DEF IInv, Placed, Reading, PcsOf, mapVars
<1>6. Guarded' /\ Entered'
  BY <1>1 DEF IInv, Guarded, Entered, mapVars
<1> QED BY <1>2, <1>4, <1>5, <1>6 DEF IInv

(* A thread without `current' has no iterator, and no call in progress.    *)
LEMMA ExitUnnamedKeeps ==
  ASSUME IInv, NEW t \in Threads, ExitUnnamed(t)
  PROVE  IInv'
<1>1. /\ op[t] = "none" /\ t \notin ready
      /\ UNCHANGED <<bufferVars, ready, mapVars, lives, platform>>
      /\ op' = op /\ pc' = pc /\ about' = about /\ param' = param /\ ptr' = ptr
      /\ running' = running \ {t} /\ selfOnly' = selfOnly
  BY DEF ExitUnnamed, callVars
<1>2. TypeOK'
  BY <1>1 DEF IInv, TypeOK, BufferTypeOK, bufferVars, mapVars
<1>3. \A s : Held(s)' = Held(s)
  BY <1>1 DEF Held, mapVars
<1>4. Exact' /\ Alive'
  BY <1>1, <1>3, AsBefore DEF IInv
<1>5. \A u \in Threads : Placed(u)'
  BY <1>1 DEF IInv, Placed, Reading, PcsOf, mapVars
<1>6. Guarded' /\ Entered'
  BY <1>1 DEF IInv, Guarded, Entered, mapVars
<1> QED BY <1>2, <1>4, <1>5, <1>6 DEF IInv

(* A call that sets a name begins with a parameter of its own.             *)
LEMMA SettingKeeps ==
  ASSUME IInv, NEW t \in Threads, NEW i \in Threads,
         NEW n \in Names,
         \/ i = t /\ SetOwn(t, n)
         \/ SetId(t, i, n)
  PROVE  IInv'
<1>1. PICK o \in {"setOwn", "setId"}, p \in {"construct", "read", "lookup"},
           b \in Buffers :
        /\ Call(t, o, i, p)
        /\ o = "setOwn" => i = t /\ p = FirstStep(t)
        /\ o = "setId" => p = "lookup"
        /\ Alloc(b, n) /\ param' = [param EXCEPT ![t] = b]
        /\ SetPlatform(t, i, n)
        /\ UNCHANGED <<threadVars, mapVars, ptr>>
  BY DEF SetOwn, SetId, FirstStep
<1>2. CallTyped /\ o \in Ops /\ p \in Pcs /\ n \in Contents
  BY NamesAssumption DEF IInv, TypeOK, CallTyped, Ops, OwnOps, Pcs
<1>3. /\ op' \in [Threads -> Ops] /\ pc' \in [Threads -> Pcs]
      /\ about' \in [Threads -> Threads]
      /\ op'[t] = o /\ pc'[t] = p /\ about'[t] = i
      /\ \A u \in Threads \ {t} :
           op'[u] = op[u] /\ pc'[u] = pc[u] /\ about'[u] = about[u]
  BY <1>1, <1>2, Called
<1>4. /\ param' \in [Threads -> AllBuffers \cup {NoEntry}]
      /\ param'[t] = b
      /\ \A u \in Threads \ {t} : param'[u] = param[u]
  BY <1>1, <1>2 DEF CallTyped, AllBuffers
<1>5. /\ ptr' = ptr /\ entries' = entries /\ guard' = guard
      /\ invalid' = invalid
      /\ running' = running /\ ready' = ready /\ selfOnly' = selfOnly
      /\ lives' = lives
  BY <1>1 DEF threadVars, mapVars
<1>6. /\ t \in running /\ op[t] = "none" /\ pc[t] = "idle"
      /\ param[t] = NoEntry /\ ptr[t] = NoEntry
  BY <1>1 DEF Call, IInv, Placed, PcsOf
<1>7. OthersStay(t)
  BY <1>3, <1>4, <1>5 DEF OthersStay
<1>8. BufferTypeOK' /\ Exact' /\ Alive'
  <2>1. /\ Held(<<"param", t>>) = NoEntry /\ Held(<<"param", t>>)' = b
        /\ <<"param", t>> \in Strings
    BY <1>4, <1>6, HeldBy, HeldByNext
  <2>2. \A s \in Strings \ {<<"param", t>>} : Held(s)' = Held(s)
    BY <1>3, <1>4, <1>5, <1>6, Unmoved
  <2> QED BY <1>1, <1>2, <2>1, <2>2, Allocated DEF IInv
<1>9. TypeOK'
  <2>1. platform' \in [Threads -> Contents]
    BY <1>1, <1>2, NamesAssumption DEF IInv, TypeOK, SetPlatform
  <2> QED BY <1>3, <1>4, <1>5, <1>8, <2>1 DEF IInv, TypeOK
<1>10. Placed(t)'
  <2>1. CASE o = "setOwn"
    BY <1>1, <1>3, <1>4, <1>5, <1>6, <2>1, NamesAssumption
       DEF Placed, PcsOf, Reading, OwnOps, FirstStep, AllBuffers
  <2>2. CASE o = "setId"
    BY <1>1, <1>3, <1>4, <1>5, <1>6, <2>2, NamesAssumption
       DEF Placed, PcsOf, Reading, OwnOps, AllBuffers
  <2> QED BY <2>1, <2>2
<1>11. \A u \in Threads \ {t} : Placed(u)'
  BY <1>5, <1>7, OthersPlaced
<1>13. Guarded'
  BY <1>3, <1>5, <1>6, <1>7, GuardedKept DEF Locked
<1>14. Entered'
  BY <1>5, <1>6, <1>7, EnteredKept
<1> QED BY <1>8, <1>9, <1>10, <1>11, <1>13, <1>14 DEF IInv

(* Other calls begin with nothing.                                         *)
LEMMA BeginningKeeps ==
  ASSUME IInv, NEW t \in Threads, NEW i \in Threads,
         \/ i = t /\ \E o \in {"getOwn", "sync"} : GetOwn(t, o)
         \/ GetId(t, i)
         \/ i = t /\ Exit(t)
  PROVE  IInv'
<1>1. PICK o \in {"getOwn", "sync", "getId", "exit"},
           p \in {"construct", "read", "lookup"} :
        /\ Call(t, o, i, p)
        /\ o \in {"getOwn", "sync"} => i = t /\ p = FirstStep(t)
        /\ o \in {"getId", "exit"} => p = "lookup"
        /\ o = "exit" => i = t /\ t \in ready
        /\ UNCHANGED <<bufferVars, threadVars, mapVars, platform, param, ptr>>
  BY DEF GetOwn, GetId, Exit, FirstStep
<1>2. CallTyped /\ o \in Ops /\ p \in Pcs
  BY DEF IInv, TypeOK, CallTyped, Ops, OwnOps, Pcs
<1>3. /\ op' \in [Threads -> Ops] /\ pc' \in [Threads -> Pcs]
      /\ about' \in [Threads -> Threads]
      /\ op'[t] = o /\ pc'[t] = p /\ about'[t] = i
      /\ \A u \in Threads \ {t} :
           op'[u] = op[u] /\ pc'[u] = pc[u] /\ about'[u] = about[u]
  BY <1>1, <1>2, Called
<1>4. /\ ptr' = ptr /\ param' = param /\ entries' = entries /\ guard' = guard
      /\ running' = running /\ ready' = ready /\ selfOnly' = selfOnly
      /\ lives' = lives /\ platform' = platform /\ UNCHANGED bufferVars
      /\ invalid' = invalid
  BY <1>1 DEF threadVars, mapVars
<1>5. /\ t \in running /\ op[t] = "none" /\ pc[t] = "idle"
      /\ param[t] = NoEntry /\ ptr[t] = NoEntry
  BY <1>1 DEF Call, IInv, Placed, PcsOf
<1>6. OthersStay(t)
  BY <1>3, <1>4 DEF OthersStay
<1>7. Exact' /\ Alive'
  <2>1. \A s \in Strings \ {} : Held(s)' = Held(s)
    BY <1>3, <1>4, <1>5, Unmoved
  <2> QED BY <1>4, <2>1, AsBefore DEF IInv
<1>8. TypeOK'
  BY <1>3, <1>4 DEF IInv, TypeOK, BufferTypeOK, bufferVars
<1>9. Placed(t)'
  BY <1>1, <1>3, <1>4, <1>5
     DEF Placed, PcsOf, Reading, OwnOps, FirstStep
<1>10. \A u \in Threads \ {t} : Placed(u)'
  BY <1>4, <1>6, OthersPlaced
<1>12. Guarded'
  BY <1>3, <1>4, <1>5, <1>6, GuardedKept DEF Locked
<1>13. Entered'
  BY <1>4, <1>5, <1>6, EnteredKept
<1> QED BY <1>7, <1>8, <1>9, <1>10, <1>12, <1>13 DEF IInv

(* Who swaps or removes a string is alone with the entry.                  *)
LEMMA NobodyElseReads ==
  ASSUME IInv, NEW t \in Threads,
         \/ op[t] = "exit" /\ guard = NoThread
         \/ pc[t] = "write" /\ ~ Overlap
  PROVE  \A u \in Threads \ {t} : Reading(u) => about[u] # about[t]
<1> SUFFICES ASSUME NEW u \in Threads \ {t}, Reading(u), about[u] = about[t]
             PROVE  FALSE
  OBVIOUS
<1>1. /\ Placed(u) /\ op[u] \in Ops /\ Placed(t) /\ op[t] \in Ops
      /\ \A v \in Threads : guard = v <=> Locked(v)
  BY DEF IInv, TypeOK, Guarded, Locked
<1>2. /\ op[u] # "none"
      /\ op[u] \in OwnOps \/ Locked(u)
  BY <1>1 DEF Placed, PcsOf, Reading, Ops, Locked
<1>3. CASE op[t] = "exit" /\ guard = NoThread
  <2>1. about[t] = t
    BY <1>1, <1>3 DEF Placed, OwnOps
  <2>2. op[u] \in OwnOps
    BY <1>1, <1>2, <1>3, NamesAssumption
  <2> QED BY <1>1, <2>1, <2>2 DEF Placed
<1>4. CASE pc[t] = "write" /\ ~ Overlap
  <2>1. op[t] \notin OwnOps /\ op[u] \notin OwnOps
    BY <1>4 DEF Overlap, Reading
  <2>2. Locked(t)
    BY <1>1, <1>4, <2>1 DEF Locked, Placed, PcsOf, Ops
  <2> QED BY <1>1, <1>2, <2>1, <2>2
<1> QED BY <1>3, <1>4

LEMMA ConstructKeeps ==
  ASSUME IInv, NEW t \in Threads, Construct(t)
  PROVE  IInv'
<1>1. PICK b \in Buffers, n \in Contents :
        Alloc(b, n) /\ ptr' = [ptr EXCEPT ![t] = b]
  BY NamesAssumption DEF Construct, IInv, TypeOK
<1>2. /\ CallTyped /\ Placed(t)
      /\ pc[t] = "construct" /\ op[t] \in {"setOwn", "getOwn", "sync"}
  BY DEF Construct, At, IInv, TypeOK, CallTyped, Placed, PcsOf, Ops, OwnOps
<1>3. /\ op' = op /\ about' = about /\ param' = param /\ entries' = entries
      /\ running' = running /\ ready' = ready /\ selfOnly' = selfOnly
      /\ lives' = lives /\ platform' = platform /\ guard' = guard
      /\ invalid' = invalid
  BY DEF Construct, threadVars, mapVars
<1>4. /\ pc' \in [Threads -> Pcs] /\ pc'[t] = "insert"
      /\ \A u \in Threads \ {t} : pc'[u] = pc[u]
  BY <1>2, Went DEF Construct, Pcs
<1>5. /\ ptr' \in [Threads -> AllBuffers \cup {NoEntry}] /\ ptr'[t] = b
      /\ \A u \in Threads \ {t} : ptr'[u] = ptr[u]
  BY <1>1, <1>2 DEF CallTyped, AllBuffers
<1>6. OthersStay(t)
  BY <1>3, <1>4, <1>5 DEF OthersStay
<1>7. BufferTypeOK' /\ Exact' /\ Alive'
  <2>1. /\ Held(<<"node", t>>) = NoEntry /\ Held(<<"node", t>>)' = b
        /\ <<"node", t>> \in Strings
    BY <1>2, <1>4, <1>5, HeldBy, HeldByNext
  <2>2. \A s \in Strings \ {<<"node", t>>} : Held(s)' = Held(s)
    BY <1>3, <1>4, <1>5, Unmoved
  <2> QED BY <1>1, <2>1, <2>2, Allocated DEF IInv
<1>8. TypeOK'
  BY <1>3, <1>4, <1>5, <1>7 DEF IInv, TypeOK
<1>9. Placed(t)'
  BY <1>2, <1>3, <1>4, <1>5 DEF Placed, PcsOf, Reading, OwnOps
<1>10. \A u \in Threads \ {t} : Placed(u)'
  BY <1>3, <1>6, OthersPlaced
<1>12. Guarded'
  BY <1>2, <1>3, <1>4, <1>6, GuardedKept DEF Locked
<1>13. Entered'
  BY <1>2, <1>3, <1>6, EnteredKept
<1> QED BY <1>7, <1>8, <1>9, <1>10, <1>12, <1>13 DEF IInv

(* The node becomes the entry, or is destroyed.                            *)
LEMMA InsertKeeps ==
  ASSUME IInv, NEW t \in Threads, Insert(t)
  PROVE  IInv'
<1>1. /\ CallTyped /\ Placed(t) /\ about[t] = t
      /\ pc[t] = "insert" /\ op[t] \in {"setOwn", "getOwn", "sync"}
      /\ ptr[t] \in Buffers /\ t \in running
      /\ entries \in [Threads -> AllBuffers \cup {NoEntry}]
  BY DEF Insert, At, IInv, TypeOK, CallTyped, Placed, PcsOf, Ops, OwnOps
<1>2. /\ op' = op /\ about' = about /\ param' = param /\ ptr' = ptr
      /\ running' = running /\ ready' = ready \cup {t} /\ selfOnly' = selfOnly
      /\ lives' = lives /\ platform' = platform /\ guard' = guard
      /\ invalid' \subseteq ready'
  BY DEF Insert, Inserted, IInv, TypeOK
<1>3. /\ pc' \in [Threads -> Pcs] /\ pc'[t] = "read"
      /\ \A u \in Threads \ {t} : pc'[u] = pc[u]
  BY <1>1, Went DEF Insert, Pcs
<1>4. OthersStay(t)
  BY <1>2, <1>3 DEF OthersStay
<1>5. /\ entries' \in [Threads -> AllBuffers \cup {NoEntry}]
      /\ entries'[t] = IF entries[t] = NoEntry THEN ptr[t] ELSE entries[t]
      /\ \A i \in Threads \ {t} : entries'[i] = entries[i]
  BY <1>1 DEF Insert, AllBuffers
<1>6. /\ Held(<<"node", t>>) = ptr[t] /\ Held(<<"node", t>>)' = NoEntry
      /\ <<"node", t>> \in Strings /\ <<"entry", t>> \in Strings
      /\ Held(<<"entry", t>>) = entries[t]
      /\ Held(<<"entry", t>>)' = entries'[t]
  BY <1>1, <1>3, HeldBy, HeldByNext
<1>7. BufferTypeOK' /\ Exact' /\ Alive'
  <2>1. CASE entries[t] = NoEntry
    <3>1. UNCHANGED bufferVars
      BY <2>1 DEF Insert
    <3>2. \A s \in Strings \ {<<"entry", t>>, <<"node", t>>} :
            Held(s)' = Held(s)
      BY <1>2, <1>3, <1>5, Unmoved
    <3>3. /\ Held(<<"node", t>>)' = Held(<<"entry", t>>)
          /\ Held(<<"entry", t>>)' = Held(<<"node", t>>)
      BY <1>5, <1>6, <2>1
    <3>4. Exact' /\ Alive'
      BY <1>6, <3>1, <3>2, <3>3, Exchanged DEF IInv
    <3> QED BY <3>1, <3>4 DEF IInv, TypeOK, BufferTypeOK, bufferVars
  <2>2. CASE entries[t] # NoEntry
    <3>1. DropRef(ptr[t]) /\ ptr[t] \in AllBuffers
      BY <1>1, <2>2 DEF Insert, AllBuffers
    <3>2. \A s \in Strings \ {<<"node", t>>} : Held(s)' = Held(s)
      BY <1>2, <1>3, <1>5, <2>2, Unmoved
    <3> QED BY <1>6, <3>1, <3>2, Lost DEF IInv
  <2> QED BY <2>1, <2>2
<1>8. TypeOK'
  BY <1>1, <1>2, <1>3, <1>5, <1>7 DEF IInv, TypeOK
<1>9. Placed(t)'
  BY <1>1, <1>2, <1>3 DEF Placed, PcsOf, Reading, OwnOps
<1>10. \A u \in Threads \ {t} : Placed(u)'
  <2>1. \A u \in Threads \ {t} :
          Reading(u) => entries'[about[u]] = entries[about[u]]
    BY <1>1, <1>5 DEF IInv, Placed, CallTyped
  <2> QED BY <1>2, <1>4, <2>1, OthersPlaced
<1>12. Guarded'
  BY <1>1, <1>2, <1>3, <1>4, GuardedKept DEF Locked
<1>13. Entered'
  <2>0. guard = NoThread
    BY DEF Insert
  <2>1. ASSUME NEW v \in ready'
        PROVE  entries'[v] # NoEntry /\ entries'[v] # nullstr
    <3>1. CASE v = t
      <4>1. entries[t] # nullstr
        <5>1. ASSUME NEW u \in Threads, op[u] = "setId", pc[u] = "write"
              PROVE  FALSE
          BY <2>0, <5>1, NamesAssumption DEF IInv, Guarded
        <5> QED BY <5>1 DEF IInv, Entered
      <4> QED BY <1>1, <1>5, <3>1, <4>1, NamesAssumption, BufferAssumption
              DEF AllBuffers
    <3>2. CASE v # t
      BY <1>2, <1>5, <3>2 DEF IInv, Entered, TypeOK
    <3> QED BY <3>1, <3>2
  <2>2. ASSUME NEW i \in Threads, entries'[i] = nullstr
        PROVE  \E v \in Threads :
                 op'[v] = "setId" /\ pc'[v] = "write" /\ about'[v] = i
    <3>1. entries[i] = nullstr
      BY <1>1, <1>5, <2>2, BufferAssumption
    <3>2. PICK v \in Threads :
            op[v] = "setId" /\ pc[v] = "write" /\ about[v] = i
      BY <3>1 DEF IInv, Entered
    <3> QED BY <1>1, <1>2, <1>3, <3>2
  <2> QED BY <2>1, <2>2 DEF Entered
<1> QED BY <1>7, <1>8, <1>9, <1>10, <1>12, <1>13 DEF IInv

LEMMA ReadKeeps ==
  ASSUME IInv, NEW t \in Threads, Read(t)
  PROVE  IInv'
<1>1. /\ CallTyped /\ Placed(t) /\ about[t] = t /\ t \in ready
      /\ pc[t] = "read" /\ op[t] \in {"setOwn", "getOwn", "sync"}
      /\ entries[t] \in AllBuffers /\ entries[t] # NoEntry
  <2>1. /\ CallTyped /\ Placed(t) /\ pc[t] = "read"
        /\ op[t] \in {"setOwn", "getOwn", "sync"}
    BY DEF Read, At, IInv, TypeOK, CallTyped, Placed, PcsOf, Ops, OwnOps
  <2>2. about[t] = t /\ t \in ready
    BY <2>1 DEF Placed, OwnOps
  <2> QED BY <2>1, <2>2 DEF IInv, TypeOK, Entered
<1>2. /\ op' = op /\ about' = about /\ param' = param /\ entries' = entries
      /\ running' = running /\ ready' = ready /\ selfOnly' = selfOnly
      /\ lives' = lives /\ platform' = platform /\ guard' = guard
      /\ invalid' = invalid /\ UNCHANGED bufferVars
  BY DEF Read, threadVars, mapVars
<1>3. /\ pc' \in [Threads -> Pcs]
      /\ pc'[t] = IF op[t] = "setOwn" THEN "write" ELSE "add"
      /\ \A u \in Threads \ {t} : pc'[u] = pc[u]
  BY <1>1, Went DEF Read, Pcs
<1>4. /\ ptr' \in [Threads -> AllBuffers \cup {NoEntry}]
      /\ ptr'[t] = entries[t]
      /\ \A u \in Threads \ {t} : ptr'[u] = ptr[u]
  BY <1>1 DEF Read, CallTyped
<1>5. OthersStay(t)
  BY <1>2, <1>3, <1>4 DEF OthersStay
<1>6. Exact' /\ Alive'
  <2>1. \A s \in Strings \ {} : Held(s)' = Held(s)
    BY <1>1, <1>2, <1>3, <1>4, Unmoved
  <2> QED BY <1>2, <2>1, AsBefore DEF IInv
<1>7. TypeOK'
  BY <1>2, <1>3, <1>4 DEF IInv, TypeOK, BufferTypeOK, bufferVars
<1>8. Placed(t)'
  BY <1>1, <1>2, <1>3, <1>4 DEF Placed, PcsOf, Reading, OwnOps
<1>9. \A u \in Threads \ {t} : Placed(u)'
  BY <1>2, <1>5, OthersPlaced
<1>11. Guarded'
  BY <1>1, <1>2, <1>3, <1>5, GuardedKept DEF Locked
<1>12. Entered'
  BY <1>1, <1>2, <1>5, EnteredKept
<1> QED BY <1>6, <1>7, <1>8, <1>9, <1>11, <1>12 DEF IInv

LEMMA FindKeeps ==
  ASSUME IInv, NEW t \in Threads, Find(t)
  PROVE  IInv'
<1>1. /\ CallTyped /\ Placed(t) /\ about[t] \in Threads
      /\ pc[t] = "lookup" /\ op[t] = "getId" /\ guard = NoThread
      /\ param[t] = NoEntry /\ t \in running
      /\ entries[about[t]] \in AllBuffers \cup {NoEntry}
  BY DEF Find, At, IInv, TypeOK, CallTyped, Placed
<1>2. /\ entries' = entries /\ running' = running /\ ready' = ready
      /\ selfOnly' = selfOnly /\ lives' = lives /\ platform' = platform
      /\ invalid' = invalid /\ UNCHANGED bufferVars
  BY DEF Find, threadVars
<1>3. CASE entries[about[t]] = NoEntry
  <2>1. Finish(t) /\ guard' = guard
    BY <1>3 DEF Find
  <2>2. /\ CallTyped'
        /\ op'[t] = "none" /\ pc'[t] = "idle" /\ about'[t] = t
        /\ param'[t] = NoEntry /\ ptr'[t] = NoEntry
        /\ OthersStay(t)
    BY <1>1, <2>1, Finished
  <2>3. Exact' /\ Alive'
    <3>1. \A s \in Strings \ {} : Held(s)' = Held(s)
      BY <1>1, <1>2, <2>2, Unmoved DEF OthersStay
    <3> QED BY <1>2, <3>1, AsBefore DEF IInv
  <2>4. TypeOK'
    BY <1>2, <2>1, <2>2 DEF IInv, TypeOK, BufferTypeOK, bufferVars, CallTyped
  <2>5. Placed(t)'
    BY <2>2 DEF Placed, PcsOf, Reading, OwnOps
  <2>6. \A u \in Threads \ {t} : Placed(u)'
    BY <1>2, <2>2, OthersPlaced
  <2>8. Guarded'
    BY <1>1, <2>1, <2>2, GuardedKept DEF Locked
  <2>9. Entered'
    BY <1>1, <1>2, <2>2, EnteredKept
  <2> QED BY <2>3, <2>4, <2>5, <2>6, <2>8, <2>9 DEF IInv
<1>4. CASE entries[about[t]] # NoEntry
  <2>1. /\ guard' = t /\ op' = op /\ about' = about /\ param' = param
        /\ ptr' = [ptr EXCEPT ![t] = entries[about[t]]] /\ Goto(t, "add")
    BY <1>4 DEF Find
  <2>2. /\ pc' \in [Threads -> Pcs] /\ pc'[t] = "add"
        /\ \A u \in Threads \ {t} : pc'[u] = pc[u]
    BY <1>1, <2>1, Went DEF Pcs
  <2>3. /\ ptr' \in [Threads -> AllBuffers \cup {NoEntry}]
        /\ ptr'[t] = entries[about[t]]
        /\ \A u \in Threads \ {t} : ptr'[u] = ptr[u]
    BY <1>1, <2>1 DEF CallTyped
  <2>4. OthersStay(t)
    BY <2>1, <2>2, <2>3 DEF OthersStay
  <2>5. Exact' /\ Alive'
    <3>1. \A s \in Strings \ {} : Held(s)' = Held(s)
      BY <1>1, <1>2, <2>1, <2>2, <2>3, Unmoved
    <3> QED BY <1>2, <3>1, AsBefore DEF IInv
  <2>6. TypeOK'
    BY <1>2, <2>1, <2>2, <2>3 DEF IInv, TypeOK, BufferTypeOK, bufferVars
  <2>7. Placed(t)'
    BY <1>1, <1>2, <1>4, <2>1, <2>2, <2>3 DEF Placed, PcsOf, Reading, OwnOps
  <2>8. \A u \in Threads \ {t} : Placed(u)'
    BY <1>2, <2>4, OthersPlaced
  <2>10. Guarded'
    BY <1>1, <2>1, <2>2, <2>4, GuardedKept DEF Locked
  <2>11. Entered'
    BY <1>1, <1>2, <2>4, EnteredKept
  <2> QED BY <2>5, <2>6, <2>7, <2>8, <2>10, <2>11 DEF IInv
<1> QED BY <1>3, <1>4

(* An entry that is made has the empty string, and the lock is held.       *)
LEMMA FindOrMakeKeeps ==
  ASSUME IInv, NEW t \in Threads, FindOrMake(t)
  PROVE  IInv'
<1>1. /\ CallTyped /\ Placed(t) /\ about[t] \in Threads
      /\ pc[t] = "lookup" /\ op[t] = "setId" /\ guard = NoThread
      /\ t \in running
      /\ entries \in [Threads -> AllBuffers \cup {NoEntry}]
  BY DEF FindOrMake, At, IInv, TypeOK, CallTyped, Placed
<1>2. /\ running' = running /\ ready' = ready
      /\ selfOnly' = selfOnly /\ lives' = lives /\ platform' = platform
      /\ op' = op /\ about' = about /\ param' = param /\ guard' = t
      /\ invalid' \subseteq ready'
  BY DEF FindOrMake, threadVars, Inserted, IInv, TypeOK
<1>3. /\ entries' \in [Threads -> AllBuffers \cup {NoEntry}]
      /\ entries'[about[t]] = IF entries[about[t]] = NoEntry THEN nullstr
                              ELSE entries[about[t]]
      /\ \A i \in Threads \ {about[t]} : entries'[i] = entries[i]
  BY <1>1 DEF FindOrMake, AllBuffers
<1>4. entries'[about[t]] \in AllBuffers /\ entries'[about[t]] # NoEntry
  BY <1>1, <1>3, NamesAssumption DEF AllBuffers
<1>5. /\ pc' \in [Threads -> Pcs] /\ pc'[t] = "write"
      /\ \A u \in Threads \ {t} : pc'[u] = pc[u]
  BY <1>1, Went DEF FindOrMake, Pcs
<1>6. /\ ptr' \in [Threads -> AllBuffers \cup {NoEntry}]
      /\ ptr'[t] = entries'[about[t]]
      /\ \A u \in Threads \ {t} : ptr'[u] = ptr[u]
  BY <1>1, <1>4 DEF FindOrMake, CallTyped
<1>7. OthersStay(t)
  BY <1>2, <1>5, <1>6 DEF OthersStay
<1>8. BufferTypeOK' /\ Exact' /\ Alive'
  <2>1. CASE entries[about[t]] = NoEntry
    <3>1. AddRef(nullstr) /\ nullstr \in AllBuffers
      BY <2>1 DEF FindOrMake, AllBuffers
    <3>2. /\ Held(<<"entry", about[t]>>) = NoEntry
          /\ <<"entry", about[t]>> \in Strings
      BY <1>1, <2>1, HeldBy
    <3>3. \A i \in Threads : Held(<<"entry", i>>)' = entries'[i]
      BY HeldByNext
    <3>4. \A s \in Strings \ {<<"entry", about[t]>>} : Held(s)' = Held(s)
      BY <1>1, <1>2, <1>3, <1>5, <1>6, Unmoved
    <3>5. PICK i \in Threads : i = about[t]
      BY <1>1
    <3>6. /\ Held(<<"entry", i>>) = NoEntry /\ <<"entry", i>> \in Strings
          /\ Held(<<"entry", i>>)' = nullstr
          /\ \A s \in Strings \ {<<"entry", i>>} : Held(s)' = Held(s)
      BY <1>3, <2>1, <3>2, <3>3, <3>4, <3>5
    <3> QED BY <3>1, <3>6, Gained DEF IInv
  <2>2. CASE entries[about[t]] # NoEntry
    <3>1. UNCHANGED bufferVars
      BY <2>2 DEF FindOrMake
    <3>2. \A s \in Strings \ {} : Held(s)' = Held(s)
      BY <1>1, <1>2, <1>3, <1>5, <1>6, <2>2, Unmoved
    <3>3. Exact' /\ Alive'
      BY <3>1, <3>2, AsBefore DEF IInv
    <3> QED BY <3>1, <3>3 DEF IInv, TypeOK, BufferTypeOK, bufferVars
  <2> QED BY <2>1, <2>2
<1>9. TypeOK'
  BY <1>2, <1>3, <1>5, <1>6, <1>8 DEF IInv, TypeOK
<1>10. Placed(t)'
  BY <1>1, <1>2, <1>4, <1>5, <1>6 DEF Placed, PcsOf, Reading, OwnOps
<1>11. \A u \in Threads \ {t} : Placed(u)'
  <2>1. \A u \in Threads \ {t} :
          Reading(u) => entries'[about[u]] = entries[about[u]]
    BY <1>1, <1>3 DEF IInv, Placed, CallTyped
  <2> QED BY <1>2, <1>7, <2>1, OthersPlaced
<1>13. Guarded'
  BY <1>1, <1>2, <1>5, <1>7, GuardedKept DEF Locked
<1>14. Entered'
  <2>1. \A v \in ready' : entries'[v] # NoEntry /\ entries'[v] # nullstr
    BY <1>1, <1>2, <1>3, <1>4 DEF IInv, Entered, TypeOK
  <2>2. ASSUME NEW i \in Threads, entries'[i] = nullstr
        PROVE  \E v \in Threads :
                 op'[v] = "setId" /\ pc'[v] = "write" /\ about'[v] = i
    <3>1. CASE i = about[t]
      BY <1>1, <1>2, <1>5, <3>1
    <3>2. CASE i # about[t]
      <4>1. PICK v \in Threads :
              op[v] = "setId" /\ pc[v] = "write" /\ about[v] = i
        BY <1>3, <2>2, <3>2 DEF IInv, Entered
      <4> QED BY <1>1, <1>2, <1>5, <4>1
    <3> QED BY <3>1, <3>2
  <2> QED BY <2>1, <2>2 DEF Entered
<1> QED BY <1>8, <1>9, <1>10, <1>11, <1>13, <1>14 DEF IInv

LEMMA ExtractKeeps ==
  ASSUME IInv, NEW t \in Threads, Extract(t)
  PROVE  IInv'
<1>1. /\ CallTyped /\ Placed(t) /\ about[t] = t /\ t \in ready
      /\ pc[t] = "lookup" /\ op[t] = "exit" /\ guard = NoThread
      /\ param[t] = NoEntry
      /\ entries \in [Threads -> AllBuffers \cup {NoEntry}]
      /\ entries[t] \in AllBuffers /\ entries[t] # NoEntry
  <2>1. /\ CallTyped /\ Placed(t) /\ pc[t] = "lookup" /\ op[t] = "exit"
        /\ guard = NoThread
        /\ entries \in [Threads -> AllBuffers \cup {NoEntry}]
    BY DEF Extract, At, IInv, TypeOK, CallTyped
  <2>2. about[t] = t /\ t \in ready /\ param[t] = NoEntry
    BY <2>1 DEF Placed, OwnOps
  <2> QED BY <2>1, <2>2 DEF IInv, Entered
<1>2. /\ op' = op /\ about' = about /\ ptr' = ptr /\ guard' = guard
      /\ selfOnly' = selfOnly /\ lives' = lives /\ platform' = platform
      /\ running' = running \ {t} /\ ready' = ready \ {t}
      /\ invalid' \subseteq ready' /\ UNCHANGED bufferVars
  BY DEF Extract, IInv, TypeOK
<1>3. /\ entries' \in [Threads -> AllBuffers \cup {NoEntry}]
      /\ entries'[t] = NoEntry
      /\ \A i \in Threads \ {t} : entries'[i] = entries[i]
  BY <1>1 DEF Extract
<1>4. /\ param' \in [Threads -> AllBuffers \cup {NoEntry}]
      /\ param'[t] = entries[t]
      /\ \A u \in Threads \ {t} : param'[u] = param[u]
  BY <1>1 DEF Extract, CallTyped
<1>5. /\ pc' \in [Threads -> Pcs] /\ pc'[t] = "drop"
      /\ \A u \in Threads \ {t} : pc'[u] = pc[u]
  BY <1>1, Went DEF Extract, Pcs
<1>6. OthersStay(t)
  BY <1>2, <1>4, <1>5 DEF OthersStay
<1>7. Exact' /\ Alive'
  <2>1. /\ Held(<<"entry", t>>)' = Held(<<"param", t>>)
        /\ Held(<<"param", t>>)' = Held(<<"entry", t>>)
        /\ <<"entry", t>> \in Strings /\ <<"param", t>> \in Strings
    BY <1>1, <1>3, <1>4, HeldBy, HeldByNext
  <2>2. \A s \in Strings \ {<<"entry", t>>, <<"param", t>>} :
          Held(s)' = Held(s)
    BY <1>1, <1>2, <1>3, <1>4, <1>5, Unmoved
  <2> QED BY <1>2, <2>1, <2>2, Exchanged DEF IInv
<1>8. TypeOK'
  BY <1>2, <1>3, <1>4, <1>5 DEF IInv, TypeOK, BufferTypeOK, bufferVars
<1>9. Placed(t)'
  BY <1>1, <1>2, <1>4, <1>5 DEF Placed, PcsOf, Reading, OwnOps
<1>10. \A u \in Threads \ {t} : Placed(u)'
  <2>1. \A u \in Threads \ {t} :
          Reading(u) => entries'[about[u]] = entries[about[u]]
    <3>2. \A u \in Threads \ {t} : Reading(u) => about[u] # about[t]
      BY <1>1, NobodyElseReads
    <3> QED BY <1>1, <1>3, <3>2 DEF CallTyped
  <2> QED BY <1>2, <1>6, <2>1, OthersPlaced
<1>12. Guarded'
  BY <1>1, <1>2, <1>5, <1>6, GuardedKept DEF Locked
<1>13. Entered'
  <2>1. \A v \in ready' : entries'[v] # NoEntry /\ entries'[v] # nullstr
    BY <1>2, <1>3 DEF IInv, Entered, TypeOK
  <2>2. ASSUME NEW i \in Threads, entries'[i] = nullstr
        PROVE  \E v \in Threads :
                 op'[v] = "setId" /\ pc'[v] = "write" /\ about'[v] = i
    <3>1. entries[i] = nullstr
      BY <1>3, <2>2, NamesAssumption DEF AllBuffers
    <3>2. PICK v \in Threads :
            op[v] = "setId" /\ pc[v] = "write" /\ about[v] = i
      BY <3>1 DEF IInv, Entered
    <3> QED BY <1>1, <1>2, <1>5, <3>2
  <2> QED BY <2>1, <2>2 DEF Entered
<1> QED BY <1>7, <1>8, <1>9, <1>10, <1>12, <1>13 DEF IInv

(* The parameter and the entry exchange their buffers.                     *)
LEMMA SwapKeeps ==
  ASSUME IInv, ~ Overlap, NEW t \in Threads, Swap(t)
  PROVE  IInv'
<1>1. /\ CallTyped /\ Placed(t) /\ about[t] \in Threads
      /\ pc[t] = "write" /\ op[t] \in {"setOwn", "setId"}
      /\ param[t] \in Buffers /\ ptr[t] # NoEntry /\ ptr[t] \in AllBuffers
      /\ ptr[t] = entries[about[t]]
      /\ entries \in [Threads -> AllBuffers \cup {NoEntry}]
  <2>1. /\ CallTyped /\ Placed(t) /\ about[t] \in Threads /\ pc[t] = "write"
        /\ op[t] \in {"setOwn", "setId"}
        /\ entries \in [Threads -> AllBuffers \cup {NoEntry}]
    BY DEF Swap, At, IInv, TypeOK, CallTyped, Placed, PcsOf, Ops, OwnOps
  <2>2. param[t] \in Buffers /\ ptr[t] # NoEntry /\ ptr[t] = entries[about[t]]
    BY <2>1 DEF Placed, Reading
  <2> QED BY <2>1, <2>2
<1>2. /\ op' = op /\ about' = about /\ ptr' = ptr
      /\ guard' = IF op[t] = "setId" THEN NoThread ELSE guard
      /\ selfOnly' = selfOnly /\ lives' = lives /\ platform' = platform
      /\ running' = running /\ ready' = ready /\ UNCHANGED bufferVars
      /\ invalid' = invalid
  BY DEF Swap, threadVars
<1>3. /\ entries' \in [Threads -> AllBuffers \cup {NoEntry}]
      /\ entries'[about[t]] = param[t]
      /\ \A i \in Threads \ {about[t]} : entries'[i] = entries[i]
  BY <1>1 DEF Swap, AllBuffers
<1>4. /\ param' \in [Threads -> AllBuffers \cup {NoEntry}]
      /\ param'[t] = ptr[t]
      /\ \A u \in Threads \ {t} : param'[u] = param[u]
  BY <1>1 DEF Swap, CallTyped
<1>5. /\ pc' \in [Threads -> Pcs] /\ pc'[t] = "drop"
      /\ \A u \in Threads \ {t} : pc'[u] = pc[u]
  BY <1>1, Went DEF Swap, Pcs
<1>6. OthersStay(t)
  BY <1>2, <1>4, <1>5 DEF OthersStay
<1>7. Exact' /\ Alive'
  <2>1. PICK i \in Threads : i = about[t]
    BY <1>1
  <2>2. /\ Held(<<"entry", i>>)' = Held(<<"param", t>>)
        /\ Held(<<"param", t>>)' = Held(<<"entry", i>>)
        /\ <<"entry", i>> \in Strings /\ <<"param", t>> \in Strings
    BY <1>1, <1>3, <1>4, <2>1, HeldBy, HeldByNext
  <2>3. \A s \in Strings \ {<<"entry", i>>, <<"param", t>>} :
          Held(s)' = Held(s)
    BY <1>1, <1>2, <1>3, <1>4, <1>5, <2>1, Unmoved
  <2> QED BY <1>2, <2>2, <2>3, Exchanged DEF IInv
<1>8. TypeOK'
  <2>1. guard' \in Threads \cup {NoThread}
    BY <1>2 DEF IInv, TypeOK
  <2> QED BY <1>2, <1>3, <1>4, <1>5, <2>1
          DEF IInv, TypeOK, BufferTypeOK, bufferVars
<1>9. Placed(t)'
  BY <1>1, <1>2, <1>4, <1>5 DEF Placed, PcsOf, Reading, OwnOps
<1>10. \A u \in Threads \ {t} : Placed(u)'
  <2>1. \A u \in Threads \ {t} :
          Reading(u) => entries'[about[u]] = entries[about[u]]
    <3>2. \A u \in Threads \ {t} : Reading(u) => about[u] # about[t]
      BY <1>1, NobodyElseReads
    <3> QED BY <1>1, <1>3, <3>2 DEF CallTyped
  <2> QED BY <1>2, <1>6, <2>1, OthersPlaced
<1>12. Guarded'
  BY <1>1, <1>2, <1>5, <1>6, GuardedKept DEF Locked
<1>13. Entered'
  <2>1. \A v \in ready' : entries'[v] # NoEntry /\ entries'[v] # nullstr
    BY <1>1, <1>2, <1>3, NamesAssumption, BufferAssumption
       DEF IInv, Entered, TypeOK, AllBuffers
  <2>2. ASSUME NEW i \in Threads, entries'[i] = nullstr
        PROVE  \E v \in Threads :
                 op'[v] = "setId" /\ pc'[v] = "write" /\ about'[v] = i
    <3>1. i # about[t] /\ entries[i] = nullstr
      BY <1>1, <1>3, <2>2, BufferAssumption
    <3>2. PICK v \in Threads :
            op[v] = "setId" /\ pc[v] = "write" /\ about[v] = i
      BY <3>1 DEF IInv, Entered
    <3> QED BY <1>2, <1>5, <3>1, <3>2
  <2> QED BY <2>1, <2>2 DEF Entered
<1> QED BY <1>7, <1>8, <1>9, <1>10, <1>12, <1>13 DEF IInv

(* The entry still holds what is counted for the copy.                     *)
LEMMA AddKeeps ==
  ASSUME IInv, NEW t \in Threads, Add(t)
  PROVE  IInv'
<1>1. /\ CallTyped /\ Placed(t) /\ about[t] \in Threads
      /\ pc[t] = "add" /\ op[t] \in {"getOwn", "sync", "getId"}
      /\ ptr[t] # NoEntry /\ ptr[t] \in AllBuffers
      /\ ptr[t] = entries[about[t]]
  <2>1. /\ CallTyped /\ Placed(t) /\ about[t] \in Threads /\ pc[t] = "add"
        /\ op[t] \in {"getOwn", "sync", "getId"}
    BY DEF Add, At, IInv, TypeOK, CallTyped, Placed, PcsOf, Ops, OwnOps
  <2>2. ptr[t] # NoEntry /\ ptr[t] = entries[about[t]]
    BY <2>1 DEF Placed, Reading
  <2> QED BY <2>1, <2>2 DEF CallTyped
<1>2. /\ op' = op /\ about' = about /\ ptr' = ptr /\ param' = param
      /\ guard' = IF op[t] = "getId" THEN NoThread ELSE guard
      /\ selfOnly' = selfOnly /\ lives' = lives /\ platform' = platform
      /\ running' = running /\ ready' = ready /\ entries' = entries
      /\ invalid' = invalid
  BY DEF Add, threadVars
<1>3. /\ pc' \in [Threads -> Pcs] /\ pc'[t] = "return"
      /\ \A u \in Threads \ {t} : pc'[u] = pc[u]
  BY <1>1, Went DEF Add, Pcs
<1>4. OthersStay(t)
  BY <1>2, <1>3 DEF OthersStay
<1>5. BufferTypeOK' /\ Exact' /\ Alive'
  <2>1. PICK c \in AllBuffers : c = ptr[t]
    BY <1>1
  <2>2. AddRef(c)
    BY <2>1 DEF Add
  <2>3. Holding(c) # {}
    BY <1>1, <2>1, HeldBy DEF Holding
  <2>4. /\ Held(<<"node", t>>) = NoEntry /\ Held(<<"node", t>>)' = c
        /\ <<"node", t>> \in Strings
    BY <1>1, <1>2, <1>3, <2>1, HeldBy, HeldByNext
  <2>5. \A s \in Strings \ {<<"node", t>>} : Held(s)' = Held(s)
    BY <1>2, <1>3, Unmoved
  <2> QED BY <2>2, <2>3, <2>4, <2>5, Gained DEF IInv
<1>6. TypeOK'
  <2>1. guard' \in Threads \cup {NoThread}
    BY <1>2 DEF IInv, TypeOK
  <2> QED BY <1>2, <1>3, <1>5, <2>1 DEF IInv, TypeOK
<1>7. Placed(t)'
  BY <1>1, <1>2, <1>3 DEF Placed, PcsOf, Reading, OwnOps
<1>8. \A u \in Threads \ {t} : Placed(u)'
  BY <1>2, <1>4, OthersPlaced
<1>10. Guarded'
  BY <1>1, <1>2, <1>3, <1>4, GuardedKept DEF Locked
<1>11. Entered'
  BY <1>1, <1>2, <1>4, EnteredKept
<1> QED BY <1>5, <1>6, <1>7, <1>8, <1>10, <1>11 DEF IInv

(* The last step of a call drops the string that it still holds.           *)
LEMMA EndingKeeps ==
  ASSUME IInv, NEW t \in Threads,
         \/ Return(t)
         \/ Drop(t)
  PROVE  IInv'
<1>1. PICK k \in {"param", "node"}, c \in AllBuffers :
        /\ Held(<<k, t>>) = c /\ DropRef(c) /\ <<k, t>> \in Strings
        /\ k = "node" => param[t] = NoEntry
        /\ k = "param" => pc[t] \notin {"insert", "return"}
  <2>1. CASE Return(t)
    <3>1. /\ pc[t] = "return" /\ Placed(t) /\ DropRef(ptr[t])
          /\ ptr[t] \in AllBuffers \cup {NoEntry}
          /\ op[t] \in Ops
      BY <2>1 DEF Return, At, IInv, TypeOK
    <3>2. ptr[t] \in AllBuffers /\ param[t] = NoEntry
      BY <3>1 DEF Placed, PcsOf, Ops, OwnOps
    <3>3. Held(<<"node", t>>) = ptr[t] /\ <<"node", t>> \in Strings
      BY <3>1, HeldBy
    <3> QED BY <3>1, <3>2, <3>3
  <2>2. CASE Drop(t)
    <3>1. /\ pc[t] = "drop" /\ Placed(t) /\ DropRef(param[t])
          /\ param[t] \in AllBuffers \cup {NoEntry}
          /\ op[t] \in Ops
      BY <2>2 DEF Drop, At, IInv, TypeOK
    <3>2. param[t] \in AllBuffers
      BY <3>1 DEF Placed, PcsOf, Ops, OwnOps
    <3>3. Held(<<"param", t>>) = param[t] /\ <<"param", t>> \in Strings
      BY HeldBy
    <3> QED BY <3>1, <3>2, <3>3
  <2> QED BY <2>1, <2>2
<1>2. /\ entries' = entries /\ guard' = guard /\ invalid' = invalid
      /\ selfOnly' = selfOnly /\ lives' = lives
      /\ running' = running /\ ready' = ready
      /\ pc[t] \in {"return", "drop"} /\ Finish(t)
  BY DEF Return, Drop, At, threadVars, mapVars
<1>3. /\ CallTyped'
      /\ op'[t] = "none" /\ pc'[t] = "idle" /\ about'[t] = t
      /\ param'[t] = NoEntry /\ ptr'[t] = NoEntry
      /\ OthersStay(t)
  BY <1>2, Finished DEF IInv, TypeOK, CallTyped
<1>4. BufferTypeOK' /\ Exact' /\ Alive'
  <2>1. Held(<<k, t>>)' = NoEntry
    BY <1>3, HeldByNext
  <2>2. \A s \in Strings \ {<<k, t>>} : Held(s)' = Held(s)
    <3>1. CASE k = "param"
      BY <1>1, <1>2, <1>3, <3>1, Unmoved DEF OthersStay
    <3>2. CASE k = "node"
      BY <1>1, <1>2, <1>3, <3>2, Unmoved DEF OthersStay
    <3> QED BY <3>1, <3>2
  <2> QED BY <1>1, <2>1, <2>2, Lost DEF IInv
<1>5. TypeOK'
  <2>1. platform' \in [Threads -> Contents]
    <3>1. CASE Drop(t)
      BY <3>1 DEF Drop, IInv, TypeOK
    <3>2. CASE Return(t)
      <4>1. pc[t] = "return" /\ Placed(t)
        BY <3>2 DEF Return, At, IInv
      <4>2. ptr[t] \in AllBuffers
        BY <4>1 DEF IInv, TypeOK, Placed
      <4>3. content[ptr[t]] \in Contents
        BY <4>1, <4>2, HeldBy, HeldIsAlive DEF IInv
      <4>4. Cut[content[ptr[t]]] \in Contents
        BY <4>3, NamesAssumption
      <4> QED BY <3>2, <4>4 DEF Return, SetPlatform, IInv, TypeOK
    <3> QED BY <3>1, <3>2
  <2> QED BY <1>2, <1>3, <1>4, <2>1 DEF IInv, TypeOK, CallTyped
<1>6. Placed(t)'
  BY <1>3 DEF Placed, PcsOf, Reading, OwnOps
<1>7. \A u \in Threads \ {t} : Placed(u)'
  BY <1>2, <1>3, OthersPlaced
<1>9. Guarded'
  BY <1>2, <1>3, GuardedKept DEF Locked
<1>10. Entered'
  <2>1. ~ (op[t] = "setId" /\ pc[t] = "write")
    BY <1>2
  <2>2. OthersStay(t)
    BY <1>3
  <2> QED BY <1>2, <2>1, <2>2, EnteredKept
<1> QED BY <1>4, <1>5, <1>6, <1>7, <1>9, <1>10 DEF IInv

LEMMA StutterKeeps == ASSUME IInv, UNCHANGED vars PROVE IInv'
<1>1. /\ UNCHANGED <<bufferVars, threadVars, mapVars, platform>>
      /\ op' = op /\ pc' = pc /\ about' = about /\ param' = param /\ ptr' = ptr
  BY DEF vars, callVars
<1>2. \A s : Held(s)' = Held(s)
  BY <1>1 DEF Held, mapVars
<1>3. Exact' /\ Alive'
  BY <1>1, <1>2, AsBefore DEF IInv
<1>4. TypeOK'
  BY <1>1 DEF IInv, TypeOK, BufferTypeOK, bufferVars, threadVars, mapVars
<1>5. \A u \in Threads : Placed(u)'
  BY <1>1 DEF IInv, Placed, Reading, PcsOf, threadVars, mapVars
<1>6. Guarded' /\ Entered'
  BY <1>1 DEF IInv, Guarded, Entered, threadVars, mapVars
<1> QED BY <1>3, <1>4, <1>5, <1>6 DEF IInv

(* A step of t is one of its own call.                                     *)
LEMMA StepsAlone ==
  ASSUME IInv, NEW t \in Threads,
         StepOf(t)
  PROVE  OthersStay(t)
<1>1. CallTyped
  BY DEF IInv, TypeOK, CallTyped
<1>2. \A o, i, p : Call(t, o, i, p) =>
        \A u \in Threads \ {t} :
          op'[u] = op[u] /\ pc'[u] = pc[u] /\ about'[u] = about[u]
  BY <1>1 DEF Call, Goto, CallTyped
<1>3. Finish(t) => OthersStay(t)
  BY <1>1 DEF Finish, Goto, CallTyped, OthersStay
<1>4. \A p : Goto(t, p) => \A u \in Threads \ {t} : pc'[u] = pc[u]
  BY <1>1 DEF Goto, CallTyped
<1>5. CASE Start(t) \/ ExitUnnamed(t)
  BY <1>5 DEF Start, ExitUnnamed, callVars, OthersStay
<1>6. CASE Exit(t) \/ \E o \in {"getOwn", "sync"} : GetOwn(t, o)
  BY <1>2, <1>6 DEF Exit, GetOwn, OthersStay
<1>7. CASE \E n \in Names : SetOwn(t, n)
  BY <1>1, <1>2, <1>7 DEF SetOwn, CallTyped, OthersStay
<1>8. CASE \E i \in Threads : GetId(t, i) \/ \E n \in Names : SetId(t, i, n)
  BY <1>1, <1>2, <1>8 DEF GetId, SetId, CallTyped, OthersStay
<1>9. CASE Construct(t) \/ Insert(t) \/ Read(t)
  BY <1>1, <1>4, <1>9 DEF Construct, Insert, Read, CallTyped, OthersStay
<1>10. CASE Find(t) \/ FindOrMake(t)
  BY <1>1, <1>3, <1>4, <1>10 DEF Find, FindOrMake, CallTyped, OthersStay
<1>11. CASE Extract(t) \/ Swap(t) \/ Add(t)
  BY <1>1, <1>4, <1>11 DEF Extract, Swap, Add, CallTyped, OthersStay
<1>12. CASE Return(t) \/ Drop(t)
  BY <1>3, <1>12 DEF Return, Drop
<1> QED BY <1>5, <1>6, <1>7, <1>8, <1>9, <1>10, <1>11, <1>12
       DEF StepOf, Step

LEMMA StepKeeps ==
  ASSUME IInv, ~ Undefined, NEW t \in Threads, StepOf(t) PROVE IInv'
<1>1. ~ Overlap
  BY DEF Undefined
<1>2. CASE Step(t)
  BY <1>1, <1>2, ConstructKeeps, InsertKeeps, ReadKeeps, FindKeeps,
     FindOrMakeKeeps, ExtractKeeps, SwapKeeps, AddKeeps, EndingKeeps DEF Step
<1>3. CASE Start(t) \/ ExitUnnamed(t)
  BY <1>3, StartKeeps, ExitUnnamedKeeps
<1>4. CASE Exit(t) \/ \E o \in {"getOwn", "sync"} : GetOwn(t, o)
  BY <1>4, BeginningKeeps
<1>5. CASE \E n \in Names : SetOwn(t, n)
  BY <1>5, SettingKeeps
<1>6. CASE \E i \in Threads : GetId(t, i) \/ \E n \in Names : SetId(t, i, n)
  BY <1>6, BeginningKeeps, SettingKeeps
<1> QED BY <1>2, <1>3, <1>4, <1>5, <1>6 DEF StepOf

(* The only way to a result is a copy.                                     *)
LEMMA ResultsAreCopies ==
  ASSUME IInv, NEW t \in Threads, StepOf(t), pc'[t] = "return"
  PROVE  Add(t)
<1>1. CallTyped /\ Placed(t)
  BY DEF IInv, TypeOK, CallTyped
<1>2. \A o, i, p : Call(t, o, i, p) => pc'[t] = p
  BY <1>1 DEF Call, Goto, CallTyped
<1>3. \A p : Goto(t, p) => pc'[t] = p
  BY <1>1 DEF Goto, CallTyped
<1>4. CASE Start(t) \/ ExitUnnamed(t)
  BY <1>1, <1>4 DEF Start, ExitUnnamed, callVars, Placed, PcsOf
<1>5. CASE Exit(t) \/ \E o \in {"getOwn", "sync"} : GetOwn(t, o)
  BY <1>2, <1>5 DEF Exit, GetOwn, FirstStep
<1>6. CASE \E n \in Names : SetOwn(t, n)
  BY <1>2, <1>6 DEF SetOwn, FirstStep
<1>7. CASE \E i \in Threads : GetId(t, i) \/ \E n \in Names : SetId(t, i, n)
  BY <1>2, <1>7 DEF GetId, SetId
<1>8. CASE Construct(t) \/ Insert(t) \/ Read(t)
  BY <1>3, <1>8 DEF Construct, Insert, Read
<1>9. CASE Find(t) \/ FindOrMake(t)
  BY <1>3, <1>9 DEF Find, FindOrMake, Finish
<1>10. CASE Extract(t) \/ Swap(t)
  BY <1>3, <1>10 DEF Extract, Swap
<1>11. CASE Return(t) \/ Drop(t)
  BY <1>3, <1>11 DEF Return, Drop, Finish
<1> QED BY <1>4, <1>5, <1>6, <1>7, <1>8, <1>9, <1>10, <1>11 DEF StepOf, Step

LEMMA PublishedKept ==
  ASSUME IInv, Published, NEW t \in Threads, StepOf(t), Watch
  PROVE  Published'
<1> SUFFICES ASSUME NEW u \in Threads, op'[u] = "sync", pc'[u] = "return",
                    u \notin renamed'
             PROVE  ptr'[u] = entries'[u]
  BY DEF Published
<1>1. u \notin renamed /\ entries'[u] = entries[u]
  BY DEF Watch
<1>2. CASE u # t
  <2>1. op[u] = "sync" /\ pc[u] = "return" /\ ptr'[u] = ptr[u]
    BY <1>2, StepsAlone DEF OthersStay
  <2> QED BY <1>1, <2>1 DEF Published
<1>3. CASE u = t
  <2>1. Add(t)
    BY <1>3, ResultsAreCopies
  <2>2. ptr' = ptr /\ op' = op /\ pc[t] = "add" /\ Placed(t)
    BY <2>1 DEF Add, At, IInv
  <2> QED BY <1>1, <1>3, <2>2 DEF Placed, Reading, OwnOps
<1> QED BY <1>2, <1>3

(* What has been undefined stays so.                                       *)
LEMMA DefinedBefore ==
  ASSUME Sound, Next, ~ undefined'
  PROVE  ~ undefined /\ ~ Undefined' /\ IInv /\ Published /\ ~ Undefined
<1>1. ~ undefined /\ ~ Undefined'
  BY DEF Next, Watch, Sound, HistoryTypeOK
<1> QED BY <1>1 DEF Sound

(* Whatever calls overlap, names are set by id and threads end: as long as *)
(* no step lacks a defined meaning every pointer is counted, the strings   *)
(* that calls are about to swap or to copy are still those of their        *)
(* entries, and a thread that keeps an iterator has an entry               *)
(* (threading.cpp:36-77, 153-178).                                         *)
THEOREM Inductive == Spec => []Sound
<1>1. Init => Sound
  <2> SUFFICES ASSUME Init PROVE Sound
    OBVIOUS
  <2>1. IInv
    BY InitKeeps
  <2>2. HistoryTypeOK /\ Published
    BY DEF Init, HistoryTypeOK, Published
  <2>3. ~ Undefined
    BY DEF Init, Undefined, Overlap, UsesInvalid
  <2> QED BY <2>1, <2>2, <2>3 DEF Sound
<1>2. ASSUME Sound, Next PROVE Sound'
  <2>1. PICK t \in Threads : StepOf(t)
    BY <1>2 DEF Next
  <2>2. Watch
    BY <1>2 DEF Next
  <2>3. HistoryTypeOK'
    BY <1>2, <2>2 DEF Watch, Sound, HistoryTypeOK
  <2>4. ASSUME ~ undefined' PROVE IInv' /\ Published' /\ ~ Undefined'
    BY <1>2, <2>1, <2>2, <2>4, DefinedBefore, StepKeeps, PublishedKept
  <2> QED BY <2>3, <2>4 DEF Sound
<1>3. ASSUME Sound, UNCHANGED vars PROVE Sound'
  <2>1. /\ IInv => IInv'
        /\ undefined' = undefined /\ renamed' = renamed
    BY <1>3, StutterKeeps DEF vars, history
  <2>2. /\ op' = op /\ pc' = pc /\ about' = about /\ ptr' = ptr
        /\ entries' = entries /\ invalid' = invalid
    BY <1>3 DEF vars, callVars, mapVars
  <2>3. (Published' <=> Published) /\ (Undefined' <=> Undefined)
    BY <2>1, <2>2 DEF Published, Undefined, Overlap, UsesInvalid
  <2> QED BY <1>3, <2>1, <2>3 DEF Sound, HistoryTypeOK
<1> QED BY <1>1, <1>2, <1>3, PTL DEF Spec

(* As long as no step lacks a defined meaning, every variable keeps its    *)
(* type: no count becomes negative or wraps around, and no call copies or  *)
(* swaps through an entry that is not there (threading.cpp:153-178).       *)
THEOREM TypeCorrect == Spec => [](HistoryTypeOK /\ (~ undefined => TypeOK))
<1>1. Sound => HistoryTypeOK /\ (~ undefined => TypeOK)
  BY DEF Sound, IInv
<1> QED BY <1>1, Inductive, PTL

(* Whatever other threads do to the map, nobody uses a string or an entry  *)
(* that has been destroyed, unless two threads were in one string before,  *)
(* one of them swapping and one without the lock, or an iterator was used  *)
(* after a rehash (threading.cpp:36, 47-77, 153-168).                      *)
THEOREM NothingDangles == Spec => []NoDanglingName
<1>1. ASSUME IInv PROVE NoDanglingName
  <2>1. TypeOK /\ Alive /\ Entered /\ \A t \in Threads : Placed(t)
    BY <1>1 DEF IInv
  <2>2. ASSUME NEW i \in Threads, entries[i] # NoEntry
        PROVE  content[entries[i]] # Freed
    <3>1. entries[i] \in AllBuffers
      BY <2>1, <2>2 DEF TypeOK
    <3> QED BY <2>1, <3>1, HeldBy, HeldIsAlive
  <2>3. ASSUME NEW t \in Threads, param[t] # NoEntry
        PROVE  content[param[t]] # Freed
    <3>1. param[t] \in AllBuffers
      BY <2>1, <2>3 DEF TypeOK
    <3> QED BY <2>1, <3>1, HeldBy, HeldIsAlive
  <2>4. ASSUME NEW t \in Threads, pc[t] \in {"write", "add", "return"}
        PROVE  content[ptr[t]] # Freed
    <3>1. CASE pc[t] \in {"write", "add"}
      <4>1. ptr[t] = entries[about[t]] /\ ptr[t] # NoEntry
        BY <2>1, <3>1 DEF Placed, Reading
      <4>2. about[t] \in Threads
        BY <2>1 DEF TypeOK
      <4> QED BY <2>2, <4>1, <4>2
    <3>2. CASE pc[t] = "return"
      <4>1. ptr[t] \in AllBuffers
        BY <2>1, <3>2 DEF Placed, TypeOK
      <4> QED BY <2>1, <3>2, <4>1, HeldBy, HeldIsAlive
    <3> QED BY <2>4, <3>1, <3>2
  <2> QED BY <2>1, <2>2, <2>3, <2>4 DEF NoDanglingName, Entered
<1>2. Sound => NoDanglingName
  BY <1>1 DEF Sound, NoDanglingName
<1> QED BY <1>2, Inductive, PTL

(* When no call is in progress the entries hold all buffers there are, so  *)
(* that none is lost (threading.cpp:36-77, 153-168).                       *)
THEOREM NothingIsLost == Spec => []NoLostBuffer
<1>1. ASSUME IInv PROVE NoLostBuffer
  <2> SUFFICES ASSUME \A t \in Threads : op[t] = "none", NEW b \in Buffers
               PROVE  content[b] # Freed <=> \E i \in Threads : entries[i] = b
    BY DEF NoLostBuffer
  <2>1. \A t \in Threads : param[t] = NoEntry /\ pc[t] = "idle"
    BY <1>1 DEF IInv, Placed, PcsOf
  <2>2. content[b] # Freed <=> Holding(b) # {}
    BY <1>1 DEF IInv, Alive
  <2>3. b # NoEntry
    BY NamesAssumption DEF AllBuffers
  <2>4. ASSUME NEW s \in Strings, Held(s) = b
        PROVE  \E i \in Threads : entries[i] = b
    <3>1. PICK k \in {"entry", "param", "node"}, u \in Threads : s = <<k, u>>
      BY DEF Strings
    <3> QED BY <2>1, <2>3, <2>4, <3>1, HeldBy
  <2>5. ASSUME NEW i \in Threads, entries[i] = b PROVE Holding(b) # {}
    BY <2>5, HeldBy DEF Holding
  <2> QED BY <2>2, <2>4, <2>5 DEF Holding
<1>2. Sound => NoLostBuffer
  BY <1>1 DEF Sound, NoLostBuffer
<1> QED BY <1>2, Inductive, PTL

(* sync_thread_name() publishes the name that the thread has when it       *)
(* returns, unless another thread has replaced the name after it was read  *)
(* (threading.cpp:159-163, 175-178).                                       *)
THEOREM NamesArePublished == Spec => SyncPublishes
<1>1. ASSUME IInv, Published, Next, NEW t \in Threads,
             op[t] = "sync", op'[t] = "none", t \notin renamed
      PROVE  platform'[t] = Cut[NameOf(t)]
  <2>1. Return(t)
    <3>1. op'[t] # op[t] /\ Placed(t) /\ op \in [Threads -> Ops]
      BY <1>1 DEF IInv, TypeOK
    <3>2. pc[t] \in PcsOf("sync")
      BY <1>1, <3>1 DEF Placed
    <3>4. PICK u \in Threads : StepOf(u)
      BY <1>1 DEF Next
    <3>5. \A o, i, p : Call(u, o, i, p) => u # t /\ op' = [op EXCEPT ![u] = o]
      BY <1>1 DEF Call
    <3>6. Step(u)
      BY <1>1, <3>1, <3>4, <3>5 DEF StepOf, Start, Exit, ExitUnnamed, SetOwn, GetOwn,
                                    GetId, SetId, callVars
    <3>7. (Find(u) \/ Return(u) \/ Drop(u)) /\ Finish(u)
      BY <3>1, <3>6 DEF Step, Construct, Insert, Read, Find, FindOrMake,
                        Extract, Swap, Add, Return, Drop
    <3>8. u = t
      BY <1>1, <3>1, <3>7 DEF Finish
    <3> QED BY <1>1, <3>2, <3>7, <3>8 DEF Find, Drop, At, PcsOf
  <2>2. /\ pc[t] = "return" /\ Placed(t) /\ about[t] = t
        /\ ptr[t] = entries[t] /\ ptr[t] # NoEntry /\ t \in running
    <3>1. pc[t] = "return" /\ Placed(t)
      BY <1>1, <2>1 DEF Return, At, IInv
    <3>2. ptr[t] = entries[t]
      BY <1>1, <3>1 DEF Published
    <3> QED BY <1>1, <3>1, <3>2 DEF Placed, OwnOps
  <2>3. platform' = [platform EXCEPT ![t] = Cut[content[ptr[t]]]]
    BY <1>1, <2>1, <2>2 DEF Return, SetPlatform
  <2>4. platform \in [Threads -> Contents]
    BY <1>1 DEF IInv, TypeOK
  <2> QED BY <2>2, <2>3, <2>4 DEF NameOf
<1>2. Sound /\ [Next]_vars =>
        [\A t \in Threads :
           op[t] = "sync" /\ op'[t] = "none" /\ ~ undefined'
             => t \in renamed \/ platform'[t] = Cut[NameOf(t)]]_vars
  BY <1>1, DefinedBefore
<1> QED BY <1>2, Inductive, PTL DEF Spec, SyncPublishes

-----------------------------------------------------------------------------
(* The refinement of NameBoard.                                            *)

(* What the mapping shows of an entry and of a call.                       *)
EntryName(i) ==
  IF entries[i] \in {NoEntry, nullstr} THEN DefName ELSE content[entries[i]]

ShownAs(t) ==
  /\ op[t] = "none" =>
       ShownCall(t) = [do |-> "idle", id |-> t, name |-> NoEntry]
  /\ op[t] \in {"setOwn", "setId"} /\ pc[t] # "drop" =>
       ShownCall(t) =
         [do |-> "setting", id |-> about[t], name |-> content[param[t]]]
  /\ op[t] = "exit" /\ pc[t] # "drop" =>
       ShownCall(t) = [do |-> "ending", id |-> about[t], name |-> NoEntry]
  /\ op[t] \in {"getOwn", "sync", "getId"} /\ pc[t] \notin {"add", "return"} =>
       ShownCall(t) = [do |-> "getting", id |-> about[t], name |-> NoEntry]
  /\ pc[t] \in {"add", "return"} =>
       ShownCall(t) =
         [do |-> "done", id |-> about[t], name |-> content[ptr[t]]]
  /\ pc[t] = "drop" =>
       ShownCall(t) = [do |-> "done", id |-> about[t], name |-> NoEntry]

Shown ==
  /\ \A i \in Threads : ShownName(i) = EntryName(i)
  /\ \A t \in Threads : ShownAs(t)

(* What the mapping looks at is allocated.                                 *)
Readable ==
  /\ \A i \in Threads :
       entries[i] # NoEntry =>
         entries[i] \in AllBuffers /\ content[entries[i]] # Freed
  /\ \A t \in Threads :
       /\ op[t] \in {"setOwn", "setId"} /\ pc[t] # "drop" =>
            param[t] \in AllBuffers /\ content[param[t]] # Freed
       /\ pc[t] \in {"add", "return"} =>
            ptr[t] \in AllBuffers /\ content[ptr[t]] # Freed

LEMMA IsReadable == IInv => Readable
<1> SUFFICES ASSUME IInv PROVE Readable
  OBVIOUS
<1>1. TypeOK /\ Alive /\ \A t \in Threads : Placed(t)
  BY DEF IInv
<1>2. ASSUME NEW i \in Threads, entries[i] # NoEntry
      PROVE  entries[i] \in AllBuffers /\ content[entries[i]] # Freed
  <2>1. entries[i] \in AllBuffers
    BY <1>1, <1>2 DEF TypeOK
  <2> QED BY <1>1, <2>1, HeldBy, HeldIsAlive
<1>3. ASSUME NEW t \in Threads, op[t] \in {"setOwn", "setId"}, pc[t] # "drop"
      PROVE  param[t] \in AllBuffers /\ content[param[t]] # Freed
  <2>1. param[t] \in AllBuffers
    BY <1>1, <1>3 DEF Placed, AllBuffers
  <2> QED BY <1>1, <2>1, HeldBy, HeldIsAlive
<1>4. ASSUME NEW t \in Threads, pc[t] \in {"add", "return"}
      PROVE  ptr[t] \in AllBuffers /\ content[ptr[t]] # Freed
  <2>1. CASE pc[t] = "add"
    <3>1. ptr[t] = entries[about[t]] /\ ptr[t] # NoEntry
      BY <1>1, <2>1 DEF Placed, Reading
    <3>2. about[t] \in Threads
      BY <1>1 DEF TypeOK
    <3> QED BY <1>2, <3>1, <3>2
  <2>2. CASE pc[t] = "return"
    <3>1. ptr[t] \in AllBuffers
      BY <1>1, <2>2 DEF Placed, TypeOK
    <3> QED BY <1>1, <2>2, <3>1, HeldBy, HeldIsAlive
  <2> QED BY <1>4, <2>1, <2>2
<1> QED BY <1>2, <1>3, <1>4 DEF Readable

LEMMA IsReadableNext == IInv' => Readable'
BY IsReadable, PTL

LEMMA IsShown == IInv => Shown
<1> SUFFICES ASSUME IInv PROVE Shown
  OBVIOUS
<1>1. ASSUME NEW i \in Threads PROVE ShownName(i) = EntryName(i)
  <2>1. (\E t \in Threads : pc[t] = "write" /\ about[t] = i /\ ptr[t] = nullstr)
          <=> entries[i] = nullstr
    <3>1. ASSUME NEW t \in Threads, pc[t] = "write", about[t] = i,
                 ptr[t] = nullstr
          PROVE  entries[i] = nullstr
      BY <3>1 DEF IInv, Placed, Reading
    <3>2. ASSUME entries[i] = nullstr
          PROVE  \E t \in Threads :
                   pc[t] = "write" /\ about[t] = i /\ ptr[t] = nullstr
      <4>1. PICK t \in Threads :
              op[t] = "setId" /\ pc[t] = "write" /\ about[t] = i
        BY <3>2 DEF IInv, Entered
      <4>2. ptr[t] = nullstr
        BY <3>2, <4>1 DEF IInv, Placed, Reading
      <4> QED BY <4>1, <4>2
    <3> QED BY <3>1, <3>2
  <2> QED BY <2>1 DEF ShownName, NameOf, EntryName
<1>2. ASSUME NEW t \in Threads PROVE ShownAs(t)
  <2>1. pc[t] \in PcsOf(op[t]) /\ op[t] \in Ops
        /\ (op[t] = "none" => about[t] = t)
    BY DEF IInv, TypeOK, Placed
  <2>2. CASE op[t] = "none"
    BY <2>1, <2>2 DEF ShownAs, ShownCall, PcsOf
  <2>3. CASE op[t] \in {"setOwn", "setId"}
    <3>1. pc[t] \notin {"idle", "add", "return"}
      BY <2>1, <2>3 DEF PcsOf
    <3>2. CASE pc[t] = "drop"
      <4>1. op[t] # "none" /\ pc[t] \in {"add", "return", "drop"}
        BY <2>3, <3>2
      <4>2. /\ pc[t] \notin {"add", "return"}
            /\ ~ (op[t] \in {"setOwn", "setId"} /\ pc[t] # "drop")
        BY <3>1, <3>2
      <4>3. ShownCall(t) =
              [do |-> "done", id |-> about[t], name |-> NoEntry]
        BY <4>1, <4>2 DEF ShownCall
      <4> QED BY <2>3, <3>2, <4>3 DEF ShownAs
    <3>3. CASE pc[t] # "drop"
      BY <2>3, <3>1, <3>3 DEF ShownAs, ShownCall
    <3> QED BY <3>2, <3>3
  <2>4. CASE op[t] \in {"getOwn", "sync", "getId"}
    BY <2>1, <2>4 DEF ShownAs, ShownCall, PcsOf
  <2>5. CASE op[t] = "exit"
    <3>1. pc[t] \notin {"idle", "add", "return"}
      BY <2>1, <2>5 DEF PcsOf
    <3>2. CASE pc[t] = "drop"
      <4>1. op[t] # "none" /\ pc[t] \in {"add", "return", "drop"}
        BY <2>5, <3>2
      <4>2. /\ pc[t] \notin {"add", "return"}
            /\ ~ (op[t] \in {"setOwn", "setId"} /\ pc[t] # "drop")
        BY <3>1, <3>2
      <4>3. ShownCall(t) =
              [do |-> "done", id |-> about[t], name |-> NoEntry]
        BY <4>1, <4>2 DEF ShownCall
      <4> QED BY <2>5, <3>2, <4>3 DEF ShownAs
    <3>3. CASE pc[t] # "drop"
      BY <2>5, <3>1, <3>3 DEF ShownAs, ShownCall
    <3> QED BY <3>2, <3>3
  <2> QED BY <2>1, <2>2, <2>3, <2>4, <2>5 DEF Ops, OwnOps
<1> QED BY <1>1, <1>2 DEF Shown

LEMMA IsShownNext == IInv' => Shown'
BY IsShown, PTL

(* Characters are written only when a buffer is allocated.                 *)
LEMMA CharactersStay ==
  ASSUME IInv, NEW t \in Threads, StepOf(t)
  PROVE  \A b \in AllBuffers : content[b] # Freed /\ content'[b] # Freed
                                 => content'[b] = content[b]
<1>1. content \in [AllBuffers -> Contents \cup {Freed}]
  BY DEF IInv, TypeOK, BufferTypeOK
<1>2. \/ content' = content
      \/ \E c, n : Alloc(c, n)
      \/ \E c : DropRef(c)
  <2>2. CASE \/ Start(t) \/ Exit(t) \/ ExitUnnamed(t)
             \/ \E o \in {"getOwn", "sync"} : GetOwn(t, o)
    BY <2>2 DEF Start, Exit, ExitUnnamed, GetOwn, bufferVars
  <2>3. CASE \E n \in Names : SetOwn(t, n)
    BY <2>3 DEF SetOwn
  <2>4. CASE \E i \in Threads : GetId(t, i) \/ \E n \in Names : SetId(t, i, n)
    BY <2>4 DEF GetId, SetId, bufferVars
  <2>5. CASE Step(t)
    <3>1. CASE Construct(t)
      BY <3>1 DEF Construct
    <3>2. CASE Insert(t)
      BY <3>2 DEF Insert, bufferVars
    <3>3. CASE Read(t) \/ Find(t)
      BY <3>3 DEF Read, Find, bufferVars
    <3>4. CASE FindOrMake(t) \/ Add(t)
      BY <3>4 DEF FindOrMake, Add, AddRef, bufferVars
    <3>5. CASE Extract(t) \/ Swap(t)
      BY <3>5 DEF Extract, Swap, bufferVars
    <3>6. CASE Return(t) \/ Drop(t)
      BY <3>6 DEF Return, Drop
    <3> QED BY <2>5, <3>1, <3>2, <3>3, <3>4, <3>5, <3>6 DEF Step
  <2> QED BY <2>2, <2>3, <2>4, <2>5 DEF StepOf
<1>3. CASE content' = content
  BY <1>3
<1>4. CASE \E c, n : Alloc(c, n)
  BY <1>1, <1>4 DEF Alloc
<1>5. CASE \E c : DropRef(c)
  BY <1>1, <1>5 DEF DropRef
<1> QED BY <1>2, <1>3, <1>4, <1>5

(* So a step of t changes what is shown of its call and of entries that it *)
(* changes.                                                                *)
LEMMA OthersLookTheSame ==
  ASSUME IInv, IInv', NEW t \in Threads, StepOf(t), OthersStay(t)
  PROVE  /\ \A u \in Threads \ {t} : ShownCall(u)' = ShownCall(u)
         /\ \A i \in Threads : entries'[i] = entries[i] =>
              ShownName(i)' = ShownName(i)
         /\ \A u \in Threads :
              /\ op[u] \in {"setOwn", "setId"} /\ pc[u] # "drop"
              /\ op'[u] = op[u] /\ pc'[u] # "drop" /\ param'[u] = param[u]
              => content'[param'[u]] = content[param[u]]
         /\ \A u \in Threads :
              /\ pc[u] \in {"add", "return"} /\ pc'[u] \in {"add", "return"}
              /\ ptr'[u] = ptr[u]
              => content'[ptr'[u]] = content[ptr[u]]
         /\ \A i \in Threads :
              entries[i] # NoEntry /\ entries'[i] = entries[i] =>
                content'[entries'[i]] = content[entries[i]]
<1>1. Readable /\ Readable' /\ Shown /\ Shown'
  BY IsReadable, IsReadableNext, IsShown, IsShownNext
<1>2. ASSUME NEW u \in Threads,
             op[u] \in {"setOwn", "setId"}, pc[u] # "drop",
             op'[u] = op[u], pc'[u] # "drop", param'[u] = param[u]
      PROVE  content'[param'[u]] = content[param[u]]
  BY <1>1, <1>2, CharactersStay DEF Readable
<1>3. ASSUME NEW u \in Threads,
             pc[u] \in {"add", "return"}, pc'[u] \in {"add", "return"},
             ptr'[u] = ptr[u]
      PROVE  content'[ptr'[u]] = content[ptr[u]]
  BY <1>1, <1>3, CharactersStay DEF Readable
<1>4. ASSUME NEW i \in Threads, entries[i] # NoEntry, entries'[i] = entries[i]
      PROVE  content'[entries'[i]] = content[entries[i]]
  BY <1>1, <1>4, CharactersStay DEF Readable
<1>5. ASSUME NEW i \in Threads, entries'[i] = entries[i]
      PROVE  ShownName(i)' = ShownName(i)
  BY <1>1, <1>4, <1>5 DEF Shown, EntryName
<1>6. ASSUME NEW u \in Threads \ {t}
      PROVE  ShownCall(u)' = ShownCall(u)
  <2>1. /\ op'[u] = op[u] /\ pc'[u] = pc[u] /\ about'[u] = about[u]
        /\ param'[u] = param[u] /\ ptr'[u] = ptr[u]
    BY DEF OthersStay
  <2>2. /\ ShownAs(u) /\ ShownAs(u)' /\ op[u] \in Ops
        /\ pc[u] \in PcsOf(op[u])
    BY <1>1 DEF Shown, IInv, TypeOK, Placed
  <2>3. CASE op[u] \in {"none", "exit"}
    BY <2>1, <2>2, <2>3 DEF ShownAs, PcsOf
  <2>4. CASE op[u] \in {"setOwn", "setId"}
    <3>1. CASE pc[u] = "drop"
      BY <2>1, <2>2, <2>4, <3>1 DEF ShownAs
    <3>2. CASE pc[u] # "drop"
      BY <1>2, <2>1, <2>2, <2>4, <3>2 DEF ShownAs
    <3> QED BY <3>1, <3>2
  <2>5. CASE op[u] \in {"getOwn", "sync", "getId"}
    <3>1. CASE pc[u] \in {"add", "return"}
      BY <1>3, <2>1, <2>2, <3>1 DEF ShownAs
    <3>2. CASE pc[u] \notin {"add", "return"}
      BY <2>1, <2>2, <2>5, <3>2 DEF ShownAs
    <3> QED BY <3>1, <3>2
  <2> QED BY <2>2, <2>3, <2>4, <2>5 DEF Ops, OwnOps
<1> QED BY <1>2, <1>3, <1>4, <1>5, <1>6

-----------------------------------------------------------------------------
(* What is shown before and after determines the step of the board.        *)

LEMMA MapsToNothing ==
  ASSUME \A u \in Threads : ShownCall(u)' = ShownCall(u),
         \A i \in Threads : ShownName(i)' = ShownName(i),
         ready' = ready
  PROVE  UNCHANGED Board!boardVars
BY DEF Board!boardVars

LEMMA Becomes ==
  ASSUME NEW t \in Threads, NEW c, ShownCall(t)' = c,
         \A u \in Threads \ {t} : ShownCall(u)' = ShownCall(u)
  PROVE  [u \in Threads |-> ShownCall(u)]' =
           [[u \in Threads |-> ShownCall(u)] EXCEPT ![t] = c]
OBVIOUS

LEMMA MapsToCall ==
  ASSUME NEW t \in Threads, NEW i \in Threads, NEW n \in Contents,
         NEW c,
         ShownCall(t) = [do |-> "idle", id |-> t, name |-> NoEntry],
         ShownCall(t)' = c,
         \A u \in Threads \ {t} : ShownCall(u)' = ShownCall(u),
         \A j \in Threads : ShownName(j)' = ShownName(j),
         ready' = ready
  PROVE  /\ c = [do |-> "setting", id |-> i, name |-> n]
              => Board!CallSet(t, i, n)
         /\ c = [do |-> "getting", id |-> i, name |-> NoEntry]
              => Board!CallGet(t, i)
         /\ c = [do |-> "ending", id |-> t, name |-> NoEntry] /\ t \in ready
              => Board!CallEnd(t)
<1>1. [u \in Threads |-> ShownCall(u)]' =
        [[u \in Threads |-> ShownCall(u)] EXCEPT ![t] = c]
  BY Becomes
<1>2. /\ [u \in Threads |-> ShownCall(u)][t].do = "idle"
      /\ [j \in Threads |-> ShownName(j)]' = [j \in Threads |-> ShownName(j)]
  OBVIOUS
<1>3. CASE c = [do |-> "setting", id |-> i, name |-> n]
  BY <1>1, <1>2, <1>3 DEF Board!CallSet, Board!Become
<1>4. CASE c = [do |-> "getting", id |-> i, name |-> NoEntry]
  BY <1>1, <1>2, <1>4 DEF Board!CallGet, Board!Become
<1>5. CASE c = [do |-> "ending", id |-> t, name |-> NoEntry] /\ t \in ready
  BY <1>1, <1>2, <1>5 DEF Board!CallEnd, Board!Become
<1> QED BY <1>3, <1>4, <1>5

LEMMA Renames ==
  ASSUME NEW i \in Threads, NEW n, ShownName(i)' = n,
         \A j \in Threads \ {i} : ShownName(j)' = ShownName(j)
  PROVE  [j \in Threads |-> ShownName(j)]' =
           [[j \in Threads |-> ShownName(j)] EXCEPT ![i] = n]
OBVIOUS

LEMMA MapsToSet ==
  ASSUME NEW t \in Threads, NEW i \in Threads, NEW n,
         ShownCall(t) = [do |-> "setting", id |-> i, name |-> n],
         ShownCall(t)' = [do |-> "done", id |-> i, name |-> NoEntry],
         \A u \in Threads \ {t} : ShownCall(u)' = ShownCall(u),
         ShownName(i)' = n,
         \A j \in Threads \ {i} : ShownName(j)' = ShownName(j),
         ready' = ready
  PROVE  Board!Set(t)
<1> DEFINE c == [do |-> "setting", id |-> i, name |-> n]
           F == [u \in Threads |-> ShownCall(u)]
<1>2. F' = [F EXCEPT ![t] = [do |-> "done", id |-> i, name |-> NoEntry]]
  BY Becomes
<1>3. F[t] = c
  OBVIOUS
<1>4. c.do = "setting" /\ c.id = i /\ c.name = n
  OBVIOUS
<1> HIDE DEF c, F
<1> QED BY <1>2, <1>3, <1>4, Renames DEF Board!Set, Board!Done, Board!Become, F

LEMMA MapsToGet ==
  ASSUME NEW t \in Threads, NEW i \in Threads,
         ShownCall(t) = [do |-> "getting", id |-> i, name |-> NoEntry],
         ShownCall(t)' = [do |-> "done", id |-> i, name |-> ShownName(i)],
         \A u \in Threads \ {t} : ShownCall(u)' = ShownCall(u),
         \A j \in Threads : ShownName(j)' = ShownName(j),
         ready' = ready
  PROVE  Board!Get(t)
<1> DEFINE c == [do |-> "getting", id |-> i, name |-> NoEntry]
           n == ShownName(i)
           F == [u \in Threads |-> ShownCall(u)]
<1>2. F' = [F EXCEPT ![t] = [do |-> "done", id |-> i, name |-> n]]
  BY Becomes
<1>3. F[t] = c
  OBVIOUS
<1>4. c.do = "getting" /\ c.id = i
  OBVIOUS
<1>5. [j \in Threads |-> ShownName(j)]' = [j \in Threads |-> ShownName(j)]
  OBVIOUS
<1>6. [j \in Threads |-> ShownName(j)][i] = n
  OBVIOUS
<1> HIDE DEF c, n, F
<1> QED BY <1>2, <1>3, <1>4, <1>5, <1>6
       DEF Board!Get, Board!Done, Board!Become, F

LEMMA MapsToEnd ==
  ASSUME NEW t \in Threads,
         ShownCall(t) = [do |-> "ending", id |-> t, name |-> NoEntry],
         ShownCall(t)' = [do |-> "done", id |-> t, name |-> NoEntry],
         \A u \in Threads \ {t} : ShownCall(u)' = ShownCall(u),
         ShownName(t)' = DefName,
         \A j \in Threads \ {t} : ShownName(j)' = ShownName(j),
         ready' = ready \ {t}
  PROVE  Board!End(t)
<1> DEFINE c == [do |-> "ending", id |-> t, name |-> NoEntry]
           F == [u \in Threads |-> ShownCall(u)]
<1>2. F' = [F EXCEPT ![t] = [do |-> "done", id |-> t, name |-> NoEntry]]
  BY Becomes
<1>3. F[t] = c
  OBVIOUS
<1>4. c.do = "ending" /\ c.id = t
  OBVIOUS
<1> HIDE DEF c, F
<1> QED BY <1>2, <1>3, <1>4, Renames DEF Board!End, Board!Done, Board!Become, F

LEMMA MapsToIntroduce ==
  ASSUME NEW t \in Threads, t \notin ready, ready' = ready \cup {t},
         ShownCall(t).do \in {"setting", "getting"}, ShownCall(t).id = t,
         \A u \in Threads : ShownCall(u)' = ShownCall(u),
         \A j \in Threads \ {t} : ShownName(j)' = ShownName(j),
         \/ ShownName(t)' = ShownName(t)
         \/ ShownName(t) = DefName /\ ShownName(t)' \in Contents
  PROVE  Board!Introduce(t)
<1>1. CASE ShownName(t)' = ShownName(t)
  BY <1>1 DEF Board!Introduce
<1>2. CASE ShownName(t) = DefName /\ ShownName(t)' \in Contents
  <2>1. PICK n \in Contents : n = ShownName(t)'
    BY <1>2
  <2>2. [i \in Threads |-> ShownName(i)]' =
          [[i \in Threads |-> ShownName(i)] EXCEPT ![t] = n]
    BY <2>1
  <2>3. [u \in Threads |-> ShownCall(u)]' = [u \in Threads |-> ShownCall(u)]
    OBVIOUS
  <2> QED BY <1>2, <2>2, <2>3 DEF Board!Introduce
<1> QED BY <1>1, <1>2

LEMMA MapsToReturn ==
  ASSUME NEW t \in Threads,
         \/ ShownCall(t).do = "done"
         \/ /\ ShownCall(t).do = "getting" /\ ShownCall(t).id \in Threads
            /\ ShownName(ShownCall(t).id) = DefName,
         ShownCall(t)' = [do |-> "idle", id |-> t, name |-> NoEntry],
         \A u \in Threads \ {t} : ShownCall(u)' = ShownCall(u),
         \A j \in Threads : ShownName(j)' = ShownName(j),
         ready' = ready
  PROVE  Board!Return(t)
<1>1. [u \in Threads |-> ShownCall(u)]' =
        [[u \in Threads |-> ShownCall(u)] EXCEPT
           ![t] = [do |-> "idle", id |-> t, name |-> NoEntry]]
  BY Becomes
<1>2. /\ [j \in Threads |-> ShownName(j)]' = [j \in Threads |-> ShownName(j)]
      /\ [u \in Threads |-> ShownCall(u)][t] = ShownCall(t)
  OBVIOUS
<1>3. CASE ShownCall(t).do = "done"
  BY <1>1, <1>2, <1>3 DEF Board!Return, Board!Become, Board!Idle
<1>4. CASE /\ ShownCall(t).do = "getting" /\ ShownCall(t).id \in Threads
           /\ ShownName(ShownCall(t).id) = DefName
  BY <1>1, <1>2, <1>4 DEF Board!Return, Board!Become, Board!Idle
<1> QED BY <1>3, <1>4

(* What is known of any step of t.                                         *)
LEMMA Looks ==
  ASSUME IInv, IInv', NEW t \in Threads, StepOf(t)
  PROVE  /\ \A u \in Threads \ {t} : ShownCall(u)' = ShownCall(u)
         /\ \A i \in Threads : entries'[i] = entries[i] =>
              ShownName(i)' = ShownName(i)
         /\ ShownAs(t) /\ ShownAs(t)'
         /\ op[t] \in {"setOwn", "setId"} /\ pc[t] # "drop"
              /\ op'[t] = op[t] /\ pc'[t] # "drop" /\ param'[t] = param[t]
              => content'[param'[t]] = content[param[t]]
         /\ pc[t] \in {"add", "return"} /\ pc'[t] \in {"add", "return"}
              /\ ptr'[t] = ptr[t]
              => content'[ptr'[t]] = content[ptr[t]]
<1>1. OthersStay(t)
  BY StepsAlone
<1>2. Shown /\ Shown'
  BY IsShown, IsShownNext
<1>3. ShownAs(t) /\ ShownAs(t)'
  BY <1>2 DEF Shown
<1> QED BY <1>1, <1>3, OthersLookTheSame

LEMMA CallTypes ==
  ASSUME IInv, NEW t \in Threads
  PROVE  /\ CallTyped /\ Placed(t) /\ about[t] \in Threads
         /\ pc[t] \in PcsOf(op[t]) /\ op[t] \in Ops
         /\ entries \in [Threads -> AllBuffers \cup {NoEntry}]
         /\ op[t] \in OwnOps => about[t] = t
BY DEF IInv, TypeOK, CallTyped, Placed

LEMMA RefinesBeginning ==
  ASSUME IInv, IInv', NEW t \in Threads,
         \/ \E n \in Names : SetOwn(t, n)
         \/ \E o \in {"getOwn", "sync"} : GetOwn(t, o)
         \/ \E i \in Threads : GetId(t, i) \/ \E n \in Names : SetId(t, i, n)
         \/ Exit(t)
  PROVE  Board!BoardNext
<1>1. /\ \A u \in Threads \ {t} : ShownCall(u)' = ShownCall(u)
      /\ \A i \in Threads : entries'[i] = entries[i] =>
           ShownName(i)' = ShownName(i)
      /\ ShownAs(t) /\ ShownAs(t)'
  BY Looks DEF StepOf
<1>2. /\ entries' = entries /\ ready' = ready /\ op[t] = "none"
  BY DEF SetOwn, GetOwn, GetId, SetId, Exit, Call, threadVars, mapVars
<1>3. ShownCall(t) = [do |-> "idle", id |-> t, name |-> NoEntry]
  BY <1>1, <1>2 DEF ShownAs
<1>4. \A j \in Threads : ShownName(j)' = ShownName(j)
  BY <1>1, <1>2
<1>5. CallTyped
  BY CallTypes
<1>6. CASE \E i \in Threads, n \in Names :
             \/ i = t /\ SetOwn(t, n)
             \/ SetId(t, i, n)
  <2>1. PICK i \in Threads, n \in Names, o \in {"setOwn", "setId"},
             p \in {"construct", "read", "lookup"}, b \in Buffers :
          Call(t, o, i, p) /\ Alloc(b, n) /\ param' = [param EXCEPT ![t] = b]
    BY <1>6 DEF SetOwn, SetId, FirstStep
  <2>2. o \in Ops /\ p \in Pcs /\ n \in Contents
    BY NamesAssumption DEF Ops, OwnOps, Pcs
  <2>3. op'[t] = o /\ pc'[t] = p /\ about'[t] = i
    BY <1>5, <2>1, <2>2, Called
  <2>4. param'[t] = b
    BY <1>5, <2>1 DEF CallTyped
  <2>5. content'[b] = n
    BY <2>1 DEF Alloc, IInv, TypeOK, BufferTypeOK, AllBuffers
  <2>6. ShownCall(t)' = [do |-> "setting", id |-> i, name |-> n]
    BY <1>1, <2>3, <2>4, <2>5 DEF ShownAs
  <2>7. Board!CallSet(t, i, n)
    BY <1>1, <1>2, <1>3, <1>4, <2>2, <2>6, MapsToCall
  <2> QED BY <2>2, <2>7 DEF Board!BoardNext
<1>7. CASE \E i \in Threads :
             \/ i = t /\ \E o \in {"getOwn", "sync"} : GetOwn(t, o)
             \/ GetId(t, i)
  <2>1. PICK i \in Threads, o \in {"getOwn", "sync", "getId"},
             p \in {"construct", "read", "lookup"} : Call(t, o, i, p)
    BY <1>7 DEF GetOwn, GetId, FirstStep
  <2>2. o \in Ops /\ p \in Pcs /\ DefName \in Contents
    BY NamesAssumption DEF Ops, OwnOps, Pcs
  <2>3. op'[t] = o /\ pc'[t] = p /\ about'[t] = i
    BY <1>5, <2>1, <2>2, Called
  <2>4. ShownCall(t)' = [do |-> "getting", id |-> i, name |-> NoEntry]
    BY <1>1, <2>3 DEF ShownAs
  <2>5. Board!CallGet(t, i)
    BY <1>1, <1>2, <1>3, <1>4, <2>2, <2>4, MapsToCall
  <2> QED BY <2>5 DEF Board!BoardNext
<1>8. CASE Exit(t)
  <2>1. Call(t, "exit", t, "lookup") /\ t \in ready
    BY <1>8 DEF Exit
  <2>2. "exit" \in Ops /\ "lookup" \in Pcs /\ DefName \in Contents
    BY NamesAssumption DEF Ops, OwnOps, Pcs
  <2>3. op'[t] = "exit" /\ pc'[t] = "lookup" /\ about'[t] = t
    BY <1>5, <2>1, <2>2, Called
  <2>4. ShownCall(t)' = [do |-> "ending", id |-> t, name |-> NoEntry]
    BY <1>1, <2>3 DEF ShownAs
  <2>5. Board!CallEnd(t)
    BY <1>1, <1>2, <1>3, <1>4, <2>1, <2>2, <2>4, MapsToCall
  <2> QED BY <2>5 DEF Board!BoardNext
<1> QED BY <1>6, <1>7, <1>8

(* Steps that the board does not show.                                     *)
LEMMA RefinesQuiet ==
  ASSUME IInv, IInv', NEW t \in Threads,
         \/ Start(t) \/ ExitUnnamed(t) \/ Construct(t) \/ Add(t)
         \/ Read(t) /\ op[t] = "setOwn"
         \/ FindOrMake(t)
  PROVE  UNCHANGED Board!boardVars
<1>1. /\ \A u \in Threads \ {t} : ShownCall(u)' = ShownCall(u)
      /\ \A i \in Threads : entries'[i] = entries[i] =>
           ShownName(i)' = ShownName(i)
      /\ ShownAs(t) /\ ShownAs(t)'
      /\ op[t] \in {"setOwn", "setId"} /\ pc[t] # "drop"
           /\ op'[t] = op[t] /\ pc'[t] # "drop" /\ param'[t] = param[t]
           => content'[param'[t]] = content[param[t]]
      /\ pc[t] \in {"add", "return"} /\ pc'[t] \in {"add", "return"}
           /\ ptr'[t] = ptr[t]
           => content'[ptr'[t]] = content[ptr[t]]
  BY Looks DEF StepOf, Step
<1>2. /\ CallTyped /\ about[t] \in Threads /\ pc[t] \in PcsOf(op[t])
      /\ op[t] \in Ops
      /\ entries \in [Threads -> AllBuffers \cup {NoEntry}]
  BY CallTypes
<1>3. ready' = ready /\ op' = op /\ about' = about /\ param' = param
  BY DEF Start, ExitUnnamed, Construct, Add, Read, FindOrMake, threadVars,
         callVars
<1>4. \A i \in Threads : ShownName(i)' = ShownName(i)
  <2>1. CASE entries' = entries
    BY <1>1, <2>1
  <2>2. CASE FindOrMake(t) /\ entries[about[t]] = NoEntry
    <3>1. entries' = [entries EXCEPT ![about[t]] = nullstr]
      BY <2>2 DEF FindOrMake
    <3>2. PICK i \in Threads : i = about[t]
      BY <1>2
    <3>3. EntryName(i) = DefName /\ EntryName(i)' = DefName
      BY <1>2, <2>2, <3>1, <3>2 DEF EntryName
    <3>4. ShownName(i)' = ShownName(i)
      BY <3>3, IsShown, IsShownNext DEF Shown
    <3>5. \A j \in Threads \ {i} : entries'[j] = entries[j]
      BY <1>2, <3>1, <3>2
    <3> QED BY <1>1, <3>4, <3>5
  <2> QED BY <2>1, <2>2 DEF Start, ExitUnnamed, Construct, Add, Read,
                            FindOrMake, mapVars
<1>5. ShownCall(t)' = ShownCall(t)
  <2>1. CASE Start(t) \/ ExitUnnamed(t)
    BY <1>1, <1>3, <2>1 DEF Start, ExitUnnamed, ShownAs
  <2>2. CASE Construct(t) \/ (Read(t) /\ op[t] = "setOwn") \/ FindOrMake(t)
    <3>1. /\ pc[t] \in {"construct", "read", "lookup"}
          /\ pc'[t] \in {"insert", "write"}
      BY <1>2, <2>2 DEF Construct, Read, FindOrMake, At, Goto, CallTyped
    <3>2. CASE op[t] \in {"setOwn", "setId"}
      BY <1>1, <1>3, <3>1, <3>2 DEF ShownAs
    <3>3. CASE op[t] \in {"getOwn", "sync"}
      BY <1>1, <1>3, <3>1, <3>3 DEF ShownAs
    <3>4. op[t] \in {"setOwn", "setId", "getOwn", "sync"}
      BY <1>2, <2>2 DEF Construct, Read, FindOrMake, At, PcsOf, Ops, OwnOps
    <3> QED BY <3>2, <3>3, <3>4
  <2>3. CASE Add(t)
    <3>1. pc[t] = "add" /\ pc'[t] = "return" /\ ptr' = ptr
      BY <1>2, <2>3 DEF Add, At, Goto, CallTyped
    <3> QED BY <1>1, <1>3, <3>1 DEF ShownAs
  <2> QED BY <2>1, <2>2, <2>3
<1> QED BY <1>1, <1>3, <1>4, <1>5, MapsToNothing

(* The name of the platform becomes that of the thread, unless somebody    *)
(* has named it before.                                                    *)
LEMMA RefinesIntroduce ==
  ASSUME IInv, IInv', NEW t \in Threads, Insert(t)
  PROVE  Board!BoardNext
<1>1. /\ \A u \in Threads \ {t} : ShownCall(u)' = ShownCall(u)
      /\ \A i \in Threads : entries'[i] = entries[i] =>
           ShownName(i)' = ShownName(i)
      /\ ShownAs(t) /\ ShownAs(t)'
      /\ op[t] \in {"setOwn", "setId"} /\ pc[t] # "drop"
           /\ op'[t] = op[t] /\ pc'[t] # "drop" /\ param'[t] = param[t]
           => content'[param'[t]] = content[param[t]]
  BY Looks DEF StepOf, Step
<1>2. /\ CallTyped /\ Placed(t) /\ pc[t] = "insert"
      /\ op[t] \in {"setOwn", "getOwn", "sync"}
      /\ entries \in [Threads -> AllBuffers \cup {NoEntry}]
  BY CallTypes DEF Insert, At, PcsOf, Ops, OwnOps
<1>3. about[t] = t /\ t \notin ready /\ ptr[t] \in Buffers
  BY <1>2 DEF Placed, OwnOps
<1>4. /\ ready' = ready \cup {t} /\ op' = op /\ about' = about
      /\ param' = param /\ pc'[t] = "read"
      /\ \A j \in Threads \ {t} : entries'[j] = entries[j]
  BY <1>2 DEF Insert, Goto, CallTyped
<1>5. \A j \in Threads \ {t} : ShownName(j)' = ShownName(j)
  BY <1>1, <1>4
<1>6. \A u \in Threads : ShownCall(u)' = ShownCall(u)
  <2>1. CASE op[t] = "setOwn"
    BY <1>1, <1>2, <1>4, <2>1 DEF ShownAs
  <2>2. CASE op[t] \in {"getOwn", "sync"}
    BY <1>1, <1>2, <1>4, <2>2 DEF ShownAs
  <2> QED BY <1>1, <1>2, <2>1, <2>2
<1>7. ShownCall(t).do \in {"setting", "getting"} /\ ShownCall(t).id = t
  <2>1. CASE op[t] = "setOwn"
    BY <1>1, <1>2, <1>3, <2>1 DEF ShownAs
  <2>2. CASE op[t] \in {"getOwn", "sync"}
    BY <1>1, <1>2, <1>3, <2>2 DEF ShownAs
  <2> QED BY <1>2, <2>1, <2>2
<1>8. \/ ShownName(t)' = ShownName(t)
      \/ ShownName(t) = DefName /\ ShownName(t)' \in Contents
  <2>1. CASE entries[t] = NoEntry
    <3>1. entries' = [entries EXCEPT ![t] = ptr[t]] /\ content' = content
      BY <2>1 DEF Insert, bufferVars
    <3>2. entries'[t] = ptr[t] /\ ptr[t] \notin {NoEntry, nullstr}
      BY <1>2, <1>3, <3>1, NamesAssumption, BufferAssumption DEF AllBuffers
    <3>3. content[ptr[t]] \in Contents
      BY <1>2, <1>3, HeldBy, HeldIsAlive DEF IInv, AllBuffers
    <3>4. EntryName(t) = DefName /\ EntryName(t)' = content[ptr[t]]
      BY <2>1, <3>1, <3>2 DEF EntryName
    <3> QED BY <3>3, <3>4, IsShown, IsShownNext DEF Shown
  <2>2. CASE entries[t] # NoEntry
    BY <1>1, <2>2 DEF Insert
  <2> QED BY <2>1, <2>2
<1>9. Board!Introduce(t)
  BY <1>3, <1>4, <1>5, <1>6, <1>7, <1>8, MapsToIntroduce
<1> QED BY <1>9 DEF Board!BoardNext

(* The pointer is read: that is the moment of the call.                    *)
LEMMA RefinesGet ==
  ASSUME IInv, IInv', NEW t \in Threads,
         \/ Read(t) /\ op[t] # "setOwn"
         \/ Find(t) /\ entries[about[t]] # NoEntry
  PROVE  Board!BoardNext
<1>1. /\ \A u \in Threads \ {t} : ShownCall(u)' = ShownCall(u)
      /\ \A i \in Threads : entries'[i] = entries[i] =>
           ShownName(i)' = ShownName(i)
      /\ ShownAs(t) /\ ShownAs(t)'
  BY Looks DEF StepOf, Step
<1>2. /\ CallTyped /\ Placed(t) /\ about[t] \in Threads
      /\ op[t] \in {"getOwn", "sync", "getId"}
      /\ pc[t] \in {"read", "lookup"}
      /\ op[t] = "getId" <=> Find(t)
      /\ op[t] \in OwnOps => about[t] = t
  BY CallTypes DEF Read, Find, At, PcsOf, Ops, OwnOps
<1>3. /\ entries' = entries /\ ready' = ready /\ op' = op /\ about' = about
      /\ content' = content
      /\ ptr'[t] = entries[about[t]] /\ pc'[t] = "add"
  <2>1. pc \in [Threads -> Pcs] /\ ptr \in [Threads -> AllBuffers \cup {NoEntry}]
    BY <1>2 DEF CallTyped
  <2>2. CASE Read(t) /\ op[t] # "setOwn"
    <3>1. about[t] = t
      BY <1>2, <2>2 DEF Read, At, Find, OwnOps
    <3>2. /\ pc' = [pc EXCEPT ![t] = "add"]
          /\ ptr' = [ptr EXCEPT ![t] = entries[t]]
          /\ UNCHANGED <<entries, ready, op, about, content>>
      BY <2>2 DEF Read, Goto, threadVars, mapVars, bufferVars
    <3> QED BY <2>1, <3>1, <3>2
  <2>3. CASE Find(t) /\ entries[about[t]] # NoEntry
    <3>1. /\ pc' = [pc EXCEPT ![t] = "add"]
          /\ ptr' = [ptr EXCEPT ![t] = entries[about[t]]]
          /\ UNCHANGED <<entries, ready, op, about, content>>
      BY <2>3 DEF Find, Goto, threadVars, mapVars, bufferVars
    <3> QED BY <2>1, <3>1
  <2> QED BY <2>2, <2>3
<1>4. PICK i \in Threads : i = about[t]
  BY <1>2
<1>5. entries[i] # NoEntry /\ entries[i] # nullstr
  <2>1. entries[i] # NoEntry
    <3>1. CASE op[t] = "getId"
      BY <1>2, <1>4, <3>1 DEF Read, PcsOf, At, CallTyped, Placed
    <3>2. CASE op[t] # "getId"
      <4>1. pc[t] = "read"
        BY <1>2, <3>2 DEF Read, At
      <4>2. t \in ready
        BY <1>2, <4>1 DEF Placed
      <4> QED BY <1>2, <1>4, <3>2, <4>2 DEF IInv, Entered, OwnOps
    <3> QED BY <3>1, <3>2
  <2>2. ASSUME entries[i] = nullstr PROVE FALSE
    <3>1. CASE op[t] = "getId"
      <4>1. PICK v \in Threads :
              op[v] = "setId" /\ pc[v] = "write" /\ about[v] = i
        BY <2>2 DEF IInv, Entered
      <4>2. guard = v
        BY <4>1 DEF IInv, Guarded
      <4> QED BY <1>2, <3>1, <4>2, NamesAssumption DEF Find
    <3>2. CASE op[t] # "getId"
      <4>1. pc[t] = "read" /\ about[t] = t
        BY <1>2, <3>2 DEF Read, At, OwnOps
      <4>2. t \in ready
        BY <1>2, <4>1 DEF Placed
      <4> QED BY <1>4, <2>2, <4>1, <4>2 DEF IInv, Entered
    <3> QED BY <3>1, <3>2
  <2> QED BY <2>1, <2>2
<1>6. ShownName(i) = content[entries[i]]
  BY <1>5, IsShown DEF Shown, EntryName
<1>7. ShownCall(t)' = [do |-> "done", id |-> i, name |-> ShownName(i)]
  BY <1>1, <1>3, <1>4, <1>6 DEF ShownAs
<1>8. ShownCall(t) = [do |-> "getting", id |-> i, name |-> NoEntry]
  BY <1>1, <1>2, <1>4 DEF ShownAs
<1>9. Board!Get(t)
  BY <1>1, <1>3, <1>7, <1>8, MapsToGet
<1> QED BY <1>9 DEF Board!BoardNext

LEMMA RefinesSet ==
  ASSUME IInv, IInv', NEW t \in Threads, Swap(t)
  PROVE  Board!BoardNext
<1>1. /\ \A u \in Threads \ {t} : ShownCall(u)' = ShownCall(u)
      /\ \A i \in Threads : entries'[i] = entries[i] =>
           ShownName(i)' = ShownName(i)
      /\ ShownAs(t) /\ ShownAs(t)'
  BY Looks DEF StepOf, Step
<1>2. /\ CallTyped /\ Placed(t) /\ about[t] \in Threads
      /\ op[t] \in {"setOwn", "setId"} /\ pc[t] = "write"
      /\ entries \in [Threads -> AllBuffers \cup {NoEntry}]
  BY CallTypes DEF Swap, At, PcsOf, Ops, OwnOps
<1>3. param[t] \in Buffers
  BY <1>2 DEF Placed
<1>4. PICK i \in Threads : i = about[t]
  BY <1>2
<1>5. /\ ready' = ready /\ op' = op /\ about' = about /\ content' = content
      /\ pc'[t] = "drop" /\ entries'[i] = param[t]
      /\ \A j \in Threads \ {i} : entries'[j] = entries[j]
  BY <1>2, <1>4 DEF Swap, Goto, CallTyped, threadVars, bufferVars
<1>6. ShownName(i)' = content[param[t]]
  <2>1. EntryName(i)' = content[param[t]]
    BY <1>3, <1>5, NamesAssumption, BufferAssumption DEF EntryName, AllBuffers
  <2> QED BY <2>1, IsShownNext DEF Shown
<1>7. ShownCall(t) =
        [do |-> "setting", id |-> i, name |-> content[param[t]]]
  BY <1>1, <1>2, <1>4 DEF ShownAs
<1>8. ShownCall(t)' = [do |-> "done", id |-> i, name |-> NoEntry]
  BY <1>1, <1>4, <1>5 DEF ShownAs
<1>9. \A j \in Threads \ {i} : ShownName(j)' = ShownName(j)
  BY <1>1, <1>5
<1>10. Board!Set(t)
  <2>1. PICK n : n = content[param[t]]
    OBVIOUS
  <2>2. /\ ShownCall(t) = [do |-> "setting", id |-> i, name |-> n]
        /\ ShownName(i)' = n'
    BY <1>6, <1>7, <2>1
  <2> QED BY <1>1, <1>5, <1>8, <1>9, <2>2, MapsToSet
<1> QED BY <1>10 DEF Board!BoardNext

LEMMA RefinesEnd ==
  ASSUME IInv, IInv', NEW t \in Threads, Extract(t)
  PROVE  Board!BoardNext
<1>1. /\ \A u \in Threads \ {t} : ShownCall(u)' = ShownCall(u)
      /\ \A i \in Threads : entries'[i] = entries[i] =>
           ShownName(i)' = ShownName(i)
      /\ ShownAs(t) /\ ShownAs(t)'
  BY Looks DEF StepOf, Step
<1>2. /\ CallTyped /\ op[t] = "exit" /\ pc[t] = "lookup" /\ about[t] = t
      /\ entries \in [Threads -> AllBuffers \cup {NoEntry}]
  BY CallTypes DEF Extract, At, OwnOps
<1>3. /\ ready' = ready \ {t} /\ op' = op /\ about' = about
      /\ pc'[t] = "drop" /\ entries'[t] = NoEntry
      /\ \A j \in Threads \ {t} : entries'[j] = entries[j]
  BY <1>2 DEF Extract, Goto, CallTyped
<1>4. ShownName(t)' = DefName
  <2>1. EntryName(t)' = DefName
    BY <1>3 DEF EntryName
  <2> QED BY <2>1, IsShownNext DEF Shown
<1>5. ShownCall(t) = [do |-> "ending", id |-> t, name |-> NoEntry]
  BY <1>1, <1>2 DEF ShownAs
<1>6. ShownCall(t)' = [do |-> "done", id |-> t, name |-> NoEntry]
  BY <1>1, <1>2, <1>3 DEF ShownAs
<1>7. \A j \in Threads \ {t} : ShownName(j)' = ShownName(j)
  BY <1>1, <1>3
<1>8. Board!End(t)
  BY <1>1, <1>3, <1>4, <1>5, <1>6, <1>7, MapsToEnd
<1> QED BY <1>8 DEF Board!BoardNext

LEMMA RefinesReturn ==
  ASSUME IInv, IInv', NEW t \in Threads,
         \/ Return(t)
         \/ Drop(t)
         \/ Find(t) /\ entries[about[t]] = NoEntry
  PROVE  Board!BoardNext
<1>1. /\ \A u \in Threads \ {t} : ShownCall(u)' = ShownCall(u)
      /\ \A i \in Threads : entries'[i] = entries[i] =>
           ShownName(i)' = ShownName(i)
      /\ ShownAs(t) /\ ShownAs(t)'
  BY Looks DEF StepOf, Step
<1>2. CallTyped /\ about[t] \in Threads
  BY CallTypes
<1>3. entries' = entries /\ ready' = ready /\ Finish(t)
  BY DEF Return, Drop, Find, threadVars, mapVars
<1>4. ShownCall(t)' = [do |-> "idle", id |-> t, name |-> NoEntry]
  <2>1. op'[t] = "none"
    BY <1>2, <1>3, Finished
  <2> QED BY <1>1, <2>1 DEF ShownAs
<1>5. \/ ShownCall(t).do = "done"
      \/ /\ ShownCall(t).do = "getting" /\ ShownCall(t).id \in Threads
         /\ ShownName(ShownCall(t).id) = DefName
  <2>1. CASE Return(t) \/ Drop(t)
    <3>1. pc[t] \in {"return", "drop"}
      BY <2>1 DEF Return, Drop, At
    <3> QED BY <1>1, <3>1 DEF ShownAs
  <2>2. CASE Find(t) /\ entries[about[t]] = NoEntry
    <3>1. ShownCall(t) =
            [do |-> "getting", id |-> about[t], name |-> NoEntry]
      BY <1>1, <2>2 DEF ShownAs, Find, At
    <3>2. ShownName(about[t]) = DefName
      BY <1>2, <2>2, IsShown DEF Shown, EntryName
    <3> QED BY <1>2, <3>1, <3>2
  <2> QED BY <2>1, <2>2
<1>6. Board!Return(t)
  BY <1>1, <1>3, <1>4, <1>5, MapsToReturn
<1> QED BY <1>6 DEF Board!BoardNext

LEMMA RefinesInit == ASSUME Init PROVE Board!BoardInit
<1>1. IInv
  BY InitKeeps
<1>2. \A t \in Threads :
        /\ ShownName(t) = DefName
        /\ ShownCall(t) = [do |-> "idle", id |-> t, name |-> NoEntry]
  BY <1>1, IsShown DEF Shown, ShownAs, EntryName, Init
<1> QED BY <1>2 DEF Init, Board!BoardInit, Board!Idle

(* Seen from outside, every call acts on one name per thread at one moment *)
(* between its beginning and its return, as long as no step lacks a defined*)
(* meaning (threading.cpp:41-77, 153-178).                                 *)
THEOREM Refinement == Spec => ImplementsNameBoard
<1>1. ASSUME IInv, IInv', Next
      PROVE  Board!BoardNext \/ UNCHANGED Board!boardVars
  <2>1. PICK t \in Threads : StepOf(t)
    BY <1>1 DEF Next
  <2>2. CASE Insert(t)
    BY <1>1, <2>2, RefinesIntroduce
  <2>3. CASE Read(t)
    BY <1>1, <2>3, RefinesGet, RefinesQuiet
  <2>4. CASE Find(t)
    BY <1>1, <2>4, RefinesGet, RefinesReturn
  <2>5. CASE Swap(t)
    BY <1>1, <2>5, RefinesSet
  <2>6. CASE Extract(t)
    BY <1>1, <2>6, RefinesEnd
  <2>7. CASE Return(t) \/ Drop(t)
    BY <1>1, <2>7, RefinesReturn
  <2>8. CASE \/ Start(t) \/ ExitUnnamed(t) \/ Construct(t) \/ Add(t)
             \/ FindOrMake(t)
    BY <1>1, <2>8, RefinesQuiet
  <2>9. CASE \/ \E n \in Names : SetOwn(t, n)
             \/ \E o \in {"getOwn", "sync"} : GetOwn(t, o)
             \/ \E i \in Threads :
                  GetId(t, i) \/ \E n \in Names : SetId(t, i, n)
             \/ Exit(t)
    BY <1>1, <2>9, RefinesBeginning
  <2> QED BY <2>1, <2>2, <2>3, <2>4, <2>5, <2>6, <2>7, <2>8, <2>9
          DEF StepOf, Step
<1>2. ASSUME UNCHANGED vars PROVE UNCHANGED Board!boardVars
  <2>1. /\ content' = content /\ ready' = ready /\ entries' = entries
        /\ op' = op /\ pc' = pc /\ about' = about /\ param' = param
        /\ ptr' = ptr
    BY <1>2 DEF vars, bufferVars, threadVars, mapVars, callVars
  <2>2. \A u \in Threads : ShownCall(u)' = ShownCall(u)
    BY <2>1 DEF ShownCall
  <2>3. \A i \in Threads : ShownName(i)' = ShownName(i)
    BY <2>1 DEF ShownName, NameOf
  <2> QED BY <2>1, <2>2, <2>3, MapsToNothing
<1>3. Sound /\ Sound' /\ [Next]_vars =>
        [undefined' \/ Board!BoardNext]_(Board!boardVars)
  <2>1. ASSUME Sound, Sound', Next, ~ undefined'
        PROVE  Board!BoardNext \/ UNCHANGED Board!boardVars
    <3>1. IInv /\ IInv'
      BY <2>1, DefinedBefore DEF Sound
    <3> QED BY <1>1, <2>1, <3>1
  <2> QED BY <1>2, <2>1
<1> QED BY RefinesInit, <1>3, Inductive, PTL
        DEF Spec, ImplementsNameBoard

=============================================================================

--------------------------- MODULE StringRefProofs ---------------------------
(***************************************************************************)
(* Theorems about ing::string_base, for any finite sets of threads and of  *)
(* strings, any buffers and any contents.                                  *)
(***************************************************************************)
EXTENDS StringRef, FunctionTheorems, FiniteSetTheorems, TLAPS

(* The objects whose reference is not counted yet, and the objects that    *)
(* hold a counted reference to b.                                          *)
Uncounted == {count[t] : t \in {u \in Threads : pc[u] = "addref"}}
Holding(b) == {o \in Objects : str[o] = b /\ o \notin Uncounted}

(* The rule about objects: who writes one is alone with it.                *)
Disjoint ==
  \A t, u \in Threads :
    /\ reads[t] \cap writes[u] = {}
    /\ t # u => writes[t] \cap writes[u] = {}

(* What a thread is in the middle of.  A reference that is not counted is  *)
(* one to nullstr or is kept alive by the object that was copied.          *)
Placed(t) ==
  /\ pc[t] = "idle" => writes[t] = {} /\ reads[t] = {}
  /\ pc[t] = "addref" =>
       /\ count[t] \in writes[t] \cup {t}
       /\ str[count[t]] # Dead
       /\ \/ str[count[t]] = nullstr
          \/ \E s \in reads[t] : str[s] = str[count[t]]
  /\ pc[t] \in {"addref", "swap"} /\ target[t] # NoHandle =>
       target[t] \in writes[t] /\ str[target[t]] # Dead
  /\ pc[t] = "swap" => target[t] # NoHandle
  /\ str[t] # Dead <=> \/ pc[t] \in {"swap", "release"}
                       \/ pc[t] = "addref" /\ target[t] # NoHandle

(* The count of a buffer is the number of its holders, and it is allocated *)
(* as long as there is one; nullstr always is.                             *)
Exact ==
  \A b \in AllBuffers :
    refcount[b] = Cardinality(Holding(b)) + (IF b = nullstr THEN 1 ELSE 0)

Alive ==
  /\ \A b \in Buffers : content[b] # Freed <=> Holding(b) # {}
  /\ content[nullstr] = Empty

IInv ==
  TypeOK /\ Disjoint /\ (\A t \in Threads : Placed(t)) /\ Exact /\ Alive

-----------------------------------------------------------------------------
(* Sets of objects and their sizes.                                        *)

LEMMA ObjectsFinite ==
  /\ IsFiniteSet(Objects)
  /\ Cardinality(Objects) \in Nat
  /\ Cardinality(Objects) + 1 <= IntMax
<1>1. IsFiniteSet(Objects)
  BY StringAssumption, FS_Union DEF Objects
<1> QED BY <1>1, FS_CardinalityType, CountsFit DEF Objects

LEMMA SubsetFinite ==
  ASSUME NEW S \in SUBSET Objects
  PROVE  /\ IsFiniteSet(S) /\ Cardinality(S) \in Nat
         /\ Cardinality(S) <= Cardinality(Objects)
         /\ Cardinality(S) = 0 <=> S = {}
<1>1. IsFiniteSet(S) /\ Cardinality(S) <= Cardinality(Objects)
  BY ObjectsFinite, FS_Subset
<1> QED BY <1>1, FS_CardinalityType, FS_EmptySet

LEMMA Transferred ==
  ASSUME NEW S \in SUBSET Objects, NEW x \in S, NEW y \in Objects \ S
  PROVE  /\ (S \ {x}) \cup {y} \in SUBSET Objects
         /\ Cardinality((S \ {x}) \cup {y}) = Cardinality(S)
<1>1. IsFiniteSet(S) /\ Cardinality(S) \in Nat
  BY SubsetFinite
<1>2. /\ IsFiniteSet(S \ {x})
      /\ Cardinality(S \ {x}) = Cardinality(S) - 1
  BY <1>1, FS_RemoveElement
<1>3. Cardinality((S \ {x}) \cup {y}) = Cardinality(S \ {x}) + 1
  BY <1>2, FS_AddElement
<1> QED BY <1>1, <1>2, <1>3

LEMMA HoldersAreObjects == \A b : Holding(b) \in SUBSET Objects
BY DEF Holding

-----------------------------------------------------------------------------
(* What each kind of step on the buffers preserves.                        *)

(* References change hands, one for one.                                   *)
LEMMA Rebalanced ==
  ASSUME TypeOK, Exact, Alive, UNCHANGED bufferVars,
         \A b \in AllBuffers :
           \/ Holding(b)' = Holding(b)
           \/ \E x \in Holding(b), y \in Objects \ Holding(b) :
                Holding(b)' = (Holding(b) \ {x}) \cup {y}
  PROVE  Exact' /\ Alive'
<1>1. ASSUME NEW b \in AllBuffers
      PROVE  /\ Cardinality(Holding(b)') = Cardinality(Holding(b))
             /\ Holding(b)' # {} <=> Holding(b) # {}
  <2>1. CASE Holding(b)' = Holding(b)
    BY <2>1
  <2>2. CASE \E x \in Holding(b), y \in Objects \ Holding(b) :
               Holding(b)' = (Holding(b) \ {x}) \cup {y}
    BY <2>2, HoldersAreObjects, Transferred
  <2> QED BY <2>1, <2>2
<1>2. Exact'
  BY <1>1 DEF Exact, bufferVars
<1>3. Alive'
  BY <1>1 DEF Alive, bufferVars, AllBuffers
<1> QED BY <1>2, <1>3

(* fetch_add: o becomes a holder of c, which is allocated.                 *)
LEMMA Gained ==
  ASSUME TypeOK, Exact, Alive,
         NEW c \in AllBuffers, AddRef(c),
         NEW o \in Objects \ Holding(c),
         c = nullstr \/ Holding(c) # {},
         Holding(c)' = Holding(c) \cup {o},
         \A b \in AllBuffers \ {c} : Holding(b)' = Holding(b)
  PROVE  /\ BufferTypeOK' /\ (\A b \in AllBuffers : refcount'[b] >= 0)
         /\ Exact' /\ Alive'
<1>1. /\ Cardinality(Holding(c)) \in Nat
      /\ Cardinality(Holding(c) \cup {o}) = Cardinality(Holding(c)) + 1
      /\ Cardinality(Holding(c) \cup {o}) <= Cardinality(Objects)
  <2>1. Holding(c) \cup {o} \in SUBSET Objects
    BY HoldersAreObjects
  <2>2. IsFiniteSet(Holding(c)) /\ Cardinality(Holding(c)) \in Nat
    BY HoldersAreObjects, SubsetFinite
  <2>3. Cardinality(Holding(c) \cup {o}) = Cardinality(Holding(c)) + 1
    BY <2>2, FS_AddElement
  <2> QED BY <2>1, <2>2, <2>3, SubsetFinite
<1>2. /\ refcount[c] = Cardinality(Holding(c)) + (IF c = nullstr THEN 1 ELSE 0)
      /\ refcount[c] \in Nat /\ IntMax \in Nat
      /\ refcount[c] + 1 <= IntMax
  BY <1>1, ObjectsFinite, BufferAssumption DEF Exact
<1>3. Wrapped(refcount[c] + 1) = refcount[c] + 1
  BY <1>2 DEF Wrapped
<1>4. /\ refcount \in [AllBuffers -> -IntMax - 1 .. IntMax]
      /\ content \in [AllBuffers -> Contents \cup {Freed}]
      /\ \A b \in AllBuffers : refcount[b] >= 0
  BY DEF TypeOK, BufferTypeOK
<1>5. /\ refcount' = [refcount EXCEPT ![c] = refcount[c] + 1]
      /\ content' = content
  BY <1>3 DEF AddRef
<1>6. refcount[c] + 1 \in -IntMax - 1 .. IntMax /\ refcount[c] + 1 >= 0
  BY <1>2
<1>7. /\ refcount' \in [AllBuffers -> -IntMax - 1 .. IntMax]
      /\ refcount'[c] = refcount[c] + 1
      /\ \A b \in AllBuffers \ {c} : refcount'[b] = refcount[b]
  BY <1>4, <1>5, <1>6
<1>8. BufferTypeOK' /\ \A b \in AllBuffers : refcount'[b] >= 0
  BY <1>4, <1>5, <1>6, <1>7 DEF BufferTypeOK
<1>9. Exact'
  BY <1>1, <1>2, <1>7 DEF Exact
<1>10. ASSUME NEW b \in Buffers
       PROVE  content'[b] # Freed <=> Holding(b)' # {}
  <2>1. CASE b = c
    BY <1>5, <2>1, BufferAssumption DEF Alive
  <2>2. CASE b # c
    BY <1>5, <2>2 DEF Alive, AllBuffers
  <2> QED BY <2>1, <2>2
<1>11. Alive'
  BY <1>5, <1>10 DEF Alive
<1> QED BY <1>8, <1>9, <1>11

(* fetch_sub, and free: o is a holder of c no longer.                      *)
LEMMA Lost ==
  ASSUME TypeOK, Exact, Alive,
         NEW c \in AllBuffers, DropRef(c),
         NEW o \in Holding(c),
         Holding(c)' = Holding(c) \ {o},
         \A b \in AllBuffers \ {c} : Holding(b)' = Holding(b)
  PROVE  /\ BufferTypeOK' /\ (\A b \in AllBuffers : refcount'[b] >= 0)
         /\ Exact' /\ Alive'
         /\ content' = [content EXCEPT ![c] =
              IF c # nullstr /\ Holding(c) = {o} THEN Freed ELSE @]
<1>1. /\ Cardinality(Holding(c)) \in Nat
      /\ Cardinality(Holding(c) \ {o}) = Cardinality(Holding(c)) - 1
      /\ Cardinality(Holding(c) \ {o}) \in Nat
      /\ Cardinality(Holding(c) \ {o}) = 0 <=> Holding(c) = {o}
  <2>1. Holding(c) \ {o} \in SUBSET Objects
    BY HoldersAreObjects
  <2>2. IsFiniteSet(Holding(c)) /\ Cardinality(Holding(c)) \in Nat
    BY HoldersAreObjects, SubsetFinite
  <2>3. Cardinality(Holding(c) \ {o}) = Cardinality(Holding(c)) - 1
    BY <2>2, FS_RemoveElement
  <2>4. /\ Cardinality(Holding(c) \ {o}) \in Nat
        /\ Cardinality(Holding(c) \ {o}) = 0 <=> Holding(c) \ {o} = {}
    BY <2>1, SubsetFinite
  <2> QED BY <2>2, <2>3, <2>4
<1>2. /\ refcount[c] = Cardinality(Holding(c)) + (IF c = nullstr THEN 1 ELSE 0)
      /\ refcount[c] \in Nat /\ IntMax \in Nat /\ refcount[c] >= 1
      /\ refcount[c] <= IntMax
      /\ refcount[c] = 1 <=> c # nullstr /\ Holding(c) = {o}
  BY <1>1, BufferAssumption DEF Exact, TypeOK, BufferTypeOK
<1>3. Wrapped(refcount[c] - 1) = refcount[c] - 1
  BY <1>2 DEF Wrapped
<1>4. /\ refcount \in [AllBuffers -> -IntMax - 1 .. IntMax]
      /\ content \in [AllBuffers -> Contents \cup {Freed}]
      /\ \A b \in AllBuffers : refcount[b] >= 0
  BY DEF TypeOK, BufferTypeOK
<1>5. /\ refcount' = [refcount EXCEPT ![c] = refcount[c] - 1]
      /\ content' = [content EXCEPT ![c] =
           IF c # nullstr /\ Holding(c) = {o} THEN Freed ELSE @]
  BY <1>2, <1>3 DEF DropRef
<1>6. refcount[c] - 1 \in -IntMax - 1 .. IntMax /\ refcount[c] - 1 >= 0
  BY <1>2
<1>7. /\ refcount' \in [AllBuffers -> -IntMax - 1 .. IntMax]
      /\ refcount'[c] = refcount[c] - 1
      /\ \A b \in AllBuffers \ {c} : refcount'[b] = refcount[b]
  BY <1>4, <1>5, <1>6
<1>8. /\ content' \in [AllBuffers -> Contents \cup {Freed}]
      /\ \A b \in AllBuffers \ {c} : content'[b] = content[b]
      /\ content'[c] = IF c # nullstr /\ Holding(c) = {o} THEN Freed
                       ELSE content[c]
  BY <1>4, <1>5
<1>9. BufferTypeOK' /\ \A b \in AllBuffers : refcount'[b] >= 0
  BY <1>4, <1>6, <1>7, <1>8 DEF BufferTypeOK
<1>10. Exact'
  BY <1>1, <1>2, <1>7 DEF Exact
<1>11. Alive'
  <2>1. content'[nullstr] = Empty
    BY <1>8 DEF Alive, AllBuffers
  <2>2. ASSUME NEW b \in Buffers
        PROVE  content'[b] # Freed <=> Holding(b)' # {}
    <3>1. CASE b = c
      BY <1>8, <3>1, BufferAssumption DEF Alive
    <3>2. CASE b # c
      BY <1>8, <3>2 DEF Alive, AllBuffers
    <3> QED BY <3>1, <3>2
  <2> QED BY <2>1, <2>2 DEF Alive
<1> QED BY <1>5, <1>9, <1>10, <1>11

-----------------------------------------------------------------------------
(* Who is counted, and whom a step disturbs.                               *)

(* An object that nobody else writes, or the temporary of the thread, is   *)
(* counted.                                                                *)
LEMMA CountedUnlessWritten ==
  ASSUME IInv
  PROVE  /\ \A u \in Threads : pc[u] = "addref" =>
              count[u] \in Uncounted /\ count[u] \in writes[u] \cup {u}
         /\ \A h \in Handles : (\A u \in Threads : h \notin writes[u])
              => h \notin Uncounted
         /\ \A t \in Threads : pc[t] # "addref" => t \notin Uncounted
<1>1. \A u \in Threads : pc[u] = "addref" =>
        count[u] \in Uncounted /\ count[u] \in writes[u] \cup {u}
  BY DEF IInv, Placed, Uncounted
<1>2. \A u \in Threads : writes[u] \in SUBSET Handles
  BY DEF IInv, TypeOK
<1> QED BY <1>1, <1>2, StringAssumption DEF Uncounted

(* The other threads do not notice a step of t that writes the objects D.  *)
LEMMA OthersUndisturbed ==
  ASSUME IInv,
         NEW t \in Threads, NEW D \in SUBSET Handles,
         \A u \in Threads \ {t} : (writes[u] \cup reads[u]) \cap D = {},
         \A x \in Objects \ (D \cup {t}) : str'[x] = str[x],
         \A u \in Threads \ {t} :
           /\ pc'[u] = pc[u] /\ count'[u] = count[u] /\ target'[u] = target[u]
           /\ writes'[u] = writes[u] /\ reads'[u] = reads[u]
  PROVE  \A u \in Threads \ {t} : Placed(u)'
<1> SUFFICES ASSUME NEW u \in Threads \ {t} PROVE Placed(u)'
  OBVIOUS
<1>1. /\ writes[u] \in SUBSET Handles /\ reads[u] \in SUBSET Handles
      /\ Placed(u)
  BY DEF IInv, TypeOK
<1>2. \A x \in writes[u] \cup reads[u] \cup {u} : str'[x] = str[x]
  BY <1>1, StringAssumption DEF Objects
<1> QED BY <1>1, <1>2 DEF IInv, Placed

(* The start of an operation: what the thread does itself,                 *)
LEMMA Began ==
  ASSUME IInv, NEW t \in Threads, NEW o \in Objects,
         NEW h \in Handles \cup {NoHandle},
         NEW W \in SUBSET Handles, NEW R \in SUBSET Handles,
         Begin(t, "addref", o, h, W, R)
  PROVE  /\ pc' \in [Threads -> {"idle", "addref", "swap", "release"}]
         /\ count' \in [Threads -> Objects]
         /\ target' \in [Threads -> Handles \cup {NoHandle}]
         /\ writes' \in [Threads -> SUBSET Handles]
         /\ reads' \in [Threads -> SUBSET Handles]
         /\ pc'[t] = "addref" /\ count'[t] = o /\ target'[t] = h
         /\ writes'[t] = W /\ reads'[t] = R
<1>1. /\ pc \in [Threads -> {"idle", "addref", "swap", "release"}]
      /\ count \in [Threads -> Objects]
      /\ target \in [Threads -> Handles \cup {NoHandle}]
      /\ writes \in [Threads -> SUBSET Handles]
      /\ reads \in [Threads -> SUBSET Handles]
  BY DEF IInv, TypeOK
<1>2. /\ pc' \in [Threads -> {"idle", "addref", "swap", "release"}]
      /\ pc'[t] = "addref"
  BY <1>1 DEF Begin
<1>3. count' \in [Threads -> Objects] /\ count'[t] = o
  BY <1>1 DEF Begin
<1>4. target' \in [Threads -> Handles \cup {NoHandle}] /\ target'[t] = h
  BY <1>1 DEF Begin
<1>5. writes' \in [Threads -> SUBSET Handles] /\ writes'[t] = W
  BY <1>1 DEF Begin
<1>6. reads' \in [Threads -> SUBSET Handles] /\ reads'[t] = R
  BY <1>1 DEF Begin
<1> QED BY <1>2, <1>3, <1>4, <1>5, <1>6

(* what it leaves alone,                                                   *)
LEMMA BeganAlone ==
  ASSUME IInv, NEW t \in Threads, NEW o, NEW h, NEW W, NEW R,
         Begin(t, "addref", o, h, W, R)
  PROVE  \A u \in Threads \ {t} :
           /\ pc'[u] = pc[u] /\ count'[u] = count[u]
           /\ target'[u] = target[u]
           /\ writes'[u] = writes[u] /\ reads'[u] = reads[u]
           /\ (writes[u] \cup reads[u]) \cap W = {}
           /\ writes[u] \cap R = {}
<1> SUFFICES ASSUME NEW u \in Threads \ {t}
             PROVE  /\ pc'[u] = pc[u] /\ count'[u] = count[u]
                    /\ target'[u] = target[u]
                    /\ writes'[u] = writes[u] /\ reads'[u] = reads[u]
                    /\ (writes[u] \cup reads[u]) \cap W = {}
                    /\ writes[u] \cap R = {}
  OBVIOUS
<1>1. /\ pc \in [Threads -> {"idle", "addref", "swap", "release"}]
      /\ count \in [Threads -> Objects]
      /\ target \in [Threads -> Handles \cup {NoHandle}]
      /\ writes \in [Threads -> SUBSET Handles]
      /\ reads \in [Threads -> SUBSET Handles]
  BY DEF IInv, TypeOK
<1>2. /\ pc'[u] = pc[u] /\ count'[u] = count[u]
      /\ target'[u] = target[u]
      /\ writes'[u] = writes[u] /\ reads'[u] = reads[u]
  BY <1>1 DEF Begin
<1>3. /\ (writes[u] \cup reads[u]) \cap W = {}
      /\ writes[u] \cap R = {}
  BY DEF Begin, MayUse
<1> QED BY <1>2, <1>3

(* and what becomes of the references.                                     *)
LEMMA BeganUncounted ==
  ASSUME IInv, NEW t \in Threads, NEW o \in Objects,
         NEW h \in Handles \cup {NoHandle},
         NEW W \in SUBSET Handles, NEW R \in SUBSET Handles,
         Begin(t, "addref", o, h, W, R)
  PROVE  /\ str[t] = Dead
         /\ \A x \in W \cup {t} : x \notin Uncounted
         /\ Uncounted' = Uncounted \cup {o}
<1>1. /\ pc[t] = "idle"
      /\ \A u \in Threads : writes[u] \cap W = {}
  BY DEF Begin, MayUse
<1>2. str[t] = Dead
  BY <1>1 DEF IInv, Placed
<1>3. \A x \in W \cup {t} : x \notin Uncounted
  BY <1>1, CountedUnlessWritten
<1>4. pc'[t] = "addref" /\ count'[t] = o
  BY Began
<1>5. \A u \in Threads \ {t} : pc'[u] = pc[u] /\ count'[u] = count[u]
  BY BeganAlone
<1>6. Uncounted' = Uncounted \cup {o}
  BY <1>1, <1>4, <1>5 DEF Uncounted
<1> QED BY <1>2, <1>3, <1>6

LEMMA BeganDisjoint ==
  ASSUME IInv, NEW t \in Threads, NEW o \in Objects,
         NEW h \in Handles \cup {NoHandle},
         NEW W \in SUBSET Handles, NEW R \in SUBSET Handles,
         W \cap R = {},
         Begin(t, "addref", o, h, W, R)
  PROVE  Disjoint'
<1>1. writes'[t] = W /\ reads'[t] = R
  BY Began
<1>2. \A u \in Threads \ {t} :
        /\ writes'[u] = writes[u] /\ reads'[u] = reads[u]
        /\ (writes[u] \cup reads[u]) \cap W = {}
        /\ writes[u] \cap R = {}
  BY BeganAlone
<1> SUFFICES ASSUME NEW v \in Threads, NEW u \in Threads
             PROVE  /\ reads'[v] \cap writes'[u] = {}
                    /\ v # u => writes'[v] \cap writes'[u] = {}
  BY DEF Disjoint
<1>3. CASE v = t
  BY <1>3, <1>1, <1>2
<1>4. CASE v # t /\ u = t
  BY <1>4, <1>1, <1>2
<1>5. CASE v # t /\ u # t
  BY <1>5, <1>2 DEF IInv, Disjoint
<1> QED BY <1>3, <1>4, <1>5

(* The objects of an operation of one step.                                *)
LEMMA DoneAtOnce ==
  ASSUME IInv,
         NEW t \in Threads, NEW W \in SUBSET Handles, AtOnce(t, W, {}),
         \A x \in Objects \ W : str'[x] = str[x]
  PROVE  /\ \A x \in W : x \notin Uncounted
         /\ Uncounted' = Uncounted
         /\ Disjoint'
         /\ \A u \in Threads : Placed(u)'
<1>1. /\ pc[t] = "idle"
      /\ \A u \in Threads : (writes[u] \cup reads[u]) \cap W = {}
      /\ UNCHANGED <<pc, count, target, writes, reads>>
  BY DEF AtOnce, MayUse
<1>2. \A x \in W : x \notin Uncounted
  BY <1>1, CountedUnlessWritten
<1>3. Uncounted' = Uncounted /\ Disjoint'
  BY <1>1 DEF IInv, Uncounted, Disjoint
<1>4. \A u \in Threads \ {t} : Placed(u)'
  BY <1>1, OthersUndisturbed
<1>5. str'[t] = str[t]
  BY StringAssumption DEF Objects
<1>6. Placed(t)'
  BY <1>1, <1>5 DEF IInv, Placed
<1> QED BY <1>2, <1>3, <1>4, <1>6

(* The end of an operation of several steps.                               *)
LEMMA Finished ==
  ASSUME IInv, NEW t \in Threads, Finish(t)
  PROVE  /\ pc' \in [Threads -> {"idle", "addref", "swap", "release"}]
         /\ count' \in [Threads -> Objects]
         /\ target' \in [Threads -> Handles \cup {NoHandle}]
         /\ writes' \in [Threads -> SUBSET Handles]
         /\ reads' \in [Threads -> SUBSET Handles]
         /\ pc'[t] = "idle" /\ writes'[t] = {} /\ reads'[t] = {}
         /\ \A u \in Threads \ {t} :
              /\ pc'[u] = pc[u] /\ count'[u] = count[u]
              /\ target'[u] = target[u]
              /\ writes'[u] = writes[u] /\ reads'[u] = reads[u]
         /\ count' = count
         /\ Disjoint'
<1>1. /\ pc \in [Threads -> {"idle", "addref", "swap", "release"}]
      /\ count \in [Threads -> Objects]
      /\ target \in [Threads -> Handles \cup {NoHandle}]
      /\ writes \in [Threads -> SUBSET Handles]
      /\ reads \in [Threads -> SUBSET Handles]
  BY DEF IInv, TypeOK
<1>2. /\ pc' \in [Threads -> {"idle", "addref", "swap", "release"}]
      /\ pc'[t] = "idle"
      /\ \A u \in Threads \ {t} : pc'[u] = pc[u]
  BY <1>1 DEF Finish
<1>3. /\ writes' \in [Threads -> SUBSET Handles]
      /\ writes'[t] = {}
      /\ \A u \in Threads \ {t} : writes'[u] = writes[u]
  BY <1>1 DEF Finish
<1>4. /\ reads' \in [Threads -> SUBSET Handles]
      /\ reads'[t] = {}
      /\ \A u \in Threads \ {t} : reads'[u] = reads[u]
  BY <1>1 DEF Finish
<1>5. Disjoint'
  BY <1>3, <1>4 DEF IInv, Disjoint
<1> QED BY <1>1, <1>2, <1>3, <1>4, <1>5 DEF Finish

-----------------------------------------------------------------------------
(* How references change hands.                                            *)

LEMMA StrUpdate ==
  ASSUME IInv, NEW x \in Objects, NEW v \in AllBuffers \cup {Dead},
         str' = [str EXCEPT ![x] = v]
  PROVE  /\ str' \in [Objects -> AllBuffers \cup {Dead}]
         /\ str'[x] = v
         /\ \A y \in Objects \ {x} : str'[y] = str[y]
<1>1. str \in [Objects -> AllBuffers \cup {Dead}]
  BY DEF IInv, TypeOK
<1> QED BY <1>1

LEMMA StrUpdateTwo ==
  ASSUME IInv, NEW x \in Objects, NEW v \in AllBuffers \cup {Dead},
         NEW y \in Objects, NEW w \in AllBuffers \cup {Dead}, x # y,
         str' = [str EXCEPT ![x] = v, ![y] = w]
  PROVE  /\ str' \in [Objects -> AllBuffers \cup {Dead}]
         /\ str'[x] = v /\ str'[y] = w
         /\ \A z \in Objects \ {x, y} : str'[z] = str[z]
<1>1. str \in [Objects -> AllBuffers \cup {Dead}]
  BY DEF IInv, TypeOK
<1> QED BY <1>1

(* An object that did not exist gets an uncounted reference.               *)
LEMMA Fresh ==
  ASSUME NEW o \in Objects, str[o] = Dead,
         \A x \in Objects \ {o} : str'[x] = str[x],
         Uncounted' = Uncounted \cup {o}
  PROVE  \A b \in AllBuffers : Holding(b)' = Holding(b)
BY StringAssumption DEF Holding

(* s hands its reference over to d, which did not exist, and gets an       *)
(* uncounted one.                                                          *)
LEMMA Moved ==
  ASSUME NEW d \in Objects, NEW s \in Objects, d # s,
         str[d] = Dead, str'[d] = str[s],
         d \notin Uncounted, s \notin Uncounted,
         \A x \in Objects \ {d, s} : str'[x] = str[x],
         Uncounted' = Uncounted \cup {s}
  PROVE  \A b \in AllBuffers :
           \/ Holding(b)' = Holding(b)
           \/ \E x \in Holding(b), y \in Objects \ Holding(b) :
                Holding(b)' = (Holding(b) \ {x}) \cup {y}
<1> SUFFICES ASSUME NEW b \in AllBuffers
             PROVE  \/ Holding(b)' = Holding(b)
                    \/ /\ s \in Holding(b) /\ d \in Objects \ Holding(b)
                       /\ Holding(b)' = (Holding(b) \ {s}) \cup {d}
  OBVIOUS
<1>1. CASE b = str[s]
  BY <1>1, StringAssumption DEF Holding
<1>2. CASE b # str[s]
  BY <1>2, StringAssumption DEF Holding
<1> QED BY <1>1, <1>2

(* Two counted references change places.                                   *)
LEMMA Exchanged ==
  ASSUME NEW d \in Objects, NEW s \in Objects, d # s,
         str'[d] = str[s], str'[s] = str[d],
         d \notin Uncounted, s \notin Uncounted,
         \A x \in Objects \ {d, s} : str'[x] = str[x],
         Uncounted' = Uncounted
  PROVE  \A b \in AllBuffers :
           \/ Holding(b)' = Holding(b)
           \/ \E x \in Holding(b), y \in Objects \ Holding(b) :
                Holding(b)' = (Holding(b) \ {x}) \cup {y}
<1> SUFFICES ASSUME NEW b \in AllBuffers
             PROVE  \/ Holding(b)' = Holding(b)
                    \/ /\ s \in Holding(b) /\ d \in Objects \ Holding(b)
                       /\ Holding(b)' = (Holding(b) \ {s}) \cup {d}
                    \/ /\ d \in Holding(b) /\ s \in Objects \ Holding(b)
                       /\ Holding(b)' = (Holding(b) \ {d}) \cup {s}
  OBVIOUS
<1>1. CASE b = str[s] /\ b # str[d]
  BY <1>1 DEF Holding
<1>2. CASE b = str[d] /\ b # str[s]
  BY <1>2 DEF Holding
<1>3. CASE (b = str[d]) = (b = str[s])
  BY <1>3 DEF Holding
<1> QED BY <1>1, <1>2, <1>3

(* A counted reference is gone.                                            *)
LEMMA Dropped ==
  ASSUME NEW o \in Objects, NEW c \in AllBuffers, str[o] = c, str'[o] = Dead,
         o \notin Uncounted,
         \A x \in Objects \ {o} : str'[x] = str[x],
         Uncounted' = Uncounted
  PROVE  /\ o \in Holding(c)
         /\ Holding(c)' = Holding(c) \ {o}
         /\ \A b \in AllBuffers \ {c} : Holding(b)' = Holding(b)
BY StringAssumption DEF Holding

-----------------------------------------------------------------------------
(* One lemma per action: it keeps the invariant.                           *)

LEMMA BeginKeeps ==
  ASSUME IInv, NEW t \in Threads, NEW o \in Objects,
         NEW h \in Handles \cup {NoHandle},
         NEW W \in SUBSET Handles, NEW R \in SUBSET Handles,
         W \cap R = {}, o \in W \cup {t},
         Begin(t, "addref", o, h, W, R), UNCHANGED bufferVars,
         str' \in [Objects -> AllBuffers \cup {Dead}],
         \A x \in Objects \ (W \cup {t}) : str'[x] = str[x],
         str'[o] # Dead,
         str'[o] = nullstr \/ \E s \in R : str[s] = str'[o],
         h # NoHandle => h \in W /\ str'[h] # Dead,
         str'[t] # Dead <=> h # NoHandle
  PROVE  TypeOK' /\ Disjoint' /\ \A u \in Threads : Placed(u)'
<1>1. Disjoint'
  BY BeganDisjoint
<1>2. /\ pc' \in [Threads -> {"idle", "addref", "swap", "release"}]
      /\ count' \in [Threads -> Objects]
      /\ target' \in [Threads -> Handles \cup {NoHandle}]
      /\ writes' \in [Threads -> SUBSET Handles]
      /\ reads' \in [Threads -> SUBSET Handles]
  BY Began
<1>3. /\ pc'[t] = "addref" /\ count'[t] = o /\ target'[t] = h
      /\ writes'[t] = W /\ reads'[t] = R
  BY DEF IInv, TypeOK, Begin
<1>4. \A u \in Threads \ {t} :
        /\ pc'[u] = pc[u] /\ count'[u] = count[u]
        /\ target'[u] = target[u]
        /\ writes'[u] = writes[u] /\ reads'[u] = reads[u]
        /\ (writes[u] \cup reads[u]) \cap W = {}
  BY BeganAlone
<1>5. BufferTypeOK' /\ \A b \in AllBuffers : refcount'[b] >= 0
  BY DEF IInv, TypeOK, BufferTypeOK, bufferVars
<1>6. TypeOK'
  BY <1>2, <1>5 DEF TypeOK
<1>7. \A u \in Threads \ {t} : Placed(u)'
  BY <1>4, OthersUndisturbed
<1>8. Placed(t)'
  <2>1. \A s \in R : str'[s] = str[s]
    BY StringAssumption DEF Objects
  <2> QED BY <1>3, <2>1 DEF Placed
<1> QED BY <1>1, <1>6, <1>7, <1>8

LEMMA DefaultKeeps ==
  ASSUME IInv, NEW t \in Threads, NEW h \in Handles, Default(t, h)
  PROVE  IInv'
<1>1. /\ h \in Objects /\ t \in Objects /\ h # t /\ nullstr \in AllBuffers
      /\ nullstr # Dead
  BY StringAssumption DEF Objects, AllBuffers
<1>2. /\ str[h] = Dead /\ Begin(t, "addref", h, NoHandle, {h}, {})
      /\ str' = [str EXCEPT ![h] = nullstr] /\ UNCHANGED bufferVars
  BY DEF Default, Exists
<1>3. str[t] = Dead /\ Uncounted' = Uncounted \cup {h}
  BY <1>1, <1>2, BeganUncounted
<1>4. /\ str' \in [Objects -> AllBuffers \cup {Dead}] /\ str'[h] = nullstr
      /\ \A y \in Objects \ {h} : str'[y] = str[y]
  BY <1>1, <1>2, StrUpdate
<1>5. \A b \in AllBuffers : Holding(b)' = Holding(b)
  BY <1>1, <1>2, <1>3, <1>4, Fresh
<1>6. Exact' /\ Alive'
  BY <1>2, <1>5, Rebalanced DEF IInv
<1>7. TypeOK' /\ Disjoint' /\ \A u \in Threads : Placed(u)'
  BY <1>1, <1>2, <1>3, <1>4, BeginKeeps
<1> QED BY <1>6, <1>7 DEF IInv

LEMMA CopyKeeps ==
  ASSUME IInv, NEW t \in Threads, NEW h \in Handles, NEW s \in Handles,
         Copy(t, h, s)
  PROVE  IInv'
<1>1. /\ h \in Objects /\ t \in Objects /\ s \in Objects /\ h # t
  BY StringAssumption DEF Objects
<1>2. /\ str[h] = Dead /\ str[s] # Dead /\ h # s
      /\ Begin(t, "addref", h, NoHandle, {h}, {s})
      /\ str' = [str EXCEPT ![h] = str[s]] /\ UNCHANGED bufferVars
  BY DEF Copy, Exists
<1>0. /\ {h} \in SUBSET Handles /\ {s} \in SUBSET Handles
      /\ {h} \cap {s} = {}
  BY <1>2
<1>3. str[t] = Dead /\ Uncounted' = Uncounted \cup {h}
  <2> DEFINE W == {h}  R == {s}
  <2>1. W \in SUBSET Handles /\ R \in SUBSET Handles /\ W \cap R = {}
    BY <1>0
  <2>2. Begin(t, "addref", h, NoHandle, W, R)
    BY <1>2
  <2>3. h \in W \cup {t}
    OBVIOUS
  <2> HIDE DEF W, R
  <2> QED BY <1>1, <2>1, <2>2, <2>3, BeganUncounted
<1>4. /\ str' \in [Objects -> AllBuffers \cup {Dead}] /\ str'[h] = str[s]
      /\ \A y \in Objects \ {h} : str'[y] = str[y]
  <2>1. str[s] \in AllBuffers \cup {Dead}
    BY <1>1 DEF IInv, TypeOK
  <2> QED BY <1>1, <1>2, <2>1, StrUpdate
<1>5. \A b \in AllBuffers : Holding(b)' = Holding(b)
  BY <1>1, <1>2, <1>3, <1>4, Fresh
<1>6. Exact' /\ Alive'
  BY <1>2, <1>5, Rebalanced DEF IInv
<1>7. TypeOK' /\ Disjoint' /\ \A u \in Threads : Placed(u)'
  BY <1>1, <1>2, <1>3, <1>4, BeginKeeps
<1> QED BY <1>6, <1>7 DEF IInv

LEMMA CopyAssignKeeps ==
  ASSUME IInv, NEW t \in Threads, NEW h \in Handles, NEW s \in Handles,
         CopyAssign(t, h, s)
  PROVE  IInv'
<1>1. /\ h \in Objects /\ t \in Objects /\ s \in Objects
      /\ h # t /\ s # t /\ h # NoHandle
  BY StringAssumption DEF Objects
<1>2. /\ str[h] # Dead /\ str[s] # Dead /\ h # s
      /\ Begin(t, "addref", t, h, {h}, {s})
      /\ str' = [str EXCEPT ![t] = str[s]] /\ UNCHANGED bufferVars
  BY DEF CopyAssign, Exists
<1>0. /\ {h} \in SUBSET Handles /\ {s} \in SUBSET Handles
      /\ {h} \cap {s} = {}
  BY <1>2
<1>3. str[t] = Dead /\ Uncounted' = Uncounted \cup {t}
  <2> DEFINE W == {h}  R == {s}
  <2>1. W \in SUBSET Handles /\ R \in SUBSET Handles /\ W \cap R = {}
    BY <1>0
  <2>2. Begin(t, "addref", t, h, W, R)
    BY <1>2
  <2>3. t \in W \cup {t}
    OBVIOUS
  <2> HIDE DEF W, R
  <2> QED BY <1>1, <2>1, <2>2, <2>3, BeganUncounted
<1>4. /\ str' \in [Objects -> AllBuffers \cup {Dead}] /\ str'[t] = str[s]
      /\ \A y \in Objects \ {t} : str'[y] = str[y]
  <2>1. str[s] \in AllBuffers \cup {Dead}
    BY <1>1 DEF IInv, TypeOK
  <2> QED BY <1>1, <1>2, <2>1, StrUpdate
<1>5. \A b \in AllBuffers : Holding(b)' = Holding(b)
  BY <1>1, <1>2, <1>3, <1>4, Fresh
<1>6. Exact' /\ Alive'
  BY <1>2, <1>5, Rebalanced DEF IInv
<1>7. TypeOK' /\ Disjoint' /\ \A u \in Threads : Placed(u)'
  BY <1>1, <1>2, <1>3, <1>4, BeginKeeps
<1> QED BY <1>6, <1>7 DEF IInv

LEMMA MoveKeeps ==
  ASSUME IInv, NEW t \in Threads, NEW h \in Handles, NEW s \in Handles,
         Move(t, h, s)
  PROVE  IInv'
<1>1. /\ h \in Objects /\ t \in Objects /\ s \in Objects
      /\ h # t /\ s # t /\ nullstr \in AllBuffers
  BY StringAssumption DEF Objects, AllBuffers
<1>2. /\ str[h] = Dead /\ str[s] # Dead /\ h # s
      /\ Begin(t, "addref", s, NoHandle, {h, s}, {})
      /\ str' = [str EXCEPT ![h] = str[s], ![s] = nullstr]
      /\ UNCHANGED bufferVars
  BY DEF Move, Exists
<1> DEFINE W == {h, s}  R == {}
<1>0. /\ W \in SUBSET Handles /\ R \in SUBSET Handles /\ W \cap R = {}
      /\ h \in W /\ s \in W
      /\ Begin(t, "addref", s, NoHandle, W, R)
      /\ \A x \in Objects \ (W \cup {t}) : x # h /\ x # s /\ x # t
      /\ UNCHANGED bufferVars
  BY <1>2
<1> HIDE DEF W, R
<1>3. /\ str[t] = Dead /\ Uncounted' = Uncounted \cup {s}
      /\ h \notin Uncounted /\ s \notin Uncounted
  BY <1>1, <1>2, <1>0, BeganUncounted
<1>4. /\ str' \in [Objects -> AllBuffers \cup {Dead}]
      /\ str'[h] = str[s] /\ str'[s] = nullstr
      /\ \A y \in Objects \ {h, s} : str'[y] = str[y]
  <2>1. str[s] \in AllBuffers \cup {Dead}
    BY <1>1 DEF IInv, TypeOK
  <2> QED BY <1>1, <1>2, <2>1, StrUpdateTwo
<1>5. \A b \in AllBuffers :
        \/ Holding(b)' = Holding(b)
        \/ \E x \in Holding(b), y \in Objects \ Holding(b) :
             Holding(b)' = (Holding(b) \ {x}) \cup {y}
  BY <1>1, <1>2, <1>3, <1>4, Moved
<1>6. /\ s \in Objects /\ NoHandle \in Handles \cup {NoHandle} /\ s \in W \cup {t}
      /\ \A x \in Objects \ (W \cup {t}) : str'[x] = str[x]
      /\ str'[s] # Dead
      /\ str'[s] = nullstr \/ \E x \in R : str[x] = str'[s]
      /\ NoHandle # NoHandle => NoHandle \in W /\ str'[NoHandle] # Dead
      /\ str'[t] # Dead <=> NoHandle # NoHandle
  BY <1>0, <1>1, <1>2, <1>3, <1>4, StringAssumption
<1>7. Exact' /\ Alive'
  BY <1>2, <1>5, Rebalanced DEF IInv
<1>8. TypeOK' /\ Disjoint' /\ \A u \in Threads : Placed(u)'
  <2>1. str' \in [Objects -> AllBuffers \cup {Dead}]
    BY <1>4
  <2> QED BY <1>0, <1>6, <2>1, BeginKeeps
<1> QED BY <1>7, <1>8 DEF IInv

LEMMA MoveAssignKeeps ==
  ASSUME IInv, NEW t \in Threads, NEW h \in Handles, NEW s \in Handles,
         MoveAssign(t, h, s)
  PROVE  IInv'
<1>1. /\ h \in Objects /\ t \in Objects /\ s \in Objects
      /\ h # t /\ s # t /\ nullstr \in AllBuffers /\ h # NoHandle
  BY StringAssumption DEF Objects, AllBuffers
<1>2. /\ str[h] # Dead /\ str[s] # Dead /\ h # s
      /\ Begin(t, "addref", s, h, {h, s}, {})
      /\ str' = [str EXCEPT ![t] = str[s], ![s] = nullstr]
      /\ UNCHANGED bufferVars
  BY DEF MoveAssign, Exists
<1> DEFINE W == {h, s}  R == {}
<1>0. /\ W \in SUBSET Handles /\ R \in SUBSET Handles /\ W \cap R = {}
      /\ h \in W /\ s \in W
      /\ Begin(t, "addref", s, h, W, R)
      /\ \A x \in Objects \ (W \cup {t}) : x # h /\ x # s /\ x # t
      /\ UNCHANGED bufferVars
  BY <1>2
<1> HIDE DEF W, R
<1>3. /\ str[t] = Dead /\ Uncounted' = Uncounted \cup {s}
      /\ t \notin Uncounted /\ s \notin Uncounted
  BY <1>1, <1>2, <1>0, BeganUncounted
<1>4. /\ str' \in [Objects -> AllBuffers \cup {Dead}]
      /\ str'[t] = str[s] /\ str'[s] = nullstr
      /\ \A y \in Objects \ {t, s} : str'[y] = str[y]
  <2>1. str[s] \in AllBuffers \cup {Dead}
    BY <1>1 DEF IInv, TypeOK
  <2> QED BY <1>1, <1>2, <2>1, StrUpdateTwo
<1>5. \A b \in AllBuffers :
        \/ Holding(b)' = Holding(b)
        \/ \E x \in Holding(b), y \in Objects \ Holding(b) :
             Holding(b)' = (Holding(b) \ {x}) \cup {y}
  BY <1>1, <1>2, <1>3, <1>4, Moved
<1>6. /\ s \in Objects /\ h \in Handles \cup {NoHandle} /\ s \in W \cup {t}
      /\ \A x \in Objects \ (W \cup {t}) : str'[x] = str[x]
      /\ str'[s] # Dead
      /\ str'[s] = nullstr \/ \E x \in R : str[x] = str'[s]
      /\ h # NoHandle => h \in W /\ str'[h] # Dead
      /\ str'[t] # Dead <=> h # NoHandle
  BY <1>0, <1>1, <1>2, <1>3, <1>4, StringAssumption
<1>7. Exact' /\ Alive'
  BY <1>2, <1>5, Rebalanced DEF IInv
<1>8. TypeOK' /\ Disjoint' /\ \A u \in Threads : Placed(u)'
  <2>1. str' \in [Objects -> AllBuffers \cup {Dead}]
    BY <1>4
  <2> QED BY <1>0, <1>6, <2>1, BeginKeeps
<1> QED BY <1>7, <1>8 DEF IInv

LEMMA NewKeeps ==
  ASSUME IInv, NEW t \in Threads, NEW h \in Handles, NEW c \in Contents,
         New(t, h, c)
  PROVE  IInv'
<1>1. /\ str[h] = Dead /\ AtOnce(t, {h}, {}) /\ h \in Objects
      /\ {h} \in SUBSET Handles
  BY DEF New, Exists, Objects
<1>2. PICK b \in Buffers : Alloc(b, c) /\ str' = [str EXCEPT ![h] = b]
  BY DEF New
<1>3. b \in AllBuffers /\ b # nullstr /\ b # Dead /\ c # Freed
  BY BufferAssumption, StringAssumption DEF AllBuffers
<1>4. /\ str' \in [Objects -> AllBuffers \cup {Dead}] /\ str'[h] = b
      /\ \A y \in Objects \ {h} : str'[y] = str[y]
  BY <1>1, <1>2, <1>3, StrUpdate
<1>5. /\ h \notin Uncounted /\ Uncounted' = Uncounted
      /\ Disjoint' /\ \A u \in Threads : Placed(u)'
  BY <1>1, <1>4, DoneAtOnce
<1>6. Holding(b) = {}
  BY <1>2 DEF IInv, Alive, Alloc
<1>7. Holding(b)' = {h} /\ \A d \in AllBuffers \ {b} : Holding(d)' = Holding(d)
  BY <1>1, <1>4, <1>5, <1>6, StringAssumption DEF Holding
<1>8. Cardinality({h}) = 1
  BY FS_Singleton
<1>9. /\ refcount \in [AllBuffers -> -IntMax - 1 .. IntMax]
      /\ content \in [AllBuffers -> Contents \cup {Freed}]
      /\ IntMax \in Nat \ {0} /\ 1 \in -IntMax - 1 .. IntMax
  BY BufferAssumption DEF IInv, TypeOK, BufferTypeOK
<1>10. /\ refcount' \in [AllBuffers -> -IntMax - 1 .. IntMax]
       /\ refcount'[b] = 1
       /\ \A d \in AllBuffers \ {b} : refcount'[d] = refcount[d]
  BY <1>2, <1>3, <1>9 DEF Alloc
<1>11. /\ content' \in [AllBuffers -> Contents \cup {Freed}]
       /\ content'[b] = c
       /\ \A d \in AllBuffers \ {b} : content'[d] = content[d]
  BY <1>2, <1>3, <1>9 DEF Alloc
<1>12. BufferTypeOK' /\ \A d \in AllBuffers : refcount'[d] >= 0
  BY <1>10, <1>11 DEF IInv, TypeOK, BufferTypeOK
<1>13. Exact'
  <2>1. refcount'[b] = Cardinality(Holding(b)')
    BY <1>7, <1>8, <1>10
  <2>2. ASSUME NEW d \in AllBuffers \ {b}
        PROVE  refcount'[d] =
                 Cardinality(Holding(d)') + (IF d = nullstr THEN 1 ELSE 0)
    BY <1>7, <1>10 DEF IInv, Exact
  <2>3. \A d \in AllBuffers :
          refcount'[d] =
            Cardinality(Holding(d)') + (IF d = nullstr THEN 1 ELSE 0)
    <3> SUFFICES ASSUME NEW d \in AllBuffers
                 PROVE  refcount'[d] =
                          Cardinality(Holding(d)')
                            + (IF d = nullstr THEN 1 ELSE 0)
      OBVIOUS
    <3>1. CASE d = b
      BY <1>3, <1>7, <1>8, <1>10, <3>1
    <3>2. CASE d # b
      BY <2>2, <3>2
    <3> QED BY <3>1, <3>2
  <2> QED BY <2>3 DEF Exact
<1>14. Alive'
  <2>1. content'[nullstr] = Empty
    BY <1>3, <1>11 DEF IInv, Alive, AllBuffers
  <2>2. ASSUME NEW d \in Buffers
        PROVE  content'[d] # Freed <=> Holding(d)' # {}
    <3>1. CASE d = b
      BY <3>1, <1>3, <1>7, <1>11
    <3>2. CASE d # b
      BY <3>2, <1>7, <1>11 DEF IInv, Alive, AllBuffers
    <3> QED BY <3>1, <3>2
  <2> QED BY <2>1, <2>2 DEF Alive
<1>15. TypeOK'
  BY <1>1, <1>4, <1>12 DEF IInv, TypeOK, AtOnce
<1> QED BY <1>5, <1>13, <1>14, <1>15 DEF IInv

LEMMA SwapKeeps ==
  ASSUME IInv, NEW t \in Threads, NEW h \in Handles, NEW s \in Handles,
         Swap(t, h, s)
  PROVE  IInv'
<1> DEFINE W == {h, s}
<1>1. /\ h # s /\ h \in Objects /\ s \in Objects /\ UNCHANGED bufferVars
      /\ W \in SUBSET Handles /\ h \in W /\ s \in W
      /\ AtOnce(t, W, {}) /\ str' = [str EXCEPT ![h] = str[s], ![s] = str[h]]
      /\ \A x \in Objects \ W : x \in Objects \ {h, s}
  BY DEF Swap, Objects
<1> HIDE DEF W
<1>2. /\ str' \in [Objects -> AllBuffers \cup {Dead}]
      /\ str'[h] = str[s] /\ str'[s] = str[h]
      /\ \A y \in Objects \ {h, s} : str'[y] = str[y]
  <2>1. str[s] \in AllBuffers \cup {Dead} /\ str[h] \in AllBuffers \cup {Dead}
    BY <1>1 DEF IInv, TypeOK
  <2> QED BY <1>1, <2>1, StrUpdateTwo
<1>3. /\ h \notin Uncounted /\ s \notin Uncounted /\ Uncounted' = Uncounted
      /\ Disjoint' /\ \A u \in Threads : Placed(u)'
  <2>1. \A x \in Objects \ W : str'[x] = str[x]
    BY <1>1, <1>2
  <2> QED BY <1>1, <2>1, DoneAtOnce
<1>4. \A b \in AllBuffers :
        \/ Holding(b)' = Holding(b)
        \/ \E x \in Holding(b), y \in Objects \ Holding(b) :
             Holding(b)' = (Holding(b) \ {x}) \cup {y}
  BY <1>1, <1>2, <1>3, Exchanged
<1>5. Exact' /\ Alive'
  BY <1>1, <1>4, Rebalanced DEF IInv
<1>6. TypeOK'
  BY <1>1, <1>2 DEF IInv, TypeOK, AtOnce, BufferTypeOK, bufferVars
<1> QED BY <1>3, <1>5, <1>6 DEF IInv

LEMMA DestroyKeeps ==
  ASSUME IInv, NEW t \in Threads, NEW h \in Handles, Destroy(t, h)
  PROVE  IInv'
<1>1. /\ h \in Objects /\ {h} \in SUBSET Handles /\ AtOnce(t, {h}, {})
      /\ str' = [str EXCEPT ![h] = Dead]
  BY DEF Destroy, Objects
<1>2. PICK c \in AllBuffers : str[h] = c /\ DropRef(c)
  BY <1>1 DEF IInv, TypeOK, Destroy, Exists
<1>3. /\ str' \in [Objects -> AllBuffers \cup {Dead}] /\ str'[h] = Dead
      /\ \A y \in Objects \ {h} : str'[y] = str[y]
  BY <1>1, StrUpdate
<1>4. /\ h \notin Uncounted /\ Uncounted' = Uncounted
      /\ Disjoint' /\ \A u \in Threads : Placed(u)'
  BY <1>1, <1>3, DoneAtOnce
<1>5. /\ h \in Holding(c)
      /\ Holding(c)' = Holding(c) \ {h}
      /\ \A b \in AllBuffers \ {c} : Holding(b)' = Holding(b)
  BY <1>1, <1>2, <1>3, <1>4, Dropped
<1>6. /\ BufferTypeOK' /\ (\A b \in AllBuffers : refcount'[b] >= 0)
      /\ Exact' /\ Alive'
  BY <1>2, <1>5, Lost DEF IInv
<1>7. TypeOK'
  BY <1>1, <1>3, <1>6 DEF IInv, TypeOK, AtOnce
<1> QED BY <1>4, <1>6, <1>7 DEF IInv

LEMMA CountUpKeeps ==
  ASSUME IInv, NEW t \in Threads, CountUp(t)
  PROVE  IInv'
<1>1. /\ pc[t] = "addref" /\ str' = str /\ AddRef(str[count[t]])
      /\ count[t] \in Objects /\ Placed(t)
  BY DEF CountUp, IInv, TypeOK
<1>2. PICK o \in Objects, c \in AllBuffers : o = count[t] /\ c = str[o]
  BY <1>1 DEF IInv, TypeOK, Placed
<1>3. /\ pc' \in [Threads -> {"idle", "addref", "swap", "release"}]
      /\ count' = count
      /\ target' \in [Threads -> Handles \cup {NoHandle}]
      /\ writes' \in [Threads -> SUBSET Handles]
      /\ reads' \in [Threads -> SUBSET Handles]
      /\ Disjoint'
      /\ \A u \in Threads \ {t} :
           /\ pc'[u] = pc[u] /\ count'[u] = count[u]
           /\ target'[u] = target[u]
           /\ writes'[u] = writes[u] /\ reads'[u] = reads[u]
      /\ pc'[t] # "addref"
  <2>1. CASE target[t] = NoHandle
    <3>1. Finish(t)
      BY <2>1 DEF CountUp
    <3> QED BY <3>1, Finished
  <2>2. CASE target[t] # NoHandle
    <3>1. /\ pc' = [pc EXCEPT ![t] = "swap"]
          /\ UNCHANGED <<count, target, writes, reads>>
      BY <2>2 DEF CountUp
    <3>2. Disjoint'
      BY <3>1 DEF IInv, Disjoint
    <3>3. pc \in [Threads -> {"idle", "addref", "swap", "release"}]
      BY DEF IInv, TypeOK
    <3>4. /\ pc' \in [Threads -> {"idle", "addref", "swap", "release"}]
          /\ \A u \in Threads \ {t} : pc'[u] = pc[u]
          /\ pc'[t] # "addref"
      BY <3>1, <3>3
    <3> QED BY <3>1, <3>2, <3>4 DEF IInv, TypeOK
  <2> QED BY <2>1, <2>2
<1>4. \A u \in Threads \ {t} : Placed(u)'
  BY <1>1, <1>3 DEF IInv, Placed
<1>5. Placed(t)'
  <2>1. CASE target[t] = NoHandle
    <3>1. Finish(t)
      BY <2>1 DEF CountUp
    <3>2. pc'[t] = "idle" /\ writes'[t] = {} /\ reads'[t] = {}
      BY <3>1, Finished
    <3> QED BY <1>1, <2>1, <3>2 DEF Placed
  <2>2. CASE target[t] # NoHandle
    <3>1. /\ pc'[t] = "swap"
          /\ UNCHANGED <<count, target, writes, reads>>
      BY <2>2 DEF CountUp, IInv, TypeOK
    <3> QED BY <1>1, <2>2, <3>1 DEF Placed
  <2> QED BY <2>1, <2>2
<1>6. o \in Uncounted /\ Uncounted' = Uncounted \ {o}
  <2>1. \A u \in Threads \ {t} : pc[u] = "addref" => count[u] # o
    <3> SUFFICES ASSUME NEW u \in Threads \ {t}, pc[u] = "addref",
                        count[u] = o
                 PROVE  FALSE
      OBVIOUS
    <3>1. o \in writes[t] \cup {t} /\ o \in writes[u] \cup {u}
      BY <1>1, <1>2 DEF IInv, Placed
    <3>2. /\ writes[t] \cap writes[u] = {}
          /\ writes[t] \in SUBSET Handles /\ writes[u] \in SUBSET Handles
      BY DEF IInv, Disjoint, TypeOK
    <3> QED BY <3>1, <3>2, StringAssumption
  <2> QED BY <1>1, <1>2, <1>3, <2>1 DEF Uncounted
<1>7. /\ o \in Objects \ Holding(c)
      /\ Holding(c)' = Holding(c) \cup {o}
      /\ \A b \in AllBuffers \ {c} : Holding(b)' = Holding(b)
  BY <1>1, <1>2, <1>6 DEF Holding
<1>8. c = nullstr \/ Holding(c) # {}
  <2>1. CASE \E s \in reads[t] : str[s] = c
    <3>1. PICK s \in reads[t] : str[s] = c
      BY <2>1
    <3>2. s \in Handles /\ \A u \in Threads : s \notin writes[u]
      BY DEF IInv, Disjoint, TypeOK
    <3>3. s \notin Uncounted
      BY <3>2, CountedUnlessWritten
    <3> QED BY <3>1, <3>2, <3>3 DEF Holding, Objects
  <2> QED BY <1>1, <1>2, <2>1 DEF Placed
<1>9. /\ BufferTypeOK' /\ (\A b \in AllBuffers : refcount'[b] >= 0)
      /\ Exact' /\ Alive'
  BY <1>1, <1>2, <1>7, <1>8, Gained DEF IInv
<1>10. TypeOK'
  BY <1>1, <1>3, <1>9 DEF IInv, TypeOK
<1> QED BY <1>3, <1>4, <1>5, <1>9, <1>10 DEF IInv

LEMMA SwapInKeeps ==
  ASSUME IInv, NEW t \in Threads, SwapIn(t)
  PROVE  IInv'
<1>1. PICK h \in Handles : h = target[t] /\ str[h] # Dead /\ h \in writes[t]
  BY DEF SwapIn, IInv, TypeOK, Placed
<1>2. /\ pc[t] = "swap" /\ pc' = [pc EXCEPT ![t] = "release"]
      /\ str' = [str EXCEPT ![t] = str[h], ![h] = str[t]]
      /\ UNCHANGED <<bufferVars, count, target, writes, reads>>
      /\ str[t] # Dead /\ t # h /\ t \in Objects /\ h \in Objects
  BY <1>1, StringAssumption DEF SwapIn, IInv, Placed, Objects
<1>3. /\ str' \in [Objects -> AllBuffers \cup {Dead}]
      /\ str'[t] = str[h] /\ str'[h] = str[t]
      /\ \A y \in Objects \ {t, h} : str'[y] = str[y]
  <2>1. str[t] \in AllBuffers \cup {Dead} /\ str[h] \in AllBuffers \cup {Dead}
    BY <1>2 DEF IInv, TypeOK
  <2> QED BY <1>2, <2>1, StrUpdateTwo
<1>4. /\ pc' \in [Threads -> {"idle", "addref", "swap", "release"}]
      /\ pc'[t] = "release"
      /\ \A u \in Threads \ {t} : pc'[u] = pc[u]
  BY <1>2 DEF IInv, TypeOK
<1>5. Uncounted' = Uncounted
  BY <1>2, <1>4 DEF Uncounted
<1>6. t \notin Uncounted /\ h \notin Uncounted
  <2>1. t \notin Uncounted
    BY <1>2, CountedUnlessWritten
  <2>2. \A u \in Threads \ {t} : writes[t] \cap writes[u] = {}
    BY DEF IInv, Disjoint
  <2>3. \A u \in Threads : pc[u] = "addref" => count[u] \in writes[u] \cup {u}
    BY CountedUnlessWritten
  <2>4. h \notin Threads
    BY StringAssumption
  <2> QED BY <1>1, <1>2, <2>1, <2>2, <2>3, <2>4 DEF Uncounted
<1>7. \A b \in AllBuffers :
        \/ Holding(b)' = Holding(b)
        \/ \E x \in Holding(b), y \in Objects \ Holding(b) :
             Holding(b)' = (Holding(b) \ {x}) \cup {y}
  BY <1>2, <1>3, <1>5, <1>6, Exchanged
<1>8. Exact' /\ Alive'
  BY <1>2, <1>7, Rebalanced DEF IInv
<1>9. \A u \in Threads \ {t} : Placed(u)'
  <2>1. \A u \in Threads \ {t} : (writes[u] \cup reads[u]) \cap {h} = {}
    BY <1>1 DEF IInv, Disjoint
  <2>2. \A x \in Objects \ ({h} \cup {t}) : str'[x] = str[x]
    BY <1>3
  <2> QED BY <1>2, <1>4, <2>1, <2>2, OthersUndisturbed
<1>10. Placed(t)'
  BY <1>1, <1>2, <1>3, <1>4 DEF Placed
<1>11. TypeOK' /\ Disjoint'
  BY <1>2, <1>3, <1>4
     DEF IInv, TypeOK, Disjoint, BufferTypeOK, bufferVars
<1> QED BY <1>8, <1>9, <1>10, <1>11 DEF IInv

LEMMA ReleaseKeeps ==
  ASSUME IInv, NEW t \in Threads, Release(t)
  PROVE  IInv'
<1>1. /\ pc[t] = "release" /\ Finish(t) /\ str' = [str EXCEPT ![t] = Dead]
      /\ str[t] # Dead /\ t \in Objects
  BY DEF Release, IInv, Placed, Objects
<1>2. PICK c \in AllBuffers : str[t] = c /\ DropRef(c)
  BY <1>1 DEF IInv, TypeOK, Release
<1>3. /\ str' \in [Objects -> AllBuffers \cup {Dead}] /\ str'[t] = Dead
      /\ \A y \in Objects \ {t} : str'[y] = str[y]
  BY <1>1, StrUpdate
<1>4. /\ pc' \in [Threads -> {"idle", "addref", "swap", "release"}]
      /\ count' \in [Threads -> Objects]
      /\ target' \in [Threads -> Handles \cup {NoHandle}]
      /\ writes' \in [Threads -> SUBSET Handles]
      /\ reads' \in [Threads -> SUBSET Handles]
      /\ pc'[t] = "idle" /\ writes'[t] = {} /\ reads'[t] = {}
      /\ \A u \in Threads \ {t} :
           /\ pc'[u] = pc[u] /\ count'[u] = count[u]
           /\ target'[u] = target[u]
           /\ writes'[u] = writes[u] /\ reads'[u] = reads[u]
      /\ Disjoint'
  BY <1>1, Finished
<1>5. t \notin Uncounted /\ Uncounted' = Uncounted
  BY <1>1, <1>4, CountedUnlessWritten DEF Uncounted
<1>6. /\ t \in Holding(c)
      /\ Holding(c)' = Holding(c) \ {t}
      /\ \A b \in AllBuffers \ {c} : Holding(b)' = Holding(b)
  BY <1>1, <1>2, <1>3, <1>5, Dropped
<1>7. /\ BufferTypeOK' /\ (\A b \in AllBuffers : refcount'[b] >= 0)
      /\ Exact' /\ Alive'
  BY <1>2, <1>6, Lost DEF IInv
<1>8. \A u \in Threads \ {t} : Placed(u)'
  <2>1. \A x \in Objects \ ({} \cup {t}) : str'[x] = str[x]
    BY <1>3
  <2> QED BY <1>4, <2>1, OthersUndisturbed
<1>9. Placed(t)'
  BY <1>3, <1>4 DEF Placed
<1>10. TypeOK'
  BY <1>3, <1>4, <1>7 DEF TypeOK
<1> QED BY <1>4, <1>7, <1>8, <1>9, <1>10 DEF IInv

-----------------------------------------------------------------------------
(* The invariant of the specification.                                     *)

LEMMA InitKeeps == Init => IInv
<1> SUFFICES ASSUME Init PROVE IInv
  OBVIOUS
<1>1. /\ nullstr \in AllBuffers /\ Empty # Freed /\ nullstr \notin Buffers
      /\ IntMax \in Nat \ {0} /\ Empty \in Contents
  BY BufferAssumption DEF AllBuffers
<1>2. TypeOK
  <2>1. /\ \A b \in AllBuffers :
             (IF b = nullstr THEN 1 ELSE 0) \in -IntMax - 1 .. IntMax
        /\ \A b \in AllBuffers :
             (IF b = nullstr THEN Empty ELSE Freed) \in Contents \cup {Freed}
    BY <1>1
  <2>2. BufferTypeOK /\ \A b \in AllBuffers : refcount[b] >= 0
    BY <2>1 DEF Init, BufferInit, BufferTypeOK
  <2> QED BY <2>2 DEF Init, TypeOK, Objects
<1>3. \A b \in AllBuffers : Holding(b) = {}
  BY StringAssumption DEF Init, Holding
<1>4. Exact
  <2> SUFFICES ASSUME NEW b \in AllBuffers
               PROVE  refcount[b] = Cardinality(Holding(b))
                                      + (IF b = nullstr THEN 1 ELSE 0)
    BY DEF Exact
  <2>1. Cardinality(Holding(b)) = 0
    BY <1>3, FS_EmptySet
  <2> QED BY <2>1 DEF Init, BufferInit
<1>5. Alive
  BY <1>1, <1>3 DEF Init, BufferInit, Alive, AllBuffers
<1>6. Disjoint
  BY DEF Init, Disjoint
<1>7. \A t \in Threads : Placed(t)
  BY DEF Init, Placed, Objects
<1> QED BY <1>2, <1>4, <1>5, <1>6, <1>7 DEF IInv

LEMMA StutterKeeps == IInv /\ UNCHANGED vars => IInv'
<1> SUFFICES ASSUME IInv, UNCHANGED vars PROVE IInv'
  OBVIOUS
<1>1. Uncounted' = Uncounted
  BY DEF vars, Uncounted
<1>2. \A b : Holding(b)' = Holding(b)
  BY <1>1 DEF vars, Holding
<1>3. Exact' /\ Alive'
  BY <1>2 DEF IInv, Exact, Alive, vars, bufferVars
<1>4. TypeOK' /\ Disjoint' /\ \A t \in Threads : Placed(t)'
  BY DEF IInv, TypeOK, BufferTypeOK, Disjoint, Placed, vars, bufferVars
<1> QED BY <1>3, <1>4 DEF IInv

THEOREM Inductive == Spec => []IInv
<1>1. ASSUME IInv, Next PROVE IInv'
  BY <1>1, DefaultKeeps, NewKeeps, CopyKeeps, MoveKeeps, CopyAssignKeeps,
     MoveAssignKeeps, SwapKeeps, DestroyKeeps, CountUpKeeps, SwapInKeeps,
     ReleaseKeeps
     DEF Next
<1>2. IInv /\ [Next]_vars => IInv'
  BY <1>1, StutterKeeps
<1> QED BY <1>2, InitKeeps, PTL DEF Spec

(* Every variable keeps its type: in particular no count becomes negative  *)
(* (string.cpp:10-75).                                                     *)
THEOREM TypeCorrect == Spec => []TypeOK
BY Inductive, PTL DEF IInv

-----------------------------------------------------------------------------
(* What the user of a string relies on.                                    *)

(* An object that exists points to characters.                             *)
LEMMA Readable ==
  ASSUME IInv, NEW x \in Objects, str[x] # Dead
  PROVE  /\ str[x] \in AllBuffers
         /\ content[str[x]] \in Contents /\ content[str[x]] # Freed
<1>1. /\ str[x] \in AllBuffers
      /\ \A b \in AllBuffers : content[b] \in Contents \cup {Freed}
  BY DEF IInv, TypeOK, BufferTypeOK
<1>2. content[nullstr] # Freed
  BY BufferAssumption DEF IInv, Alive
<1>3. ASSUME NEW y \in Objects, str[y] \in AllBuffers, y \notin Uncounted
      PROVE  content[str[y]] # Freed
  <2>1. Holding(str[y]) # {}
    BY <1>3 DEF Holding
  <2> QED BY <1>2, <1>3, <2>1 DEF IInv, Alive, AllBuffers
<1>4. CASE x \in Uncounted
  <2>1. PICK t \in Threads : pc[t] = "addref" /\ count[t] = x
    BY <1>4 DEF Uncounted
  <2>2. CASE \E s \in reads[t] : str[s] = str[x]
    <3>1. PICK s \in reads[t] : str[s] = str[x]
      BY <2>2
    <3>2. s \in Handles /\ \A u \in Threads : s \notin writes[u]
      BY DEF IInv, Disjoint, TypeOK
    <3>3. s \notin Uncounted /\ s \in Objects
      BY <3>2, CountedUnlessWritten DEF Objects
    <3> QED BY <1>1, <1>3, <3>1, <3>3
  <2> QED BY <1>1, <1>2, <2>1, <2>2 DEF IInv, Placed
<1> QED BY <1>1, <1>3, <1>4

(* No object points into freed memory, and no buffer outlives its last     *)
(* object (string.cpp:25-75).                                              *)
THEOREM NeverReadsFreed == Spec => []AllocatedWhileShared
<1>1. IInv => AllocatedWhileShared
  <2> SUFFICES ASSUME IInv, NEW b \in Buffers
               PROVE  content[b] # Freed <=> Pointing(b) # {}
    BY DEF AllocatedWhileShared
  <2>1. ASSUME content[b] # Freed PROVE Pointing(b) # {}
    BY <2>1 DEF IInv, Alive, Holding, Pointing
  <2>2. ASSUME Pointing(b) # {} PROVE content[b] # Freed
    BY <2>2, Readable, StringAssumption DEF Pointing, AllBuffers
  <2> QED BY <2>1, <2>2
<1> QED BY <1>1, Inductive, PTL

(* Each constructor that has not counted yet has an object of its own.     *)
LEMMA CountingPointing ==
  ASSUME IInv, NEW b \in AllBuffers
  PROVE  /\ IsFiniteSet(Counting(b)) /\ Cardinality(Counting(b)) \in Nat
         /\ Cardinality({o \in Objects : str[o] = b /\ o \in Uncounted}) =
              Cardinality(Counting(b))
<1> DEFINE U == {o \in Objects : str[o] = b /\ o \in Uncounted}
           f == [t \in Counting(b) |-> count[t]]
<1>1. IsFiniteSet(Counting(b)) /\ Cardinality(Counting(b)) \in Nat
  <2>1. IsFiniteSet(Threads) /\ Counting(b) \in SUBSET Threads
    BY StringAssumption DEF Counting
  <2> QED BY <2>1, FS_Subset, FS_CardinalityType
<1>2. f \in [Counting(b) -> U]
  BY DEF Counting, Uncounted, IInv, TypeOK
<1>3. ASSUME NEW t \in Counting(b), NEW u \in Counting(b), f[t] = f[u]
      PROVE  t = u
  <2> SUFFICES ASSUME t # u PROVE FALSE
    OBVIOUS
  <2>1. count[t] \in writes[t] \cup {t} /\ count[t] \in writes[u] \cup {u}
    BY <1>3 DEF Counting, IInv, Placed
  <2>2. /\ writes[t] \cap writes[u] = {}
        /\ writes[t] \in SUBSET Handles /\ writes[u] \in SUBSET Handles
        /\ t \in Threads /\ u \in Threads
    BY DEF Counting, IInv, Disjoint, TypeOK
  <2> QED BY <2>1, <2>2, StringAssumption
<1>4. \A o \in U : \E t \in Counting(b) : f[t] = o
  BY DEF Uncounted, Counting
<1>5. f \in Bijection(Counting(b), U)
  BY <1>2, <1>3, <1>4, Fun_IsBij
<1>6. ExistsBijection(Counting(b), U)
  BY <1>5 DEF ExistsBijection
<1>7. Cardinality(U) = Cardinality(Counting(b))
  BY <1>1, <1>6, FS_Bijection
<1> QED BY <1>1, <1>7

(* The count of a buffer is the number of objects that share it, less      *)
(* those whose constructor has not counted yet (string.cpp:25-75).         *)
THEOREM CountsRight == Spec => []CountsAreExact
<1>1. IInv => CountsAreExact
  <2> SUFFICES ASSUME IInv, NEW b \in AllBuffers
               PROVE  refcount[b] + Cardinality(Counting(b)) =
                        Cardinality(Pointing(b))
                          + (IF b = nullstr THEN 1 ELSE 0)
    BY DEF CountsAreExact
  <2> DEFINE U == {o \in Objects : str[o] = b /\ o \in Uncounted}
  <2>1. /\ IsFiniteSet(Holding(b)) /\ Cardinality(Holding(b)) \in Nat
        /\ IsFiniteSet(U) /\ Cardinality(U) \in Nat
    BY HoldersAreObjects, SubsetFinite
  <2>2. Pointing(b) = Holding(b) \cup U /\ Holding(b) \cap U = {}
    BY DEF Pointing, Holding
  <2>3. Cardinality(Pointing(b)) = Cardinality(Holding(b)) + Cardinality(U)
    <3>1. Cardinality(Holding(b) \cup U) =
            Cardinality(Holding(b)) + Cardinality(U)
              - Cardinality(Holding(b) \cap U)
      BY <2>1, FS_Union
    <3>2. Cardinality(Holding(b) \cap U) = 0
      BY <2>2, FS_EmptySet
    <3> HIDE DEF U
    <3> QED BY <2>1, <2>2, <3>1, <3>2
  <2>4. /\ Cardinality(U) = Cardinality(Counting(b))
        /\ Cardinality(Counting(b)) \in Nat
    BY CountingPointing
  <2>5. refcount[b] =
          Cardinality(Holding(b)) + (IF b = nullstr THEN 1 ELSE 0)
    BY DEF IInv, Exact
  <2> HIDE DEF U
  <2> QED BY <2>1, <2>3, <2>4, <2>5
<1> QED BY <1>1, Inductive, PTL

-----------------------------------------------------------------------------
(* Strings are values.                                                     *)

(* The value of each object, as the refinement mapping has it.             *)
Shown == [o \in Objects |-> IF Exists(o) THEN content[str[o]] ELSE Freed]

LEMMA ShownOf ==
  ASSUME IInv
  PROVE  /\ \A x \in Objects : (Shown[x] # Freed) <=> (str[x] # Dead)
         /\ \A x \in Objects : str[x] # Dead => Shown[x] = content[str[x]]
         /\ \A x \in Objects : str[x] = Dead => Shown[x] = Freed
         /\ \A x \in Objects : str[x] = nullstr => Shown[x] = Empty
<1>1. \A x \in Objects : str[x] # Dead => Shown[x] = content[str[x]]
  BY DEF Shown, Exists
<1>2. \A x \in Objects : str[x] = Dead => Shown[x] = Freed
  BY DEF Shown, Exists
<1>3. \A x \in Objects : str[x] # Dead => content[str[x]] # Freed
  BY Readable
<1>4. nullstr # Dead
  BY StringAssumption DEF AllBuffers
<1> QED BY <1>1, <1>2, <1>3, <1>4 DEF IInv, Alive

AllReadable == \A x \in Objects : str[x] # Dead => content[str[x]] # Freed

LEMMA ReadableNext == IInv' => AllReadable'
<1>1. IInv => AllReadable
  BY Readable DEF AllReadable
<1> QED BY <1>1, PTL

(* Characters never change while they are allocated, so whoever gets the   *)
(* pointer of an object shows what that object showed.                     *)
LEMMA ShownAgain ==
  ASSUME IInv, IInv',
         \A b \in AllBuffers :
           content[b] # Freed /\ content'[b] # Freed => content'[b] = content[b],
         NEW x \in Objects, NEW y \in Objects, str'[x] = str[y]
  PROVE  Shown'[x] = Shown[y]
<1>1. CASE str[y] = Dead
  BY <1>1 DEF Shown, Exists
<1>2. CASE str[y] # Dead
  <2>1. /\ str[y] \in AllBuffers /\ content[str[y]] # Freed
    BY <1>2, Readable
  <2>2. content'[str'[x]] # Freed
    BY <1>2, ReadableNext DEF AllReadable
  <2> QED BY <1>2, <2>1, <2>2 DEF Shown, Exists
<1> QED BY <1>1, <1>2

LEMMA Unaltered ==
  ASSUME IInv, Next
  PROVE  \A b \in AllBuffers :
           content[b] # Freed /\ content'[b] # Freed => content'[b] = content[b]
<1>0. content \in [AllBuffers -> Contents \cup {Freed}]
  BY DEF IInv, TypeOK, BufferTypeOK
<1>1. ASSUME content' = content
      PROVE  \A b \in AllBuffers : content'[b] = content[b]
  BY <1>1
<1>2. ASSUME NEW c, NEW d, Alloc(c, d)
      PROVE  \A b \in AllBuffers : content[b] # Freed => content'[b] = content[b]
  BY <1>0, <1>2 DEF Alloc
<1>3. ASSUME NEW c, DropRef(c)
      PROVE  \A b \in AllBuffers : content'[b] # Freed => content'[b] = content[b]
  BY <1>0, <1>3 DEF DropRef
<1>4. \/ content' = content
      \/ \E c, d : Alloc(c, d)
      \/ \E c : DropRef(c)
  <2> PICK t \in Threads :
        \/ \E h \in Handles :
             \/ Default(t, h) \/ Destroy(t, h)
             \/ \E c \in Contents : New(t, h, c)
             \/ \E s \in Handles : \/ Copy(t, h, s) \/ Move(t, h, s)
                                   \/ CopyAssign(t, h, s)
                                   \/ MoveAssign(t, h, s) \/ Swap(t, h, s)
        \/ CountUp(t) \/ SwapIn(t) \/ Release(t)
    BY DEF Next
  <2>1. CASE CountUp(t)
    BY <2>1 DEF CountUp, AddRef
  <2>2. CASE SwapIn(t)
    BY <2>2 DEF SwapIn, bufferVars
  <2>3. CASE Release(t)
    BY <2>3 DEF Release
  <2>4. ASSUME NEW h \in Handles, Destroy(t, h) PROVE \E c : DropRef(c)
    BY <2>4 DEF Destroy
  <2>5. ASSUME NEW h \in Handles, NEW c \in Contents, New(t, h, c)
        PROVE  \E b, d : Alloc(b, d)
    BY <2>5 DEF New
  <2>6. ASSUME NEW h \in Handles, NEW s \in Handles,
               \/ Default(t, h) \/ Copy(t, h, s) \/ Move(t, h, s)
               \/ CopyAssign(t, h, s) \/ MoveAssign(t, h, s) \/ Swap(t, h, s)
        PROVE  content' = content
    BY <2>6 DEF Default, Copy, Move, CopyAssign, MoveAssign, Swap, bufferVars
  <2> QED BY <2>1, <2>2, <2>3, <2>4, <2>5, <2>6
<1> QED BY <1>1, <1>2, <1>3, <1>4

(* A step of the code is a step of the values, or invisible.               *)
LEMMA StepShows ==
  ASSUME IInv, IInv', Next
  PROVE  Value!ValueNext \/ UNCHANGED Shown
<1>1. \A x, y \in Objects : str'[x] = str[y] => Shown'[x] = Shown[y]
  BY Unaltered, ShownAgain
<1>2. /\ \A x \in Objects : str[x] # Dead <=> Shown[x] # Freed
      /\ \A x \in Objects : str'[x] = Dead => Shown'[x] = Freed
      /\ \A x \in Objects : str'[x] = nullstr => Shown'[x] = Empty
  <2>1. \A x \in Objects : str[x] # Dead <=> Shown[x] # Freed
    BY ShownOf
  <2>2. \A x \in Objects : str'[x] = Dead => Shown'[x] = Freed
    BY DEF Shown, Exists
  <2>3. \A x \in Objects : str'[x] = nullstr => Shown'[x] = Empty
    BY StringAssumption DEF Shown, Exists, IInv, Alive, AllBuffers
  <2> QED BY <2>1, <2>2, <2>3
<1>3. ASSUME NEW o \in Objects, NEW x \in Contents, str[o] = Dead,
             Shown'[o] = x, \A y \in Objects \ {o} : str'[y] = str[y]
      PROVE  Value!ValueNext
  <2>1. Shown' = [Shown EXCEPT ![o] = x]
    BY <1>1, <1>3 DEF Shown
  <2>2. Value!Construct(o, x)
    BY <1>2, <1>3, <2>1 DEF Value!Construct, Value!Live, Shown
  <2> QED BY <2>2 DEF Value!ValueNext
<1>4. ASSUME NEW o \in Objects, NEW s \in Objects, str[o] = Dead,
             str[s] # Dead, str'[o] = str[s],
             \A y \in Objects \ {o} : str'[y] = str[y]
      PROVE  Value!ValueNext
  <2>1. Shown' = [Shown EXCEPT ![o] = Shown[s]]
    BY <1>1, <1>4 DEF Shown
  <2>2. Value!CopyTo(o, s)
    BY <1>2, <1>4, <2>1 DEF Value!CopyTo, Value!Live, Shown
  <2> QED BY <2>2 DEF Value!ValueNext
<1>5. ASSUME NEW o \in Objects, NEW s \in Objects, o # s, str[o] = Dead,
             str[s] # Dead, str'[o] = str[s], str'[s] = nullstr,
             \A y \in Objects \ {o, s} : str'[y] = str[y]
      PROVE  Value!ValueNext
  <2>1. Shown' = [Shown EXCEPT ![o] = Shown[s], ![s] = Empty]
    <3>1. Shown'[o] = Shown[s] /\ Shown'[s] = Empty
      BY <1>1, <1>2, <1>5
    <3>2. \A y \in Objects \ {o, s} : Shown'[y] = Shown[y]
      BY <1>1, <1>5
    <3> QED BY <3>1, <3>2, <1>5 DEF Shown
  <2>2. Value!MoveTo(o, s)
    BY <1>2, <1>5, <2>1 DEF Value!MoveTo, Value!Live, Shown
  <2> QED BY <2>2 DEF Value!ValueNext
<1>6. ASSUME NEW o \in Objects, NEW s \in Objects, o # s, str[o] # Dead,
             str[s] # Dead, str'[o] = str[s], str'[s] = str[o],
             \A y \in Objects \ {o, s} : str'[y] = str[y]
      PROVE  Value!ValueNext
  <2>1. Shown' = [Shown EXCEPT ![o] = Shown[s], ![s] = Shown[o]]
    BY <1>1, <1>6 DEF Shown
  <2>2. Value!Exchange(o, s)
    BY <1>2, <1>6, <2>1 DEF Value!Exchange, Value!Live, Shown
  <2> QED BY <2>2 DEF Value!ValueNext
<1>7. ASSUME NEW o \in Objects, str[o] # Dead, str'[o] = Dead,
             \A y \in Objects \ {o} : str'[y] = str[y]
      PROVE  Value!ValueNext
  <2>1. Shown' = [Shown EXCEPT ![o] = Freed]
    BY <1>1, <1>2, <1>7 DEF Shown
  <2>2. Value!Destruct(o)
    BY <1>2, <1>7, <2>1 DEF Value!Destruct, Value!Live, Shown
  <2> QED BY <2>2 DEF Value!ValueNext
<1>8. PICK t \in Threads :
        \/ \E h \in Handles :
             \/ Default(t, h) \/ Destroy(t, h)
             \/ \E c \in Contents : New(t, h, c)
             \/ \E s \in Handles : \/ Copy(t, h, s) \/ Move(t, h, s)
                                   \/ CopyAssign(t, h, s)
                                   \/ MoveAssign(t, h, s) \/ Swap(t, h, s)
        \/ CountUp(t) \/ SwapIn(t) \/ Release(t)
  BY DEF Next
<1>9. /\ t \in Objects /\ Handles \subseteq Objects
      /\ \A h \in Handles : h # t
      /\ pc[t] = "idle" => str[t] = Dead
      /\ pc[t] \in {"swap", "release"} => str[t] # Dead
      /\ pc[t] = "swap" => target[t] \in Handles /\ str[target[t]] # Dead
  BY StringAssumption DEF Objects, IInv, TypeOK, Placed
<1>10. \A x \in Objects : str[x] \in AllBuffers \cup {Dead}
  BY DEF IInv, TypeOK
<1>11. ASSUME NEW h \in Handles, Default(t, h) PROVE Value!ValueNext
  <2>1. str[h] = Dead /\ str' = [str EXCEPT ![h] = nullstr]
    BY <1>11 DEF Default, Exists
  <2>2. str'[h] = nullstr /\ \A y \in Objects \ {h} : str'[y] = str[y]
    BY <2>1, <1>9 DEF IInv, TypeOK
  <2> QED BY <1>2, <1>3, <1>9, <2>1, <2>2, BufferAssumption
<1>12. ASSUME NEW h \in Handles, NEW c \in Contents, New(t, h, c)
       PROVE  Value!ValueNext
  <2>1. PICK b \in Buffers : Alloc(b, c) /\ str' = [str EXCEPT ![h] = b]
    BY <1>12 DEF New
  <2>2. str[h] = Dead
    BY <1>12 DEF New, Exists
  <2>3. str'[h] = b /\ \A y \in Objects \ {h} : str'[y] = str[y]
    BY <2>1, <1>9 DEF IInv, TypeOK
  <2>4. content'[b] = c
    BY <2>1 DEF Alloc, IInv, TypeOK, BufferTypeOK, AllBuffers
  <2>5. Shown'[h] = c
    BY <1>9, <2>3, <2>4, StringAssumption DEF Shown, Exists, AllBuffers
  <2> QED BY <1>3, <1>9, <2>2, <2>3, <2>5
<1>13. ASSUME NEW h \in Handles, NEW s \in Handles, Copy(t, h, s)
       PROVE  Value!ValueNext
  <2>1. /\ str[h] = Dead /\ str[s] # Dead /\ str' = [str EXCEPT ![h] = str[s]]
    BY <1>13 DEF Copy, Exists
  <2>2. str'[h] = str[s] /\ \A y \in Objects \ {h} : str'[y] = str[y]
    BY <2>1, <1>9 DEF IInv, TypeOK
  <2> QED BY <1>4, <1>9, <2>1, <2>2
<1>14. ASSUME NEW h \in Handles, NEW s \in Handles, CopyAssign(t, h, s)
       PROVE  Value!ValueNext
  <2>1. /\ str[t] = Dead /\ str[s] # Dead /\ str' = [str EXCEPT ![t] = str[s]]
    BY <1>14, <1>9 DEF CopyAssign, Exists, Begin, MayUse
  <2>2. str'[t] = str[s] /\ \A y \in Objects \ {t} : str'[y] = str[y]
    BY <2>1, <1>9 DEF IInv, TypeOK
  <2> QED BY <1>4, <1>9, <2>1, <2>2
<1>15. ASSUME NEW h \in Handles, NEW s \in Handles, Move(t, h, s)
       PROVE  Value!ValueNext
  <2>1. /\ h # s /\ str[h] = Dead /\ str[s] # Dead
        /\ str' = [str EXCEPT ![h] = str[s], ![s] = nullstr]
    BY <1>15 DEF Move, Exists
  <2>2. /\ str'[h] = str[s] /\ str'[s] = nullstr
        /\ \A y \in Objects \ {h, s} : str'[y] = str[y]
    BY <2>1, <1>9 DEF IInv, TypeOK
  <2> QED BY <1>5, <1>9, <2>1, <2>2
<1>16. ASSUME NEW h \in Handles, NEW s \in Handles, MoveAssign(t, h, s)
       PROVE  Value!ValueNext
  <2>1. /\ t # s /\ str[t] = Dead /\ str[s] # Dead
        /\ str' = [str EXCEPT ![t] = str[s], ![s] = nullstr]
    BY <1>16, <1>9 DEF MoveAssign, Exists, Begin, MayUse
  <2>2. /\ str'[t] = str[s] /\ str'[s] = nullstr
        /\ \A y \in Objects \ {t, s} : str'[y] = str[y]
    BY <2>1, <1>9 DEF IInv, TypeOK
  <2> QED BY <1>5, <1>9, <2>1, <2>2
<1>17. ASSUME NEW h \in Handles, NEW s \in Handles, Swap(t, h, s)
       PROVE  Value!ValueNext
  <2>1. /\ h # s /\ str[h] # Dead /\ str[s] # Dead
        /\ str' = [str EXCEPT ![h] = str[s], ![s] = str[h]]
    BY <1>17 DEF Swap, Exists
  <2>2. /\ str'[h] = str[s] /\ str'[s] = str[h]
        /\ \A y \in Objects \ {h, s} : str'[y] = str[y]
    BY <2>1, <1>9 DEF IInv, TypeOK
  <2> QED BY <1>6, <1>9, <2>1, <2>2
<1>18. ASSUME NEW h \in Handles, Destroy(t, h) PROVE Value!ValueNext
  <2>1. str[h] # Dead /\ str' = [str EXCEPT ![h] = Dead]
    BY <1>18 DEF Destroy, Exists
  <2>2. str'[h] = Dead /\ \A y \in Objects \ {h} : str'[y] = str[y]
    BY <2>1, <1>9 DEF IInv, TypeOK
  <2> QED BY <1>7, <1>9, <2>1, <2>2
<1>19. ASSUME CountUp(t) PROVE UNCHANGED Shown
  BY <1>19 DEF CountUp, AddRef, Shown, Exists
<1>20. ASSUME SwapIn(t) PROVE Value!ValueNext
  <2>1. /\ pc[t] = "swap"
        /\ str' = [str EXCEPT ![t] = str[target[t]], ![target[t]] = str[t]]
    BY <1>20 DEF SwapIn
  <2>2. PICK h \in Handles : h = target[t]
    BY <1>9, <2>1
  <2>3. /\ str'[t] = str[h] /\ str'[h] = str[t]
        /\ \A y \in Objects \ {t, h} : str'[y] = str[y]
    BY <1>9, <2>1, <2>2 DEF IInv, TypeOK
  <2> QED BY <1>6, <1>9, <2>1, <2>2, <2>3
<1>21. ASSUME Release(t) PROVE Value!ValueNext
  <2>1. str[t] # Dead /\ str' = [str EXCEPT ![t] = Dead]
    BY <1>9, <1>21 DEF Release
  <2>2. str'[t] = Dead /\ \A y \in Objects \ {t} : str'[y] = str[y]
    BY <2>1, <1>9 DEF IInv, TypeOK
  <2> QED BY <1>7, <1>9, <2>1, <2>2
<1> QED BY <1>8, <1>11, <1>12, <1>13, <1>14, <1>15, <1>16, <1>17, <1>18,
           <1>19, <1>20, <1>21

(* Strings are values: sharing, freeing and reusing the buffers is not     *)
(* visible to the owner of another string (string.hpp:8-41).               *)
THEOREM Refinement == Spec => ImplementsValues
<1>1. Init => Value!ValueInit
  BY DEF Init, Value!ValueInit, Exists
<1>2. ASSUME IInv, IInv', [Next]_vars
      PROVE  Value!ValueNext \/ UNCHANGED Shown
  <2>1. CASE UNCHANGED vars
    BY <2>1 DEF vars, bufferVars, Shown, Exists
  <2>2. CASE Next
    BY <1>2, <2>2, StepShows
  <2> QED BY <1>2, <2>1, <2>2
<1>3. IInv /\ IInv' /\ [Next]_vars => [Value!ValueNext]_Shown
  BY <1>2
<1> QED BY <1>1, <1>3, Inductive, PTL
        DEF Spec, ImplementsValues, Value!ValueSpec, Shown

=============================================================================

---------------------------- MODULE LogRecordsProofs ----------------------------
(****************************************************************************)
(* Theorems about log statements, for any threads, loggers and locations    *)
(* and any depth of statements and destructors inside each other.           *)
(****************************************************************************)
EXTENDS LogRecords, FiniteSetTheorems, TLAPS

\* The destructors outside of the frame at i.
Below(s, i) == {j \in 1 .. i - 1 : s[j] = Destructor}

\* Every open record has noted what the variable holds.
Located(s, loc) ==
    \A i \in DOMAIN s : s[i] # Destructor => loc \in s[i].stored

\* Each destructor is run by an exception of its own, and what the pump of a
\* record has counted are the exceptions of the destructors around it.
Counted(s, uncaught) ==
    /\ Cardinality(Destructors(s)) <= uncaught
    /\ \A i \in DOMAIN s :
           s[i] # Destructor => s[i].uncaught = Cardinality(Below(s, i))

Sound(s, loc, uncaught) == Located(s, loc) /\ Counted(s, uncaught)

IInv ==
    /\ TypeOK
    /\ \A t \in Threads : Sound(stack[t], v[t], raised[t])
    /\ ShowsItsLocation

------------------------------------------------------------------------------
(* Frames.                                                                  *)

LEMMA FramesDiffer ==
    /\ Destructor \in Frames
    /\ \A loc \in Locations, n \in 0 .. MaxRaised :
           /\ Record(loc, n) \in Frames
           /\ Record(loc, n) # Destructor
    /\ \A f \in Frames, loc \in Places :
           f # Destructor =>
               /\ [f EXCEPT !.stored = @ \cup {loc}] \in Frames
               /\ [f EXCEPT !.stored = @ \cup {loc}] # Destructor
               /\ f.own \in Locations /\ f.uncaught \in 0 .. MaxRaised
               /\ f.stored \in SUBSET Places
BY NowhereIsNoPlace DEF Destructor, Frames, Record, Places

LEMMA DestructorsAreBelow ==
    ASSUME NEW s \in Seq(Frames)
    PROVE  /\ Destructors(s) = Below(s, Len(s) + 1)
           /\ \A n \in Nat : IsFiniteSet(Below(s, n))
           /\ Cardinality(Destructors(s)) \in Nat
<1>1. Destructors(s) = Below(s, Len(s) + 1)
    BY DEF Destructors, Below
<1>2. ASSUME NEW n \in Nat PROVE IsFiniteSet(Below(s, n))
    <2>1. IsFiniteSet(1 .. n - 1)
        BY FS_Interval
    <2>2. Below(s, n) \subseteq 1 .. n - 1
        BY DEF Below
    <2> QED
        BY <2>1, <2>2, FS_Subset
<1> QED
    BY <1>1, <1>2, FS_CardinalityType

(* A frame on top: what is below of what does not change.                   *)
LEMMA Pushed ==
    ASSUME NEW s \in Seq(Frames), NEW f \in Frames
    PROVE  LET n == Append(s, f)
           IN  /\ n \in Seq(Frames) /\ Len(n) = Len(s) + 1
               /\ \A i \in DOMAIN s : n[i] = s[i]
               /\ n[Len(n)] = f
               /\ \A i \in DOMAIN n : Below(n, i) = Below(s, i)
               /\ Destructors(n) =
                      IF f = Destructor THEN Destructors(s) \cup {Len(s) + 1}
                      ELSE Destructors(s)
<1> DEFINE n == Append(s, f)
<1>1. /\ n \in Seq(Frames) /\ Len(n) = Len(s) + 1 /\ Len(s) \in Nat
      /\ DOMAIN s = 1 .. Len(s) /\ DOMAIN n = 1 .. Len(s) + 1
      /\ \A i \in 1 .. Len(s) : n[i] = s[i]
      /\ n[Len(s) + 1] = f
    OBVIOUS
<1> HIDE DEF n
<1>2. ASSUME NEW i \in DOMAIN n PROVE Below(n, i) = Below(s, i)
    BY <1>1 DEF Below
<1>3. Destructors(n) = IF f = Destructor THEN Destructors(s) \cup {Len(s) + 1}
                       ELSE Destructors(s)
    BY <1>1 DEF Destructors
<1> QED
    BY <1>1, <1>2, <1>3 DEF n

(* The top frame goes.                                                      *)
LEMMA Popped ==
    ASSUME NEW s \in Seq(Frames), s # <<>>
    PROVE  LET n == Front(s)
           IN  /\ n \in Seq(Frames) /\ Len(n) = Len(s) - 1
               /\ Len(s) \in DOMAIN s
               /\ DOMAIN n \subseteq DOMAIN s
               /\ \A i \in DOMAIN n : n[i] = s[i] /\ Below(n, i) = Below(s, i)
               /\ Destructors(n) = Destructors(s) \ {Len(s)}
               /\ Destructors(n) = Below(s, Len(s))
<1> DEFINE n == Front(s)
<1>1. Len(s) \in Nat /\ Len(s) >= 1 /\ DOMAIN s = 1 .. Len(s)
    OBVIOUS
<1>2. /\ n \in Seq(Frames) /\ Len(n) = Len(s) - 1
      /\ DOMAIN n = 1 .. Len(s) - 1
      /\ \A i \in 1 .. Len(s) - 1 : n[i] = s[i]
    BY <1>1 DEF Front
<1> HIDE DEF n
<1>3. ASSUME NEW i \in DOMAIN n PROVE Below(n, i) = Below(s, i)
    BY <1>1, <1>2 DEF Below
<1>4. Destructors(n) = Below(s, Len(s))
    BY <1>1, <1>2 DEF Destructors, Below
<1>5. Destructors(n) = Destructors(s) \ {Len(s)}
    BY <1>1, <1>2 DEF Destructors
<1> QED
    BY <1>1, <1>2, <1>3, <1>4, <1>5 DEF n

(* The open records note a location; what is a destructor stays one.        *)
LEMMA NotedKeeps ==
    ASSUME TypeOK, NEW t \in Threads, NEW loc \in Places
    PROVE  LET s == stack[t]
               n == Noted(t, loc)
           IN  /\ n \in Seq(Frames) /\ Len(n) = Len(s) /\ DOMAIN n = DOMAIN s
               /\ Destructors(n) = Destructors(s)
               /\ \A i \in DOMAIN s :
                      /\ Below(n, i) = Below(s, i)
                      /\ n[i] = Destructor <=> s[i] = Destructor
                      /\ n[i] # Destructor =>
                             /\ n[i].stored = s[i].stored \cup {loc}
                             /\ n[i].uncaught = s[i].uncaught
<1> DEFINE s == stack[t]
           n == Noted(t, loc)
           Note(f) == IF f = Destructor THEN Destructor
                      ELSE [f EXCEPT !.stored = @ \cup {loc}]
<1>1. s \in Seq(Frames) /\ Len(s) \in Nat /\ DOMAIN s = 1 .. Len(s)
    BY DEF TypeOK
<1>2. n = [i \in 1 .. Len(s) |-> Note(s[i])]
    BY <1>1 DEF Noted
<1>3. ASSUME NEW f \in Frames
      PROVE  /\ Note(f) \in Frames
             /\ Note(f) = Destructor <=> f = Destructor
             /\ f # Destructor => /\ Note(f).stored = f.stored \cup {loc}
                                  /\ Note(f).uncaught = f.uncaught
    <2>1. CASE f = Destructor
        BY <2>1, FramesDiffer
    <2>2. CASE f # Destructor
        <3>1. /\ Note(f) \in Frames /\ Note(f) # Destructor
              /\ Note(f) = [f EXCEPT !.stored = @ \cup {loc}]
            BY <2>2, FramesDiffer
        <3>2. f \in [own : Locations, uncaught : 0 .. MaxRaised,
                     stored : SUBSET Places]
            BY <2>2 DEF Frames
        <3>3. /\ [f EXCEPT !.stored = @ \cup {loc}].stored = f.stored \cup {loc}
              /\ [f EXCEPT !.stored = @ \cup {loc}].uncaught = f.uncaught
            BY <3>2
        <3> QED
            BY <2>2, <3>1, <3>3
    <2> QED
        BY <2>1, <2>2
<1> HIDE DEF Note
<1>4. \A i \in 1 .. Len(s) : s[i] \in Frames
    BY <1>1
<1>5. n \in Seq(Frames) /\ Len(n) = Len(s) /\ DOMAIN n = DOMAIN s
    BY <1>1, <1>2, <1>3, <1>4
<1>6. \A i \in DOMAIN s :
          /\ n[i] = Destructor <=> s[i] = Destructor
          /\ n[i] # Destructor => /\ n[i].stored = s[i].stored \cup {loc}
                                  /\ n[i].uncaught = s[i].uncaught
    BY <1>1, <1>2, <1>3, <1>4
<1> HIDE DEF n, s
<1>7. Destructors(n) = Destructors(s)
    BY <1>5, <1>6 DEF Destructors
<1>8. \A i \in DOMAIN s : Below(n, i) = Below(s, i)
    BY <1>1, <1>6 DEF Below
<1> QED
    BY <1>5, <1>6, <1>7, <1>8 DEF n, s

------------------------------------------------------------------------------
(* One thread at a time has its part of the state replaced.                 *)

LEMMA Replaced ==
    ASSUME IInv, NEW t \in Threads,
           NEW s \in Seq(Frames), Len(s) <= MaxDepth,
           NEW loc \in Places, NEW n \in 0 .. MaxRaised,
           Sound(s, loc, n),
           stack' = [stack EXCEPT ![t] = s],
           v' = [v EXCEPT ![t] = loc],
           raised' = [raised EXCEPT ![t] = n],
           written' = {}
    PROVE  IInv'
<1>1. /\ TypeOK /\ \A u \in Threads : Sound(stack[u], v[u], raised[u])
    BY DEF IInv
<1>2. TypeOK'
    BY <1>1 DEF TypeOK
<1>3. ASSUME NEW u \in Threads PROVE Sound(stack'[u], v'[u], raised'[u])
    <2>1. CASE u = t
        <3>1. stack'[u] = s /\ v'[u] = loc /\ raised'[u] = n
            BY <1>1, <2>1 DEF TypeOK
        <3> QED
            BY <3>1
    <2>2. CASE u # t
        <3>1. stack'[u] = stack[u] /\ v'[u] = v[u] /\ raised'[u] = raised[u]
            BY <1>1, <2>2 DEF TypeOK
        <3> QED
            BY <1>1, <3>1
    <2> QED
        BY <2>1, <2>2
<1>4. ShowsItsLocation'
    BY DEF ShowsItsLocation
<1>5. \A u \in Threads : Sound(stack[u], v[u], raised[u])'
    BY <1>3 DEF Sound, Located, Counted, Destructors, Below
<1> QED
    BY <1>2, <1>4, <1>5 DEF IInv

LEMMA ThreadTyped ==
    ASSUME IInv, NEW t \in Threads
    PROVE  /\ stack[t] \in Seq(Frames) /\ Len(stack[t]) <= MaxDepth
           /\ Len(stack[t]) \in Nat /\ MaxDepth \in Nat
           /\ v[t] \in Places /\ raised[t] \in 0 .. MaxRaised
           /\ raised[t] \in Nat /\ MaxRaised \in Nat
           /\ Cardinality(Destructors(stack[t])) \in Nat
           /\ Sound(stack[t], v[t], raised[t])
           /\ v = [v EXCEPT ![t] = v[t]]
           /\ raised = [raised EXCEPT ![t] = raised[t]]
           /\ stack = [stack EXCEPT ![t] = stack[t]]
<1>1. /\ stack[t] \in Seq(Frames) /\ Len(stack[t]) <= MaxDepth
      /\ v[t] \in Places /\ raised[t] \in 0 .. MaxRaised
      /\ Sound(stack[t], v[t], raised[t])
      /\ v = [v EXCEPT ![t] = v[t]]
      /\ raised = [raised EXCEPT ![t] = raised[t]]
      /\ stack = [stack EXCEPT ![t] = stack[t]]
    BY DEF IInv, TypeOK
<1>2. Len(stack[t]) \in Nat
    BY <1>1
<1> QED
    BY <1>1, <1>2, DestructorsAreBelow, BoundsAreCounted

\* A thread that is not unwinding has an exception for each destructor.
LEMMA Settled ==
    ASSUME IInv, NEW t \in Threads, ~Unwinding(t)
    PROVE  Cardinality(Destructors(stack[t])) = raised[t]
BY ThreadTyped DEF Unwinding, Sound, Counted

LEMMA NotedSound ==
    ASSUME IInv, NEW t \in Threads, NEW loc \in Places
    PROVE  /\ Noted(t, loc) \in Seq(Frames)
           /\ Len(Noted(t, loc)) = Len(stack[t])
           /\ Sound(Noted(t, loc), loc, raised[t])
           /\ Destructors(Noted(t, loc)) = Destructors(stack[t])
<1>1. TypeOK /\ Sound(stack[t], v[t], raised[t])
    BY ThreadTyped DEF IInv
<1> QED
    BY <1>1, NotedKeeps DEF Sound, Located, Counted

LEMMA LogIInv ==
    ASSUME IInv, NEW t \in Threads, NEW l \in Loggers, NEW level \in Levels,
           NEW loc \in Locations, log(t, l, level, loc)
    PROVE  IInv'
<1>0. loc \in Places /\ raised' = raised /\ written' = {}
    BY DEF log, Places
<1>1. CASE BelowThreshold(l, level)
    <2>1. v' = v /\ stack' = stack
        BY <1>1 DEF log
    <2> QED
        BY <1>0, <2>1, ThreadTyped, Replaced
<1>2. CASE ~BelowThreshold(l, level)
    <2>0. /\ v' = [v EXCEPT ![t] = loc]
          /\ Len(stack[t]) < MaxDepth
          /\ Cardinality(Destructors(stack[t])) = raised[t]
        BY <1>2, Settled DEF log, Store
    <2>1. PICK opened \in {<<>>, <<Record(loc, raised[t])>>} :
              stack' = [stack EXCEPT ![t] = Noted(t, loc) \o opened]
        BY <1>2 DEF log
    <2> DEFINE s == Noted(t, loc)
    <2>2. /\ s \in Seq(Frames) /\ Len(s) = Len(stack[t])
          /\ Sound(s, loc, raised[t])
          /\ Destructors(s) = Destructors(stack[t])
        BY <1>0, NotedSound
    <2> HIDE DEF s
    <2>3. CASE opened = <<>>
        <3>1. s \o opened = s
            BY <2>2, <2>3
        <3> QED
            BY <1>0, <2>0, <2>1, <2>2, <3>1, ThreadTyped, Replaced DEF s
    <2>4. CASE opened = <<Record(loc, raised[t])>>
        <3> DEFINE f == Record(loc, raised[t])
                   n == Append(s, f)
        <3>1. /\ f \in Frames /\ f # Destructor
              /\ f.stored = {loc} /\ f.uncaught = raised[t]
            BY ThreadTyped, FramesDiffer DEF Record
        <3> HIDE DEF f
        <3>2. s \o opened = n
            BY <2>2, <2>4, <3>1 DEF f
        <3>3. /\ n \in Seq(Frames) /\ Len(n) = Len(s) + 1
              /\ DOMAIN n = DOMAIN s \cup {Len(n)}
              /\ \A i \in DOMAIN s : n[i] = s[i]
              /\ n[Len(n)] = f
              /\ \A i \in DOMAIN n : Below(n, i) = Below(s, i)
              /\ Destructors(n) = Destructors(s)
            BY <2>2, <3>1, Pushed
        <3>4. Destructors(s) = Below(s, Len(n))
            BY <2>2, <3>3, DestructorsAreBelow
        <3> HIDE DEF n
        <3>5. Sound(n, loc, raised[t])
            BY <2>0, <2>2, <3>1, <3>3, <3>4 DEF Sound, Located, Counted
        <3>6. Len(n) <= MaxDepth
            BY <2>0, <2>2, <3>3, ThreadTyped
        <3>7. stack' = [stack EXCEPT ![t] = n]
            BY <2>1, <3>2 DEF s
        <3> QED
            BY <1>0, <2>0, <3>3, <3>5, <3>6, <3>7, ThreadTyped, Replaced
    <2> QED
        BY <2>1, <2>3, <2>4
<1> QED
    BY <1>1, <1>2

LEMMA MakeLoggerIInv ==
    ASSUME IInv, NEW t \in Threads, MakeLogger(t)
    PROVE  IInv'
<1>1. Nowhere \in Places
    BY DEF Places
<1>2. /\ Noted(t, Nowhere) \in Seq(Frames)
      /\ Len(Noted(t, Nowhere)) <= MaxDepth
      /\ Sound(Noted(t, Nowhere), Nowhere, raised[t])
    BY <1>1, NotedSound, ThreadTyped
<1>3. /\ v' = [v EXCEPT ![t] = Nowhere]
      /\ stack' = [stack EXCEPT ![t] = Noted(t, Nowhere)]
      /\ raised' = raised /\ written' = {}
    BY DEF MakeLogger, Store
<1> QED
    BY <1>1, <1>2, <1>3, ThreadTyped, Replaced

\* What remains when the top frame goes is sound without the exception of a
\* destructor, or with any number of exceptions more.
LEMMA PoppedSound ==
    ASSUME IInv, NEW t \in Threads, stack[t] # <<>>,
           NEW n \in Nat, n >= Cardinality(Destructors(Front(stack[t])))
    PROVE  /\ Front(stack[t]) \in Seq(Frames)
           /\ Len(Front(stack[t])) <= MaxDepth
           /\ Sound(Front(stack[t]), v[t], n)
<1>1. /\ stack[t] \in Seq(Frames) /\ Len(stack[t]) <= MaxDepth
      /\ Len(stack[t]) \in Nat /\ MaxDepth \in Nat
      /\ Sound(stack[t], v[t], raised[t])
    BY ThreadTyped
<1> DEFINE s == stack[t]
           f == Front(s)
<1>2. /\ f \in Seq(Frames) /\ Len(f) = Len(s) - 1
      /\ DOMAIN f \subseteq DOMAIN s
      /\ \A i \in DOMAIN f : f[i] = s[i] /\ Below(f, i) = Below(s, i)
    BY <1>1, Popped
<1> HIDE DEF f
<1>3. Sound(f, v[t], n)
    BY <1>1, <1>2 DEF Sound, Located, Counted, f
<1> QED
    BY <1>1, <1>2, <1>3 DEF f

\* ~record_pump decides by the number of exceptions what Unwinding says.
LEMMA PushesUnlessUnwinding ==
    ASSUME IInv, NEW t \in Threads, InRecord(t)
    PROVE  /\ Pushes(t, Last(stack[t])) <=> ~Unwinding(t)
           /\ Last(stack[t]) \in Frames /\ Last(stack[t]) # Destructor
           /\ v[t] \in Last(stack[t]).stored
           /\ Cardinality(Destructors(Front(stack[t])))
                = Cardinality(Destructors(stack[t]))
<1> DEFINE s == stack[t]
           top == Last(s)
<1>1. /\ s \in Seq(Frames) /\ s # <<>> /\ top = s[Len(s)] /\ top # Destructor
      /\ Sound(s, v[t], raised[t])
      /\ raised[t] \in Nat
      /\ Cardinality(Destructors(s)) \in Nat
    BY ThreadTyped DEF InRecord, Last
<1>2. /\ Len(s) \in DOMAIN s
      /\ Destructors(Front(s)) = Destructors(s) \ {Len(s)}
      /\ Destructors(Front(s)) = Below(s, Len(s))
    BY <1>1, Popped
<1>3. Destructors(s) \ {Len(s)} = Destructors(s)
    BY <1>1 DEF Destructors
<1>4. top \in Frames
    BY <1>1, <1>2
<1>5. /\ v[t] \in top.stored
      /\ top.uncaught = Cardinality(Destructors(s))
    BY <1>1, <1>2, <1>3 DEF Sound, Located, Counted
<1>6. Pushes(t, top) <=> ~Unwinding(t)
    BY <1>1, <1>5 DEF Pushes, Unwinding
<1> QED
    BY <1>1, <1>2, <1>3, <1>4, <1>5, <1>6

LEMMA DestroyHelperIInv ==
    ASSUME IInv, NEW t \in Threads, DestroyHelper(t)
    PROVE  IInv'
<1> DEFINE record == Last(stack[t])
           s == Front(stack[t])
<1>1. InRecord(t) /\ stack[t] # <<>>
    BY DEF DestroyHelper, InRecord
<1>2. /\ record \in Frames /\ record # Destructor
      /\ v[t] \in record.stored
      /\ Cardinality(Destructors(s)) = Cardinality(Destructors(stack[t]))
    BY <1>1, PushesUnlessUnwinding
<1>3. /\ Cardinality(Destructors(stack[t])) <= raised[t]
      /\ Cardinality(Destructors(stack[t])) \in Nat
      /\ raised[t] \in 0 .. MaxRaised /\ MaxRaised \in Nat
      /\ v[t] \in Places
    BY ThreadTyped DEF Sound, Counted
<1>4. PICK n \in raised[t] .. MaxRaised :
          raised' = [raised EXCEPT ![t] = n]
    <2>1. CASE Pushes(t, record)
        <3>1. PICK failed \in {m \in {0, 1} : raised[t] + m <= MaxRaised} :
                  raised' = [raised EXCEPT ![t] = raised[t] + failed]
            BY <2>1 DEF DestroyHelper
        <3>2. raised[t] + failed \in raised[t] .. MaxRaised
            BY <1>3
        <3> QED
            BY <3>1, <3>2
    <2>2. CASE ~Pushes(t, record)
        <3>1. raised' = [raised EXCEPT ![t] = raised[t]]
            BY <2>2, ThreadTyped DEF DestroyHelper
        <3>2. raised[t] \in raised[t] .. MaxRaised
            BY <1>3
        <3> QED
            BY <3>1, <3>2
    <2> QED
        BY <2>1, <2>2
<1>5. /\ n \in 0 .. MaxRaised /\ n \in Nat
      /\ n >= Cardinality(Destructors(s))
    BY <1>2, <1>3, <1>4
<1>6. s \in Seq(Frames) /\ Len(s) <= MaxDepth /\ Sound(s, v[t], n)
    BY <1>1, <1>5, PoppedSound
<1>7. /\ stack' = [stack EXCEPT ![t] = s]
      /\ v' = [v EXCEPT ![t] = v[t]]
    BY ThreadTyped DEF DestroyHelper
<1>8. CASE written' = {}
    BY <1>3, <1>4, <1>5, <1>6, <1>7, <1>8, Replaced
<1>9. CASE written' = {Shown(t, record)}
    <2>1. /\ TypeOK /\ v' = v
          /\ \A u \in Threads : Sound(stack[u], v[u], raised[u])
        BY DEF IInv, DestroyHelper
    <2>2. Shown(t, record) \in
              [own : Locations, stored : SUBSET Places, shown : Places]
        BY <1>2, <1>3, FramesDiffer DEF Shown
    <2>3. TypeOK'
        BY <1>4, <1>5, <1>6, <1>7, <1>9, <2>1, <2>2 DEF TypeOK
    <2>4. ASSUME NEW u \in Threads PROVE Sound(stack'[u], v'[u], raised'[u])
        <3>1. CASE u = t
            <4>1. stack'[u] = s /\ v'[u] = v[t] /\ raised'[u] = n
                BY <1>4, <1>7, <2>1, <3>1 DEF TypeOK
            <4> QED
                BY <1>6, <4>1
        <3>2. CASE u # t
            <4>1. /\ stack'[u] = stack[u] /\ v'[u] = v[u]
                  /\ raised'[u] = raised[u]
                BY <1>4, <1>7, <2>1, <3>2 DEF TypeOK
            <4> QED
                BY <2>1, <4>1
        <3> QED
            BY <3>1, <3>2
    <2>5. ShowsItsLocation'
        BY <1>2, <1>9 DEF ShowsItsLocation, Shown
    <2>6. \A u \in Threads : Sound(stack[u], v[u], raised[u])'
        BY <2>4 DEF Sound, Located, Counted, Destructors, Below
    <2> QED
        BY <2>3, <2>5, <2>6 DEF IInv
<1> QED
    BY <1>8, <1>9 DEF DestroyHelper

LEMMA RaiseIInv ==
    ASSUME IInv, NEW t \in Threads, Raise(t)
    PROVE  IInv'
<1>1. /\ raised' = [raised EXCEPT ![t] = raised[t] + 1]
      /\ raised[t] < MaxRaised /\ written' = {} /\ v' = v /\ stack' = stack
    BY DEF Raise
<1>2. raised[t] + 1 \in 0 .. MaxRaised
    BY <1>1, ThreadTyped
<1>3. Sound(stack[t], v[t], raised[t] + 1)
    BY ThreadTyped DEF Sound, Counted
<1> QED
    BY <1>1, <1>2, <1>3, ThreadTyped, Replaced

LEMMA CatchIInv ==
    ASSUME IInv, NEW t \in Threads, Catch(t)
    PROVE  IInv'
<1>1. /\ raised' = [raised EXCEPT ![t] = raised[t] - 1]
      /\ Unwinding(t) /\ written' = {} /\ v' = v /\ stack' = stack
    BY DEF Catch
<1>2. /\ raised[t] - 1 \in 0 .. MaxRaised
      /\ Cardinality(Destructors(stack[t])) <= raised[t] - 1
    BY <1>1, ThreadTyped DEF Unwinding
<1>3. Sound(stack[t], v[t], raised[t] - 1)
    BY <1>2, ThreadTyped DEF Sound, Counted
<1> QED
    BY <1>1, <1>2, <1>3, ThreadTyped, Replaced

LEMMA BeginDestructorIInv ==
    ASSUME IInv, NEW t \in Threads, BeginDestructor(t)
    PROVE  IInv'
<1> DEFINE s == stack[t]
           n == Append(s, Destructor)
<1>0. /\ s \in Seq(Frames) /\ Sound(s, v[t], raised[t])
      /\ Cardinality(Destructors(s)) \in Nat /\ raised[t] \in Nat
      /\ Len(s) \in Nat /\ MaxDepth \in Nat
    BY ThreadTyped
<1>1. /\ Unwinding(t) /\ Len(s) < MaxDepth
      /\ stack' = [stack EXCEPT ![t] = n]
      /\ v' = v /\ raised' = raised /\ written' = {}
    BY DEF BeginDestructor
<1>2. /\ n \in Seq(Frames) /\ Len(n) = Len(s) + 1
      /\ DOMAIN n = DOMAIN s \cup {Len(n)}
      /\ \A i \in DOMAIN s : n[i] = s[i]
      /\ n[Len(n)] = Destructor
      /\ \A i \in DOMAIN n : Below(n, i) = Below(s, i)
      /\ Destructors(n) = Destructors(s) \cup {Len(s) + 1}
    BY <1>0, FramesDiffer, Pushed
<1>3. Cardinality(Destructors(n)) <= raised[t]
    <2>1. IsFiniteSet(Destructors(s))
        BY <1>0, DestructorsAreBelow
    <2>2. /\ Cardinality(Destructors(s) \cup {Len(s) + 1})
               = IF Len(s) + 1 \in Destructors(s)
                 THEN Cardinality(Destructors(s))
                 ELSE Cardinality(Destructors(s)) + 1
        BY <2>1, FS_AddElement
    <2> QED
        BY <1>0, <1>1, <1>2, <2>2 DEF Unwinding
<1> HIDE DEF n
<1>4. Sound(n, v[t], raised[t])
    BY <1>0, <1>2, <1>3 DEF Sound, Located, Counted
<1>5. Len(n) <= MaxDepth
    BY <1>0, <1>1, <1>2
<1> QED
    BY <1>1, <1>2, <1>4, <1>5, ThreadTyped, Replaced

LEMMA EndDestructorIInv ==
    ASSUME IInv, NEW t \in Threads, EndDestructor(t)
    PROVE  IInv'
<1> DEFINE s == stack[t]
<1>1. /\ s # <<>> /\ stack' = [stack EXCEPT ![t] = Front(s)]
      /\ v' = v /\ raised' = raised /\ written' = {}
    BY DEF EndDestructor
<1>2. /\ s \in Seq(Frames)
      /\ raised[t] \in Nat /\ Cardinality(Destructors(s)) \in Nat
      /\ Cardinality(Destructors(s)) <= raised[t]
    BY ThreadTyped DEF Sound, Counted
<1>3. raised[t] >= Cardinality(Destructors(Front(s)))
    <2>1. Destructors(Front(s)) = Destructors(s) \ {Len(s)}
        BY <1>1, <1>2, Popped
    <2>2. IsFiniteSet(Destructors(s))
        BY <1>2, DestructorsAreBelow
    <2>3. Cardinality(Destructors(s) \ {Len(s)})
            = IF Len(s) \in Destructors(s) THEN Cardinality(Destructors(s)) - 1
              ELSE Cardinality(Destructors(s))
        BY <2>2, FS_RemoveElement
    <2> QED
        BY <1>2, <2>1, <2>3
<1>4. /\ Front(s) \in Seq(Frames) /\ Len(Front(s)) <= MaxDepth
      /\ Sound(Front(s), v[t], raised[t])
    BY <1>1, <1>2, <1>3, PoppedSound
<1> QED
    BY <1>1, <1>4, ThreadTyped, Replaced

------------------------------------------------------------------------------

LEMMA InitIInv == Init => IInv
<1>1. ASSUME Init PROVE IInv
    <2>1. /\ Nowhere \in Places /\ <<>> \in Seq(Frames) /\ Len(<<>>) = 0
          /\ 0 <= MaxDepth /\ 0 \in 0 .. MaxRaised
        BY BoundsAreCounted DEF Places
    <2>2. TypeOK
        BY <1>1, <2>1 DEF Init, TypeOK
    <2>3. Destructors(<<>>) = {}
        BY DEF Destructors
    <2>4. Sound(<<>>, Nowhere, 0)
        BY <2>3, FS_EmptySet DEF Sound, Located, Counted
    <2>5. \A t \in Threads : Sound(stack[t], v[t], raised[t])
        BY <1>1, <2>4 DEF Init
    <2>6. ShowsItsLocation
        BY <1>1 DEF Init, ShowsItsLocation
    <2> QED
        BY <2>2, <2>5, <2>6 DEF IInv
<1> QED
    BY <1>1

LEMMA NextIInv == ASSUME IInv, Next PROVE IInv'
<1>1. PICK t \in Threads :
          \/ Statement(t) \/ MakeLogger(t) \/ DestroyHelper(t)
          \/ Raise(t) \/ BeginDestructor(t) \/ EndDestructor(t) \/ Catch(t)
    BY DEF Next
<1>2. CASE Statement(t)
    BY <1>2, LogIInv DEF Statement
<1> QED
    BY <1>1, <1>2, MakeLoggerIInv, DestroyHelperIInv, RaiseIInv,
       BeginDestructorIInv, EndDestructorIInv, CatchIInv

(* The open records of a thread know what the thread_local variable holds   *)
(* and how many exceptions there were, throughout (logging.hpp:126-431).    *)
THEOREM Inductive == Spec => []IInv
<1>1. ASSUME IInv, UNCHANGED vars PROVE IInv'
    BY <1>1 DEF vars, IInv, TypeOK, ShowsItsLocation, Sound, Located, Counted,
                Destructors, Below
<1>2. IInv /\ [Next]_vars => IInv'
    BY <1>1, NextIInv
<1> QED
    BY InitIInv, <1>2, PTL DEF Spec

(* Variables and frames keep their types, whatever is thrown where.         *)
THEOREM TypeCorrect == Spec => []TypeOK
<1>1. IInv => TypeOK
    BY DEF IInv
<1> QED
    BY <1>1, Inductive, PTL

(* A record shows its own location or one that its own thread stored while  *)
(* it was open (logging.hpp:147-204, 305-321).                              *)
THEOREM LocationsAreOwn == Spec => []ShowsItsLocation
<1>1. IInv => ShowsItsLocation
    BY DEF IInv
<1> QED
    BY <1>1, Inductive, PTL

LEMMA StepWrites ==
    ASSUME IInv, Next, NEW t \in Threads,
           InRecord(t), Len(stack'[t]) < Len(stack[t])
    PROVE  written' # {} <=> ~Unwinding(t)
<1>0. Len(stack[t]) \in Nat
    BY ThreadTyped
<1>1. PICK u \in Threads :
          \/ Statement(u) \/ MakeLogger(u) \/ DestroyHelper(u)
          \/ Raise(u) \/ BeginDestructor(u) \/ EndDestructor(u) \/ Catch(u)
    BY DEF Next
<1>2. ASSUME NEW s, stack' = [stack EXCEPT ![u] = s]
      PROVE  u = t /\ stack'[t] = s
    BY <1>0, <1>2 DEF IInv, TypeOK
<1>3. CASE DestroyHelper(u)
    <2>1. u = t
        BY <1>2, <1>3 DEF DestroyHelper
    <2>2. Pushes(t, Last(stack[t])) <=> ~Unwinding(t)
        BY PushesUnlessUnwinding
    <2>3. written' = IF Pushes(t, Last(stack[t]))
                     THEN {Shown(t, Last(stack[t]))} ELSE {}
        BY <1>3, <2>1 DEF DestroyHelper
    <2> QED
        BY <2>2, <2>3
<1>4. CASE EndDestructor(u)
    <2>1. u = t
        BY <1>2, <1>4 DEF EndDestructor
    <2> QED
        BY <1>4, <2>1 DEF EndDestructor, InRecord
<1>5. CASE Raise(u) \/ Catch(u)
    BY <1>0, <1>5 DEF Raise, Catch
<1>6. CASE BeginDestructor(u)
    <2>1. u = t /\ stack'[t] = Append(stack[t], Destructor)
        BY <1>2, <1>6 DEF BeginDestructor
    <2>2. stack[t] \in Seq(Frames) /\ Destructor \in Frames
        BY ThreadTyped, FramesDiffer
    <2>3. Len(stack'[t]) = Len(stack[t]) + 1
        BY <2>1, <2>2
    <2> QED
        BY <1>0, <2>3
<1>7. CASE MakeLogger(u)
    <2>1. u = t /\ stack'[t] = Noted(t, Nowhere)
        BY <1>2, <1>7 DEF MakeLogger
    <2> QED
        BY <1>0, <2>1, NotedSound DEF Places
<1>8. CASE Statement(u)
    <2>1. PICK l \in Loggers, level \in Levels, loc \in Locations :
              log(u, l, level, loc)
        BY <1>8 DEF Statement
    <2>2. CASE stack' # stack
        <3>1. PICK opened \in {<<>>, <<Record(loc, raised[u])>>} :
                  stack' = [stack EXCEPT ![u] = Noted(u, loc) \o opened]
            BY <2>1, <2>2 DEF log
        <3>2. u = t /\ stack'[t] = Noted(t, loc) \o opened
            BY <1>2, <3>1
        <3>3. Noted(t, loc) \in Seq(Frames) /\ Len(Noted(t, loc)) = Len(stack[t])
            BY NotedSound DEF Places
        <3>4. opened \in Seq(Frames)
            <4>1. Record(loc, raised[u]) \in Frames
                BY ThreadTyped, FramesDiffer
            <4>2. <<Record(loc, raised[u])>> \in Seq(Frames)
                BY <4>1
            <4>3. <<>> \in Seq(Frames)
                OBVIOUS
            <4> QED
                BY <4>2, <4>3, Zenon
        <3>5. /\ Len(Noted(t, loc) \o opened) = Len(Noted(t, loc)) + Len(opened)
              /\ Len(opened) \in Nat
            BY <3>3, <3>4
        <3> QED
            BY <1>0, <3>2, <3>3, <3>5
    <2> QED
        BY <1>0, <2>2
<1> QED
    BY <1>1, <1>3, <1>4, <1>5, <1>6, <1>7, <1>8

(* A record is written if and only if its statement came to its end         *)
(* (logging.hpp:375-411).                                                   *)
THEOREM CompletedStatementsAreWritten == Spec => WrittenIffCompleted
<1>1. ASSUME IInv, [Next]_vars
      PROVE  [\A t \in Threads :
                 (InRecord(t) /\ Len(stack'[t]) < Len(stack[t])) =>
                     (written' # {} <=> ~Unwinding(t))]_vars
    BY <1>1, StepWrites
<1> QED
    BY <1>1, Inductive, PTL DEF Spec, WrittenIffCompleted
=================================================================================

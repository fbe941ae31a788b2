------------------------------ MODULE JmainProofs ------------------------------
(****************************************************************************)
(* Theorems about jmain, for any length of the Java array.                  *)
(****************************************************************************)
EXTENDS Jmain, TLAPS

\* The strings that are still to be freed are those the second array names,
\* each in its own cell, and none that the loops have not come to or have left
\* behind.
Remembered ==
    /\ args # Null =>
           \A k \in Strings :
               /\ args[k] \in {k, Null}
               /\ args[k] = k /\ (pc \in {"free", "returned"} => k >= i)
                    => k \in heap
               /\ pc = "copy" /\ k >= i => args[k] = Null

\* There is nothing else in the heap but the arrays, and in the end nothing.
Accounted ==
    /\ \A b \in heap \ {ArgvBlock, ArgsBlock} :
           /\ args # Null
           /\ b \in Strings
           /\ args[b] = b
           /\ pc \in {"free", "returned"} => b >= i
    /\ pc = "alloc" => heap = {} /\ args = Null
    /\ pc = "returned" => heap = {}

\* The copies made so far are where main looks for them.
Copied ==
    /\ pc = "copy" /\ ~failed => \A k \in 0 .. i - 1 : argv[k] = k
    /\ pc \in {"alloc", "main"} => i = 0

IInv ==
    TypeOK /\ Remembered /\ Accounted /\ Copied
        /\ EverythingFreedOnce /\ MainSeesArguments

------------------------------------------------------------------------------
(* Null is not one of the arrays that malloc and calloc return.             *)
LEMMA ArraysAreNotNull ==
    ASSUME NEW n \in 0 .. MaxArgs, NEW S \in SUBSET Pointers
    PROVE  /\ \A a \in [0 .. n -> S] : a # Null
           /\ \A a \in [0 .. n - 1 -> S] : a # Null
<1>1. n + 1 \in 0 .. MaxArgs + 1 /\ (n + 1) - 1 = n /\ n \in 0 .. MaxArgs + 1
    BY ArgsAreCounted
<1>2. \A m : [0 .. m -> S] \subseteq [0 .. m -> Pointers]
    OBVIOUS
<1>3. /\ Null \notin [0 .. n -> Pointers]
      /\ Null \notin [0 .. n - 1 -> Pointers]
    BY <1>1, NullIsNothing
<1> QED
    BY <1>2, <1>3

LEMMA StringsAreNotNull ==
    ASSUME argc \in 0 .. MaxArgs
    PROVE  Strings \subseteq 0 .. MaxArgs /\ Null \notin Strings
BY ArgsAreCounted, NullIsNothing DEF Strings

LEMMA InitIInv == ASSUME Init PROVE IInv
<1>1. /\ argc \in 0 .. MaxArgs /\ argc \in Nat
      /\ argv = Null /\ args = Null /\ heap = {} /\ i = 0 /\ pc = "alloc"
    BY ArgsAreCounted DEF Init
<1>2. wrong \in BOOLEAN /\ failed \in BOOLEAN /\ ~wrong
    BY DEF Init
<1>3. TypeOK
    BY <1>1, <1>2 DEF TypeOK
<1>4. Remembered /\ Accounted /\ Copied /\ MainSeesArguments
    BY <1>1 DEF Remembered, Accounted, Copied, MainSeesArguments
<1> QED
    BY <1>1, <1>2, <1>3, <1>4 DEF IInv, EverythingFreedOnce

LEMMA AllocIInv ==
    ASSUME IInv, NEW gotArgv \in BOOLEAN, NEW gotArgs \in BOOLEAN,
           Alloc(gotArgv, gotArgs)
    PROVE  IInv'
<1>0. /\ TypeOK /\ Accounted /\ Copied /\ EverythingFreedOnce
      /\ argc \in 0 .. MaxArgs /\ argc' = argc /\ i = 0 /\ i' = 0
      /\ argc \in Nat
    BY ArgsAreCounted DEF IInv, TypeOK, Copied, Alloc
<1>1. /\ gotArgs => args' = [k \in Strings |-> Null]
      /\ ~gotArgs => args' = Null
      /\ gotArgv => argv' = [k \in 0 .. argc |-> Garbage]
      /\ ~gotArgv => argv' = Null
    BY DEF Alloc
<1>2. gotArgs => args' # Null
    <2>1. [k \in Strings |-> Null] \in [0 .. argc - 1 -> {Null}]
        BY DEF Strings
    <2> QED
        BY <1>0, <1>1, <2>1, ArraysAreNotNull DEF Pointers
<1>3. gotArgv => argv' # Null
    <2>1. [k \in 0 .. argc |-> Garbage] \in [0 .. argc -> {Garbage}]
        OBVIOUS
    <2> QED
        BY <1>0, <1>1, <2>1, ArraysAreNotNull DEF Pointers
<1>4. Strings' = Strings
    BY <1>0 DEF Strings
<1>5. TypeOK'
    BY <1>0, <1>1, <1>2, <1>3, <1>4 DEF Alloc, TypeOK
<1>6. Remembered'
    BY <1>0, <1>1, <1>4, StringsAreNotNull DEF Alloc, Remembered
<1>7. Accounted' /\ Copied'
    BY <1>0, <1>1 DEF Alloc, Accounted, Copied
<1>8. EverythingFreedOnce' /\ MainSeesArguments'
    BY <1>0 DEF Alloc, EverythingFreedOnce, MainSeesArguments
<1> QED
    BY <1>5, <1>6, <1>7, <1>8 DEF IInv

LEMMA CopyArgIInv ==
    ASSUME IInv, NEW ok \in BOOLEAN, CopyArg(ok)
    PROVE  IInv'
<1>0. /\ TypeOK /\ Remembered /\ Accounted /\ Copied /\ EverythingFreedOnce
      /\ argc \in 0 .. MaxArgs /\ argc' = argc /\ argc \in Nat
      /\ i \in Nat /\ i < argc /\ i' = i + 1 /\ i \in Strings
      /\ pc = "copy" /\ pc' = "copy"
    BY ArgsAreCounted DEF IInv, TypeOK, Copied, CopyArg, Strings
<1>1. /\ args \in [Strings -> Strings \cup {Null}]
      /\ argv \in [0 .. argc -> Strings \cup {Null, Garbage, Foreign}]
      /\ args # Null /\ argv # Null
    BY <1>0 DEF TypeOK
<1>2. Strings' = Strings /\ Strings \subseteq Nat /\ Null \notin Strings
    BY <1>0, StringsAreNotNull DEF Strings
<1>3. /\ args' \in [Strings -> Strings \cup {Null}]
      /\ argv' \in [0 .. argc -> Strings \cup {Null, Garbage, Foreign}]
      /\ args'[i] = IF ok THEN i ELSE Null
      /\ i \in 0 .. argc /\ (argv'[i] = IF ok THEN i ELSE Null)
      /\ \A k \in Strings : k # i => args'[k] = args[k]
      /\ \A k \in 0 .. argc : k # i => argv'[k] = argv[k]
    BY <1>0, <1>1 DEF CopyArg
<1>4. args' # Null
    <2>1. Strings \cup {Null} \subseteq Pointers
        BY <1>0, StringsAreNotNull DEF Pointers
    <2>2. args' \in [0 .. argc - 1 -> Strings \cup {Null}]
        BY <1>3 DEF Strings
    <2> QED
        BY <1>0, <2>1, <2>2, ArraysAreNotNull
<1>5. argv' # Null
    <2>1. Strings \cup {Null, Garbage, Foreign} \subseteq Pointers
        BY <1>0, StringsAreNotNull DEF Pointers
    <2> QED
        BY <1>0, <1>3, <2>1, ArraysAreNotNull
<1>6. TypeOK'
    BY <1>0, <1>2, <1>3, <1>4, <1>5 DEF CopyArg, TypeOK
<1>7. heap' = (IF ok THEN heap \cup {i} ELSE heap)
    BY DEF CopyArg
<1>8. \A k \in Strings :
          k # i => args'[k] \in {k, Null} /\ (args'[k] = k => k \in heap)
    BY <1>0, <1>1, <1>3 DEF Remembered
<1>9. Remembered'
    <2>1. \A k \in Strings : k > i => args'[k] = Null
        BY <1>0, <1>1, <1>2, <1>3 DEF Remembered
    <2>2. args'[i] \in {i, Null} /\ (args'[i] = i => i \in heap')
        BY <1>0, <1>2, <1>3, <1>7
    <2>3. \A k \in Strings : k >= i' => k > i
        BY <1>0, <1>2
    <2> QED
        BY <1>0, <1>2, <1>7, <1>8, <2>1, <2>2, <2>3 DEF Remembered
<1>10. Accounted'
    <2>1. SUFFICES ASSUME NEW b \in heap' \ {ArgvBlock, ArgsBlock}
                   PROVE  b \in Strings /\ args'[b] = b
        BY <1>0, <1>2, <1>4 DEF Accounted
    <2>2. CASE b \in heap
        <3>1. b \in Strings /\ args[b] = b
            BY <1>0, <2>1, <2>2 DEF Accounted
        <3>2. b # i
            BY <1>0, <1>1, <1>2, <3>1 DEF Remembered
        <3> QED
            BY <1>3, <3>1, <3>2
    <2>3. CASE b \notin heap
        BY <1>0, <1>3, <1>7, <2>1, <2>3
    <2> QED
        BY <2>2, <2>3
<1>11. Copied'
    <2>1. SUFFICES ASSUME ~failed', NEW k \in 0 .. i
                   PROVE  argv'[k] = k
        BY <1>0 DEF Copied
    <2>2. ~failed /\ ok
        BY <2>1, Zenon DEF CopyArg
    <2> QED
        BY <1>0, <1>3, <2>2 DEF Copied
<1>12. EverythingFreedOnce' /\ MainSeesArguments'
    BY <1>0 DEF CopyArg, EverythingFreedOnce, MainSeesArguments
<1> QED
    BY <1>6, <1>9, <1>10, <1>11, <1>12 DEF IInv

LEMMA TerminateIInv == ASSUME IInv, Terminate PROVE IInv'
<1>0. /\ TypeOK /\ Remembered /\ Accounted /\ Copied /\ EverythingFreedOnce
      /\ argc \in 0 .. MaxArgs /\ argc' = argc /\ argc \in Nat
      /\ i = argc /\ i' = 0 /\ pc = "copy" /\ pc' = "main"
      /\ args # Null /\ args' = args /\ failed' = failed
    BY ArgsAreCounted DEF IInv, TypeOK, Terminate
<1>1. argv \in [0 .. argc -> Strings \cup {Null, Garbage, Foreign}]
    BY <1>0 DEF TypeOK
<1>2. Strings' = Strings
    BY <1>0 DEF Strings
<1>3. /\ argv' \in [0 .. argc -> Strings \cup {Null, Garbage, Foreign}]
      /\ argv'[argc] = Null
      /\ \A k \in 0 .. argc - 1 : argv'[k] = argv[k]
    BY <1>0, <1>1 DEF Terminate
<1>4. argv' # Null
    <2>1. Strings \cup {Null, Garbage, Foreign} \subseteq Pointers
        BY <1>0, StringsAreNotNull DEF Pointers
    <2> QED
        BY <1>0, <1>3, <2>1, ArraysAreNotNull
<1>5. TypeOK'
    BY <1>0, <1>2, <1>3, <1>4 DEF Terminate, TypeOK
<1>6. Remembered' /\ Accounted' /\ Copied' /\ EverythingFreedOnce'
    BY <1>0, <1>2
       DEF Terminate, Remembered, Accounted, Copied, EverythingFreedOnce
<1>7. MainSeesArguments'
    <2>1. SUFFICES ASSUME ~failed
                   PROVE  argv' = [k \in 0 .. argc |->
                                      IF k < argc THEN k ELSE Null]
        BY <1>0 DEF MainSeesArguments
    <2>2. \A k \in 0 .. argc - 1 : argv[k] = k
        BY <2>1, <1>0 DEF Copied
    <2>3. \A k \in 0 .. argc : argv'[k] = IF k < argc THEN k ELSE Null
        BY <1>0, <1>3, <2>2
    <2> QED
        BY <1>3, <2>3
<1> QED
    BY <1>5, <1>6, <1>7 DEF IInv

LEMMA MainIInv == ASSUME IInv, Main PROVE IInv'
<1>0. /\ TypeOK /\ Remembered /\ Accounted /\ Copied /\ EverythingFreedOnce
      /\ argc \in 0 .. MaxArgs /\ argc' = argc /\ argc \in Nat
      /\ i = 0 /\ i' = 0 /\ pc = "main" /\ pc' = "free" /\ args' = args
      /\ UNCHANGED <<heap, wrong, failed>>
    BY ArgsAreCounted DEF IInv, TypeOK, Copied, Main
<1>1. Strings' = Strings /\ Strings \subseteq Nat
    BY <1>0 DEF Strings
<1>2. argv' # Null =>
          argv' \in [0 .. argc -> Strings \cup {Null, Garbage, Foreign}]
    <2>1. CASE argv = Null
        BY <2>1 DEF Main
    <2>2. CASE argv # Null
        <3>1. argv \in [0 .. argc -> Strings \cup {Null, Garbage, Foreign}]
            BY <1>0, <2>2 DEF TypeOK
        <3>2. DOMAIN argv = 0 .. argc
            BY <3>1
        <3>3. {argv[k] : k \in 0 .. argc} \cup {Null, Foreign}
                  \subseteq Strings \cup {Null, Garbage, Foreign}
            BY <3>1
        <3>4. argv' \in [0 .. argc ->
                            {argv[k] : k \in 0 .. argc} \cup {Null, Foreign}]
            BY <2>2, <3>2 DEF Main
        <3> QED
            BY <3>3, <3>4
    <2> QED
        BY <2>1, <2>2
<1>3. TypeOK'
    BY <1>0, <1>1, <1>2 DEF TypeOK
<1>4. Remembered'
    BY <1>0, <1>1 DEF Remembered
<1>5. Accounted'
    <2>1. \A b \in Strings : b >= 0
        BY <1>1
    <2> QED
        BY <1>0, <1>1, <2>1 DEF Accounted
<1>6. Copied' /\ EverythingFreedOnce' /\ MainSeesArguments'
    BY <1>0 DEF Copied, EverythingFreedOnce, MainSeesArguments
<1> QED
    BY <1>3, <1>4, <1>5, <1>6 DEF IInv

LEMMA FreeArgIInv == ASSUME IInv, FreeArg PROVE IInv'
<1>0. /\ TypeOK /\ Remembered /\ Accounted /\ EverythingFreedOnce
      /\ argc \in 0 .. MaxArgs /\ argc' = argc /\ argc \in Nat
      /\ i \in Nat /\ i < argc /\ i' = i + 1 /\ i \in Strings
      /\ pc = "free" /\ pc' = "free" /\ args # Null /\ args' = args
      /\ UNCHANGED <<argv, failed>>
    BY ArgsAreCounted DEF IInv, TypeOK, FreeArg, Strings
<1>1. Strings' = Strings /\ Strings \subseteq Nat /\ Null \notin Strings
    BY <1>0, StringsAreNotNull DEF Strings
<1>2. args[i] \in {i, Null} /\ (args[i] = i => i \in heap)
    BY <1>0 DEF Remembered
<1>3. heap' = heap \ {args[i]} /\ wrong' = wrong
    BY <1>0, <1>2 DEF FreeArg, Free, TypeOK
<1>4. TypeOK'
    <2>1. i' \in 0 .. argc
        BY <1>0
    <2> QED
        BY <1>0, <1>1, <1>3, <2>1 DEF TypeOK
<1>5. Remembered'
    BY <1>0, <1>1, <1>2, <1>3 DEF Remembered
<1>6. Accounted'
    <2>1. SUFFICES ASSUME NEW b \in heap' \ {ArgvBlock, ArgsBlock}
                   PROVE  b \in Strings /\ args[b] = b /\ b >= i'
        BY <1>0, <1>1 DEF Accounted
    <2>2. b \in heap /\ b # args[i]
        BY <1>3, <2>1
    <2>3. b \in Strings /\ args[b] = b /\ b >= i
        BY <1>0, <2>1, <2>2 DEF Accounted
    <2> QED
        BY <1>0, <1>1, <2>2, <2>3
<1>7. Copied' /\ EverythingFreedOnce' /\ MainSeesArguments'
    BY <1>0, <1>3 DEF Copied, EverythingFreedOnce, MainSeesArguments
<1> QED
    BY <1>4, <1>5, <1>6, <1>7 DEF IInv

LEMMA FreeArraysIInv == ASSUME IInv, FreeArrays PROVE IInv'
<1>0. /\ TypeOK /\ Remembered /\ Accounted /\ EverythingFreedOnce
      /\ argc \in 0 .. MaxArgs /\ argc' = argc /\ argc \in Nat
      /\ pc = "free" /\ pc' = "returned"
      /\ heap' = heap \ {ArgsBlock, ArgvBlock}
      /\ args # Null => i = argc
      /\ UNCHANGED <<argv, args, wrong, failed, i>>
    BY ArgsAreCounted DEF IInv, TypeOK, FreeArrays
<1>1. heap' = {}
    BY <1>0 DEF Accounted, Strings
<1>2. Strings' = Strings
    BY <1>0 DEF Strings
<1>3. TypeOK'
    BY <1>0, <1>1, <1>2 DEF TypeOK
<1>4. Remembered' /\ Accounted'
    BY <1>0, <1>1, <1>2 DEF Remembered, Accounted, Strings
<1>5. Copied' /\ EverythingFreedOnce' /\ MainSeesArguments'
    BY <1>0, <1>1 DEF Copied, EverythingFreedOnce, MainSeesArguments
<1> QED
    BY <1>3, <1>4, <1>5 DEF IInv

(* What is to be freed stays accounted for throughout a call of jmain       *)
(* (jmain.cpp:19-75).                                                       *)
THEOREM Inductive == Spec => []IInv
<1>1. ASSUME IInv, Next PROVE IInv'
    BY <1>1, AllocIInv, CopyArgIInv, TerminateIInv, MainIInv, FreeArgIInv,
       FreeArraysIInv DEF Next
<1>2. ASSUME IInv, UNCHANGED vars PROVE IInv'
    BY <1>2
       DEF vars, IInv, TypeOK, Remembered, Accounted, Copied, Strings,
           EverythingFreedOnce, MainSeesArguments
<1>3. IInv /\ [Next]_vars => IInv'
    BY <1>1, <1>2
<1> QED
    BY InitIInv, <1>3, PTL DEF Spec

(* Counters and arrays stay in their bounds, and the loops never use an     *)
(* array that was not allocated (jmain.cpp:29-54).                          *)
THEOREM TypeCorrect == Spec => []TypeOK
<1>1. IInv => TypeOK
    BY DEF IInv
<1> QED
    BY <1>1, Inductive, PTL

(* Whatever main does to its argv and whichever allocations fail, exactly   *)
(* what was allocated is freed, once (jmain.cpp:56-67).                     *)
THEOREM NothingLeaks == Spec => []EverythingFreedOnce
<1>1. IInv => EverythingFreedOnce
    BY DEF IInv
<1> QED
    BY <1>1, Inductive, PTL

(* Unless an allocation failed, main gets the arguments in their order and  *)
(* a null pointer behind them (jmain.cpp:35-53).                            *)
THEOREM ArgumentsArrive == Spec => []MainSeesArguments
<1>1. IInv => MainSeesArguments
    BY DEF IInv
<1> QED
    BY <1>1, Inductive, PTL

==============================================================================

--------------------------------- MODULE Jmain ---------------------------------
(****************************************************************************)
(* jmain (src/src/jmain.cpp:19-75): a Java program calls the C++ main.  The *)
(* strings of a Java array become an argv that main may rearrange as it     *)
(* likes; a second array, args, remembers what has to be freed.  Every      *)
(* malloc and calloc may fail, but not GetStringUTFChars: without its       *)
(* characters strdup would copy from a null pointer (jmain.cpp:32).         *)
(****************************************************************************)
EXTENDS Integers

CONSTANTS
    MaxArgs,        \* bound: length of the Java array
    ArgvBlock, ArgsBlock,   \* the two arrays as blocks of the heap
    Null,
    Garbage,        \* memory of malloc that was not written
    Foreign         \* a pointer that main got from elsewhere

ASSUME ArgsAreCounted == MaxArgs \in Nat

\* What a cell of the arrays may hold: a string, which is its number, or else.
Pointers == 0 .. MaxArgs \cup {Null, Garbage, Foreign}

\* A null pointer is neither a string nor an array.
ASSUME NullIsNothing ==
    /\ Null \notin 0 .. MaxArgs
    /\ \A n \in 0 .. MaxArgs + 1 : Null \notin [0 .. n - 1 -> Pointers]

VARIABLES
    argc,
    argv,       \* Null, or what the array holds: the string i is i itself
    args,       \* Null, or what the array holds
    heap,       \* the blocks that are allocated
    wrong,      \* something else than an allocated block was freed
    failed,     \* an allocation returned Null
    i, pc

vars == <<argc, argv, args, heap, wrong, failed, i, pc>>

Strings == 0 .. argc - 1

Init ==
    /\ argc \in 0 .. MaxArgs
    /\ argv = Null /\ args = Null
    /\ heap = {} /\ wrong = FALSE /\ failed = FALSE
    /\ i = 0 /\ pc = "alloc"

\* malloc of argv and calloc of args; calloc of nothing may return Null too.
Alloc(gotArgv, gotArgs) ==
    /\ pc = "alloc"
    /\ argv' = IF gotArgv THEN [k \in 0 .. argc |-> Garbage] ELSE Null
    /\ args' = IF gotArgs THEN [k \in Strings |-> Null] ELSE Null
    /\ heap' = (IF gotArgv THEN {ArgvBlock} ELSE {})
               \cup (IF gotArgs THEN {ArgsBlock} ELSE {})
    /\ failed' = (~gotArgv \/ (~gotArgs /\ argc > 0))
    /\ pc' = IF gotArgv /\ gotArgs THEN "copy" ELSE "main"
    /\ UNCHANGED <<argc, wrong, i>>

\* One turn of the loop: strdup of the string.
CopyArg(ok) ==
    /\ pc = "copy" /\ i < argc
    /\ argv' = [argv EXCEPT ![i] = IF ok THEN i ELSE Null]
    /\ args' = [args EXCEPT ![i] = IF ok THEN i ELSE Null]
    /\ heap' = IF ok THEN heap \cup {i} ELSE heap
    /\ failed' = (failed \/ ~ok)
    /\ i' = i + 1
    /\ UNCHANGED <<argc, wrong, pc>>

\* Mutant of Terminate: the terminator overwrites the last string.
Terminate_OffByOne ==
    /\ pc = "copy" /\ i = argc
    /\ argv' = [argv EXCEPT ![IF argc = 0 THEN 0 ELSE argc - 1] = Null]
    /\ i' = 0 /\ pc' = "main"
    /\ UNCHANGED <<argc, args, heap, wrong, failed>>

\* "this->argv[this->argc] = nullptr".
Terminate ==
    /\ pc = "copy" /\ i = argc
    /\ argv' = [argv EXCEPT ![argc] = Null]
    /\ i' = 0 /\ pc' = "main"
    /\ UNCHANGED <<argc, args, heap, wrong, failed>>

\* main leaves any pointers in argv, and returns or throws; both run ~cmdline.
Main ==
    /\ pc = "main"
    /\ IF argv = Null THEN UNCHANGED argv
       ELSE argv' \in [DOMAIN argv ->
                          {argv[k] : k \in DOMAIN argv} \cup {Null, Foreign}]
    /\ pc' = "free"
    /\ UNCHANGED <<argc, args, heap, wrong, failed, i>>

\* std::free, which ignores null pointers.
Free(block) ==
    /\ heap' = heap \ {block}
    /\ wrong' = (wrong \/ (block # Null /\ block \notin heap))

\* Mutant of FreeArg: the strings are freed as main left them.
FreeArg_AsLeft ==
    /\ pc = "free" /\ args # Null /\ i < argc
    /\ Free(IF argv = Null THEN Null ELSE argv[i])
    /\ i' = i + 1
    /\ UNCHANGED <<argc, argv, args, failed, pc>>

\* ~cmdline: the strings, if there is an array of them, then the arrays.
FreeArg ==
    /\ pc = "free" /\ args # Null /\ i < argc
    /\ Free(args[i])
    /\ i' = i + 1
    /\ UNCHANGED <<argc, argv, args, failed, pc>>

FreeArrays ==
    /\ pc = "free" /\ (args # Null => i = argc)
    /\ heap' = heap \ {ArgsBlock, ArgvBlock}
    /\ pc' = "returned"
    /\ UNCHANGED <<argc, argv, args, wrong, failed, i>>

Next ==
    \/ \E gotArgv, gotArgs \in BOOLEAN : Alloc(gotArgv, gotArgs)
    \/ \E ok \in BOOLEAN : CopyArg(ok)
    \/ Terminate \/ Main \/ FreeArg \/ FreeArrays

Spec == Init /\ [][Next]_vars

------------------------------------------------------------------------------

\* Every variable has its type, and both arrays are there while they are filled.
TypeOK ==
    /\ argc \in 0 .. MaxArgs
    /\ heap \subseteq Strings \cup {ArgvBlock, ArgsBlock}
    /\ wrong \in BOOLEAN /\ failed \in BOOLEAN
    /\ i \in 0 .. argc
    /\ pc \in {"alloc", "copy", "main", "free", "returned"}
    /\ argv # Null =>
           argv \in [0 .. argc -> Strings \cup {Null, Garbage, Foreign}]
    /\ args # Null => args \in [Strings -> Strings \cup {Null}]
    /\ pc = "copy" => argv # Null /\ args # Null

\* When jmain returns or throws, everything it allocated is freed, each block
\* once and nothing else, however main rearranged or overwrote its argv and
\* whichever allocations failed.
EverythingFreedOnce == ~wrong /\ (pc = "returned" => heap = {})

\* main gets all arguments in their order with a null pointer after them, unless
\* an allocation failed; with no argument at all the arrays may be one short.
MainSeesArguments ==
    (pc = "main" /\ ~failed /\ argc > 0) =>
        argv = [k \in 0 .. argc |-> IF k < argc THEN k ELSE Null]

==============================================================================

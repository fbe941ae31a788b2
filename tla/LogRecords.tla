------------------------------ MODULE LogRecords ------------------------------
(****************************************************************************)
(* Log statements, src/include/ing/logging.hpp:126-330 and 366-608.  A      *)
(* logger's LineID attribute is a thread_specific whose value is one        *)
(* thread_local variable for all loggers of the process; opening a record   *)
(* stores the location of the statement there and the formatter reads it    *)
(* when the record is pushed, by the destructor of the helper at the end of *)
(* the statement.  In between the statement's operands, or the formatters   *)
(* of its arguments, may log, create loggers and throw; an exception runs   *)
(* destructors, which may log too, throw inside and catch.                  *)
(*                                                                          *)
(* What a thread is in the middle of is a stack of frames, outermost first: *)
(* an open record, or a destructor that an exception runs.  What a logger   *)
(* filters out is a constant, Threshold; what the core accepts, which the   *)
(* module Logging details, is left open here.  An exception that leaves a   *)
(* destructor ends the process and is left out.                             *)
(****************************************************************************)
EXTENDS Naturals, Sequences, SequencesExt

CONSTANTS
    Threads, Loggers, Locations,
    Levels,           \* a set of natural numbers
    Threshold,        \* the default severity of every logger
    Nowhere,          \* source_location{}
    MaxDepth,         \* bound: frames of a thread
    MaxRaised         \* bound: exceptions of a thread at a time

ASSUME ThresholdLevels == Threshold \in [Loggers -> Levels]
ASSUME NowhereIsNoPlace == Nowhere \notin Locations
ASSUME BoundsAreCounted == MaxDepth \in Nat /\ MaxRaised \in Nat

VARIABLES
    v,          \* [Threads -> Locations or Nowhere], the thread_local
    stack,      \* [Threads -> frames, outermost first]
    raised,     \* [Threads -> std::uncaught_exceptions()]
    written     \* the record the last step handed to the core, if any

vars == <<v, stack, raised, written>>

\* An open record: the location of its statement, the exceptions its pump
\* counted and, for the properties, the locations its thread stored since.
Record(own, uncaught) == [own |-> own, uncaught |-> uncaught, stored |-> {own}]

\* The frame of a destructor.
Destructor == [own |-> Nowhere, uncaught |-> 0, stored |-> {}]
InRecord(t) == stack[t] # <<>> /\ Last(stack[t]) # Destructor

\* Every destructor on the stack is run by one exception; an exception beyond
\* these is on its way up.
Destructors(s) == {i \in DOMAIN s : s[i] = Destructor}
Unwinding(t) == raised[t] > Cardinality(Destructors(stack[t]))

Init ==
    /\ v = [t \in Threads |-> Nowhere]
    /\ stack = [t \in Threads |-> <<>>]
    /\ raised = [t \in Threads |-> 0]
    /\ written = {}

\* The records open in t note that the thread stored loc.
Noted(t, loc) ==
    [i \in DOMAIN stack[t] |->
        IF stack[t][i] = Destructor THEN Destructor
        ELSE [stack[t][i] EXCEPT !.stored = @ \cup {loc}]]

\* Mutant of Store: the variable is not thread_local.
Store_Static(t, loc) == v' = [u \in Threads |-> loc]

\* thread_specific::set, lines 201-204, and the constructor of val, line 143.
Store(t, loc) == v' = [v EXCEPT ![t] = loc]

\* The severity feature opens no record then.
BelowThreshold(l, level) == level < Threshold[l]

\* Mutant of log: the location is stored before the severity is looked at, as
\* with the features in the order location, channel, severity.
log_StoresFirst(t, l, level, loc) ==
    /\ ~Unwinding(t)
    /\ Len(stack[t]) < MaxDepth
    /\ Store(t, loc)
    /\ stack' = [stack EXCEPT ![t] =
           IF BelowThreshold(l, level) THEN @
           ELSE Append(Noted(t, loc), Record(loc, raised[t]))]
    /\ written' = {}
    /\ UNCHANGED raised

(* log(level, loc): the severity feature comes first and returns an empty   *)
(* record, then the location is stored, then the core is asked for a        *)
(* record, which it may refuse (lines 211-241, 305-321, 352-360).  The      *)
(* helper of a record holds a record_pump (lines 375-380), which counts the *)
(* exceptions there are.                                                    *)
log(t, l, level, loc) ==
    /\ ~Unwinding(t)
    /\ Len(stack[t]) < MaxDepth
    /\ IF BelowThreshold(l, level) THEN UNCHANGED <<v, stack>>
       ELSE /\ Store(t, loc)
            /\ \E opened \in {<<>>, <<Record(loc, raised[t])>>} :
                   stack' = [stack EXCEPT ![t] = Noted(t, loc) \o opened]
    /\ written' = {}
    /\ UNCHANGED raised

(* A log statement in any of its forms: lg.log(level), lg.info() and its    *)
(* like, and the forms with a format string.  These write into the record   *)
(* in the second constructor of the helper (lines 382-395), which delegates *)
(* to the first: what throws there finds the helper constructed, runs its   *)
(* destructor and so leaves a frame like any other.                         *)
Statement(t) ==
    \E l \in Loggers, level \in Levels, loc \in Locations :
        log(t, l, level, loc)

\* A logger is constructed, copied or assigned to from a copy: so is its
\* attribute, with a value of its own that is the same variable.
MakeLogger(t) ==
    /\ ~Unwinding(t)
    /\ Store(t, Nowhere)
    /\ stack' = [stack EXCEPT ![t] = Noted(t, Nowhere)]
    /\ written' = {}
    /\ UNCHANGED raised

\* What the formatter is given of a record of t.
Shown(t, record) ==
    [own |-> record.own, stored |-> record.stored, shown |-> v[t]]

\* Mutants of Pushes: whatever happened; only if there is no exception at all,
\* as with std::uncaught_exception().
Pushes_Always(t, record) == TRUE
Pushes_IfNoneRaised(t, record) == raised[t] = 0

\* ~record_pump: no exception came up since the record was opened.
Pushes(t, record) == record.uncaught >= raised[t]

\* ~helper of the innermost statement, at its end or on the way of an exception.
\* Sinks and formatters may throw.
DestroyHelper(t) ==
    /\ InRecord(t)
    /\ LET record == Last(stack[t])
       IN  IF Pushes(t, record)
           THEN /\ written' = {Shown(t, record)}
                /\ \E failed \in {n \in {0, 1} : raised[t] + n <= MaxRaised} :
                       raised' = [raised EXCEPT ![t] = @ + failed]
           ELSE /\ written' = {}
                /\ UNCHANGED raised
    /\ stack' = [stack EXCEPT ![t] = Front(@)]
    /\ UNCHANGED v

------------------------------------------------------------------------------
(* The program around the statements.                                       *)

\* An exception is thrown, by an operand or outside of any statement.
Raise(t) ==
    /\ ~Unwinding(t)
    /\ raised[t] < MaxRaised
    /\ raised' = [raised EXCEPT ![t] = @ + 1]
    /\ written' = {}
    /\ UNCHANGED <<v, stack>>

\* On its way it runs the destructor of an object of the program.
BeginDestructor(t) ==
    /\ Unwinding(t)
    /\ Len(stack[t]) < MaxDepth
    /\ stack' = [stack EXCEPT ![t] = Append(@, Destructor)]
    /\ written' = {}
    /\ UNCHANGED <<v, raised>>

EndDestructor(t) ==
    /\ ~Unwinding(t)
    /\ stack[t] # <<>> /\ Last(stack[t]) = Destructor
    /\ stack' = [stack EXCEPT ![t] = Front(@)]
    /\ written' = {}
    /\ UNCHANGED <<v, raised>>

\* A handler: of the operand, of the destructor, or of the code that logs.
Catch(t) ==
    /\ Unwinding(t)
    /\ raised' = [raised EXCEPT ![t] = @ - 1]
    /\ written' = {}
    /\ UNCHANGED <<v, stack>>

Next ==
    \E t \in Threads :
        \/ Statement(t) \/ MakeLogger(t) \/ DestroyHelper(t)
        \/ Raise(t) \/ BeginDestructor(t) \/ EndDestructor(t) \/ Catch(t)

Spec == Init /\ [][Next]_vars

------------------------------------------------------------------------------

Places == Locations \cup {Nowhere}

Frames ==
    {Destructor} \cup
    [own : Locations, uncaught : 0 .. MaxRaised, stored : SUBSET Places]

TypeOK ==
    /\ v \in [Threads -> Places]
    /\ stack \in [Threads -> Seq(Frames)]
    /\ \A t \in Threads : Len(stack[t]) <= MaxDepth
    /\ raised \in [Threads -> 0 .. MaxRaised]
    /\ written \subseteq
           [own : Locations, stored : SUBSET Places, shown : Places]

\* A written record shows its own location, or one that its own thread stored
\* while it was open (a statement in its operands that got past the threshold
\* of its logger, or a new logger): never what other threads log at the same
\* time, through the same loggers or others, nor what was there before it.
ShowsItsLocation == \A w \in written : w.shown \in w.stored

\* A record is written if and only if its statement came to its end: not when
\* an exception leaves the statement, be it thrown by an operand or while the
\* format string is filled in; but also when the statement stands in a
\* destructor that an exception runs, and whatever was thrown and caught inside
\* the statement.
WrittenIffCompleted ==
    [][\A t \in Threads :
          (InRecord(t) /\ Len(stack'[t]) < Len(stack[t])) =>
              (written' # {} <=> ~Unwinding(t))]_vars

==============================================================================

--------------------------- MODULE ThreadNamesTest ---------------------------
(***************************************************************************)
(* The test case thread_name (src/test/test_threading.cpp): two threads    *)
(* that call the functions of ThreadNames in the order of their programs   *)
(* and wait for each other at a barrier.                                   *)
(***************************************************************************)
EXTENDS ThreadNames, Sequences

CONSTANTS parent, child,          (* the threads                           *)
          nameP, nameC, nameC2    (* "test-parent", "test-child" and       *)
                                  (* "test-child-2"                        *)

VARIABLES line,    (* how much of its program each thread has done         *)
          barrier  (* the atomic int                                       *)

testVars == <<vars, line, barrier>>

I(what, arg) == [do |-> what, arg |-> arg]

(* The statements of the two lambdas and of the test case itself.          *)
Program ==
  [t \in Threads |->
     IF t = parent
     THEN <<I("setOwn", nameP), I("start", child), I("getOwn", parent),
            I("getId", parent), I("getId", child), I("arrive", 1),
            I("wait", 2), I("getId", child), I("setId", nameC2),
            I("getId", child), I("arrive", 3)>>
     ELSE <<I("wait", 1), I("setOwn", nameC), I("arrive", 2),
            I("getOwn", child), I("wait", 3), I("sync", child),
            I("getOwn", child), I("exit", child)>>]

TestInit ==
  /\ Init
  /\ line = [t \in Threads |-> 0]
  /\ barrier = 0

(* The next statement of t, once the call before it has returned.          *)
Perform(t) ==
  /\ op[t] = "none" /\ line[t] < Len(Program[t])
  /\ line' = [line EXCEPT ![t] = @ + 1]
  /\ LET i == Program[t][line[t] + 1]
     IN \/ /\ t \in running
           /\ \/ i.do = "arrive" /\ barrier' = i.arg
              \/ i.do = "wait" /\ barrier = i.arg /\ UNCHANGED barrier
           /\ UNCHANGED vars
        \/ /\ \/ i.do = "start" /\ Start(i.arg)
              \/ i.do = "setOwn" /\ SetOwn(t, i.arg)
              \/ i.do \in {"getOwn", "sync"} /\ GetOwn(t, i.do)
              \/ i.do = "getId" /\ GetId(t, i.arg)
              \/ i.do = "setId" /\ SetId(t, child, i.arg)
              \/ i.do = "exit" /\ Exit(t)
           /\ Watch /\ UNCHANGED barrier

TestNext ==
  \/ \E t \in Threads : Perform(t)
  \/ /\ Start(parent) \/ \E t \in Threads : Step(t)
     /\ Watch
     /\ UNCHANGED <<line, barrier>>

TestSpec == TestInit /\ [][TestNext]_testVars

(* Statement n of thread t is a get_thread_name that is about to return.   *)
Returning(t, n) == pc[t] = "return" /\ op[t] # "sync" /\ line[t] = n

Result(t) == content[ptr[t]]

(* "BOOST_TEST(get_thread_name().c_str() == "test-child")": the child has  *)
(* named itself and reads the name back (test_threading.cpp:25-27).        *)
ChildReadsItsName ==
  Returning(child, 4) => Result(child) = nameC

=============================================================================

----------------------------- MODULE TimerBoard -----------------------------
(***************************************************************************)
(* What the registry of timers promises to its callers, without locks:     *)
(* names become known once and for ever, and every call of                 *)
(* report(name, loc) ends in exactly one of two ways: one sample is added  *)
(* to its name, or nothing is, and the second only if the name was not     *)
(* known when the call began.                                              *)
(***************************************************************************)
EXTENDS Naturals

CONSTANTS Threads, Names

VARIABLES known,    (* the names with an element                           *)
          count,    (* complete samples of each name                       *)
          pending   (* the calls of report in progress                     *)

boardVars == <<known, count, pending>>

BoardInit ==
  /\ known = {}
  /\ count = [n \in Names |-> 0]
  /\ pending = {}

BoardCall(t, n) ==
  /\ \A c \in pending : c.thread # t
  /\ pending' = pending \cup
       {[thread |-> t, name |-> n, fresh |-> n \notin known]}
  /\ UNCHANGED <<known, count>>

Create(c) ==
  /\ c.name \notin known
  /\ known' = known \cup {c.name}
  /\ UNCHANGED <<count, pending>>

Record(c) ==
  /\ c.name \in known
  /\ count' = [count EXCEPT ![c.name] = @ + 1]
  /\ pending' = pending \ {c}
  /\ UNCHANGED known

Drop(c) ==
  /\ c.fresh
  /\ pending' = pending \ {c}
  /\ UNCHANGED <<known, count>>

BoardNext ==
  \/ \E t \in Threads, n \in Names : BoardCall(t, n)
  \/ \E c \in pending : Create(c) \/ Record(c) \/ Drop(c)

BoardSpec == BoardInit /\ [][BoardNext]_boardVars

=============================================================================

------------------------------ MODULE NameBoard ------------------------------
(***************************************************************************)
(* What the functions of ing/threading.hpp promise together: every thread  *)
(* has one name, a call that sets a name changes it at one moment between  *)
(* its beginning and its return, and a call that gets a name returns the   *)
(* one held at such a moment.  A thread takes its name from the platform   *)
(* once, at its first call about itself and only if nobody has named it    *)
(* before, and loses its name when it ends.                                *)
(***************************************************************************)
CONSTANTS Threads, Contents,
          DefName,   (* the name of a thread that has none                 *)
          Unknown    (* no name                                            *)

VARIABLES name,      (* the name of each thread                            *)
          introduced,(* the threads that have called about themselves      *)
          call       (* the call in progress of each thread                *)

boardVars == <<name, introduced, call>>

Idle(t) == [do |-> "idle", id |-> t, name |-> Unknown]

BoardInit ==
  /\ name = [t \in Threads |-> DefName]
  /\ introduced = {}
  /\ call = [t \in Threads |-> Idle(t)]

Become(t, c) == call' = [call EXCEPT ![t] = c]

CallSet(t, i, n) ==
  /\ call[t].do = "idle"
  /\ Become(t, [do |-> "setting", id |-> i, name |-> n])
  /\ UNCHANGED <<name, introduced>>

CallGet(t, i) ==
  /\ call[t].do = "idle"
  /\ Become(t, [do |-> "getting", id |-> i, name |-> Unknown])
  /\ UNCHANGED <<name, introduced>>

CallEnd(t) ==
  /\ call[t].do = "idle" /\ t \in introduced
  /\ Become(t, [do |-> "ending", id |-> t, name |-> Unknown])
  /\ UNCHANGED <<name, introduced>>

Done(t, result) ==
  Become(t, [do |-> "done", id |-> call[t].id, name |-> result])

(* The one moment of each call.                                            *)
Set(t) ==
  /\ call[t].do = "setting"
  /\ name' = [name EXCEPT ![call[t].id] = call[t].name]
  /\ Done(t, Unknown)
  /\ UNCHANGED introduced

Get(t) ==
  /\ call[t].do = "getting"
  /\ Done(t, name[call[t].id])
  /\ UNCHANGED <<name, introduced>>

End(t) ==
  /\ call[t].do = "ending"
  /\ name' = [name EXCEPT ![t] = DefName]
  /\ introduced' = introduced \ {t}
  /\ Done(t, Unknown)

Introduce(t) ==
  /\ t \notin introduced
  /\ call[t].do \in {"setting", "getting"} /\ call[t].id = t
  /\ introduced' = introduced \cup {t}
  /\ \/ UNCHANGED name
     \/ /\ name[t] = DefName
        /\ \E n \in Contents : name' = [name EXCEPT ![t] = n]
  /\ UNCHANGED call

(* Also of a call that gets the default name and needs no moment more.     *)
Return(t) ==
  /\ \/ call[t].do = "done"
     \/ call[t].do = "getting" /\ name[call[t].id] = DefName
  /\ Become(t, Idle(t))
  /\ UNCHANGED <<name, introduced>>

BoardNext ==
  \E t \in Threads :
    \/ \E i \in Threads, n \in Contents : CallSet(t, i, n)
    \/ \E i \in Threads : CallGet(t, i)
    \/ CallEnd(t)
    \/ Set(t) \/ Get(t) \/ End(t) \/ Introduce(t) \/ Return(t)

BoardSpec == BoardInit /\ [][BoardNext]_boardVars

=============================================================================

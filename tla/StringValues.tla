---------------------------- MODULE StringValues ----------------------------
(***************************************************************************)
(* What ing::string promises: every string object has a value of its own,  *)
(* which only operations on that object change.                            *)
(***************************************************************************)
CONSTANTS Objects, Values, EmptyValue, Unborn

VARIABLE value

ValueInit == value = [o \in Objects |-> Unborn]

Live == {o \in Objects : value[o] # Unborn}

Construct(o, v) ==
  /\ o \notin Live
  /\ value' = [value EXCEPT ![o] = v]

CopyTo(o, s) ==
  /\ o \notin Live /\ s \in Live
  /\ value' = [value EXCEPT ![o] = value[s]]

MoveTo(o, s) ==
  /\ o \notin Live /\ s \in Live
  /\ value' = [value EXCEPT ![o] = value[s], ![s] = EmptyValue]

Exchange(o, s) ==
  /\ o \in Live /\ s \in Live
  /\ value' = [value EXCEPT ![o] = value[s], ![s] = value[o]]

Destruct(o) ==
  /\ o \in Live
  /\ value' = [value EXCEPT ![o] = Unborn]

ValueNext ==
  \E o \in Objects :
    \/ \E v \in Values : Construct(o, v)
    \/ \E s \in Objects : CopyTo(o, s) \/ MoveTo(o, s) \/ Exchange(o, s)
    \/ Destruct(o)

ValueSpec == ValueInit /\ [][ValueNext]_value

=============================================================================

------------------------------- MODULE Owners -------------------------------
(***************************************************************************)
(* The threads of a program, as the owners of its locks.                   *)
(***************************************************************************)
CONSTANTS Threads,   (* the threads of the program                         *)
          NoThread   (* "owned by nobody"                                  *)

ASSUME NoThreadAssumption == NoThread \notin Threads

=============================================================================

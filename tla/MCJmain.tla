-------------------------------- MODULE MCJmain --------------------------------
(* Command lines of up to three arguments.                                  *)
EXTENDS Jmain
==============================================================================

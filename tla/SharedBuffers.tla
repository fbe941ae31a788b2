---------------------------- MODULE SharedBuffers ----------------------------
(***************************************************************************)
(* The buffers behind ing::string_base (src/src/string.cpp): a header with *)
(* an atomic reference count in front of immutable characters, and one     *)
(* static buffer, nullstr, for all empty strings.                          *)
(***************************************************************************)
EXTENDS Integers

CONSTANTS Buffers,  (* the buffers malloc may return                       *)
          nullstr,  (* the static buffer                                   *)
          Contents, (* what a buffer can hold, the empty string included   *)
          Empty,    (* the empty string                                    *)
          Freed,    (* no content: the buffer is not allocated             *)
          IntMax    (* the largest value of an int                         *)

ASSUME BufferAssumption ==
  /\ nullstr \notin Buffers
  /\ Empty \in Contents
  /\ Freed \notin Contents
  /\ IntMax \in Nat \ {0}

VARIABLES refcount, (* header::refcount                                    *)
          content   (* the characters, or Freed                            *)

bufferVars == <<refcount, content>>

AllBuffers == Buffers \cup {nullstr}

BufferTypeOK ==
  /\ refcount \in [AllBuffers -> -IntMax - 1 .. IntMax]
  /\ content \in [AllBuffers -> Contents \cup {Freed}]

(* The count of nullstr starts at 1, so that it never drops to 0.          *)
BufferInit ==
  /\ refcount = [b \in AllBuffers |-> IF b = nullstr THEN 1 ELSE 0]
  /\ content = [b \in AllBuffers |-> IF b = nullstr THEN Empty ELSE Freed]

(* malloc and the construction of the header.                              *)
Alloc(b, c) ==
  /\ content[b] = Freed
  /\ refcount' = [refcount EXCEPT ![b] = 1]
  /\ content' = [content EXCEPT ![b] = c]

(* std::atomic<int> wraps around.                                          *)
Wrapped(n) ==
  CASE n > IntMax -> n - 2 * (IntMax + 1)
    [] n < -IntMax - 1 -> n + 2 * (IntMax + 1)
    [] OTHER -> n

(* fetch_add: also of a buffer that was freed, if the code gets there.     *)
AddRef(b) ==
  /\ refcount' = [refcount EXCEPT ![b] = Wrapped(@ + 1)]
  /\ UNCHANGED content

(* fetch_sub, and free if it returns 1: nobody else can reach the buffer   *)
(* between the two.                                                        *)
DropRef(b) ==
  /\ refcount' = [refcount EXCEPT ![b] = Wrapped(@ - 1)]
  /\ content' = [content EXCEPT ![b] = IF refcount[b] = 1 THEN Freed ELSE @]

=============================================================================

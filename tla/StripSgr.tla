------------------------------- MODULE StripSgr -------------------------------
(****************************************************************************)
(* The formatter %SGR(mode=strip)%, src/src/logging.cpp:200-248: it removes *)
(* the colour sequences ESC [ digits-and-semicolons m from the text of a    *)
(* record in place, with two pointers into the text and memmove.            *)
(*                                                                          *)
(* Characters are the classes the code tells apart: "esc", "[", "d" for a   *)
(* digit or a semicolon, "m", "nul", "nl" for a newline, which only others  *)
(* look for, and "x" for the rest.  A position is an index from 1; the      *)
(* terminator of std::string stands after the last.                         *)
(* A step is a turn of the loop of find, with what follows when it ends.    *)
(****************************************************************************)
EXTENDS Integers, Sequences, FiniteSets

Chars == {"esc", "[", "d", "m", "x", "nl", "nul"}

VARIABLES
    original,       \* the text before, for the properties
    text,           \* the storage of the record's stream
    first, second,  \* the pair a of the code: where to write, where to read
    scan,           \* the pointer s of find
    pc              \* looking for the "first" or the "next" colour, or "done"

\* Reading the text; the terminator can be read too.
At(p) == IF p = Len(text) + 1 THEN "nul" ELSE text[p]

\* Where the run of digits and semicolons from p on ends.
EndOfParams(p) ==
    CHOOSE q \in p .. Len(text) + 1 :
        At(q) # "d" /\ \A i \in p .. q - 1 : At(i) = "d"

\* Mutants of ColourAt: any final character will do; there must be parameters.
ColourAt_AnyFinal(p) ==
    At(p) = "esc" /\ At(p + 1) = "[" /\ At(EndOfParams(p + 2)) # "nul"
ColourAt_NeedsParams(p) ==
    /\ At(p) = "esc" /\ At(p + 1) = "["
    /\ At(EndOfParams(p + 2)) = "m" /\ EndOfParams(p + 2) > p + 2

\* The conditions of find: a colour begins at p.
ColourAt(p) ==
    At(p) = "esc" /\ At(p + 1) = "[" /\ At(EndOfParams(p + 2)) = "m"

\* Mutant of After: the character at which an ESC [ is found to be no colour is
\* skipped, and the one after the "m" of a colour too.
After_SkipsOne(p) ==
    CASE At(p) # "esc"                     -> p + 1
      [] At(p) = "esc" /\ At(p + 1) # "[" -> p + 2
      [] OTHER -> EndOfParams(p + 2) + 1

(* Where s is after the turn that began at p: "*s++ == ESC && *s++ == '['"  *)
(* reads the character after an ESC and steps over it, even if it is an ESC *)
(* itself or the terminator, and then the loop goes on behind that.  After  *)
(* a colour it is at the "m".                                               *)
After(p) ==
    CASE At(p) # "esc"                     -> p + 1
      [] At(p) = "esc" /\ At(p + 1) # "[" -> p + 2
      [] OTHER -> EndOfParams(p + 2)

\* The formatter is called on what the ones before it wrote.
Call ==
    /\ original' = text
    /\ first' = 1 /\ second' = 1 /\ scan' = 1
    /\ pc' = "first"
    /\ UNCHANGED text

\* The condition of the loop.  Behind the terminator nothing is known to stand:
\* neither this nor AtEnd holds.
More == scan \in DOMAIN text /\ At(scan) # "nul"

AtEnd == scan \in 1 .. Len(text) + 1 /\ At(scan) = "nul"

\* A turn that finds nothing.
Skip ==
    /\ pc \in {"first", "next"}
    /\ More /\ ~ColourAt(scan)
    /\ scan' = After(scan)
    /\ UNCHANGED <<original, text, first, second, pc>>

\* "auto a = find(s->data())" finds a colour: e is behind its "m".
FindFirst ==
    /\ pc = "first"
    /\ More /\ ColourAt(scan)
    /\ first' = scan
    /\ second' = After(scan) + 1 /\ scan' = After(scan) + 1
    /\ pc' = "next"
    /\ UNCHANGED <<original, text>>

\* It finds none, and the text stays as it is.
FindNone ==
    /\ pc = "first"
    /\ AtEnd
    /\ pc' = "done"
    /\ UNCHANGED <<original, text, first, second, scan>>

\* Mutant of Move: the colour is skipped and nothing is moved.
Move_NoCopy ==
    /\ pc = "next"
    /\ More /\ ColourAt(scan)
    /\ first' = first + (scan - second)
    /\ second' = After(scan) + 1 /\ scan' = After(scan) + 1
    /\ UNCHANGED <<original, text, pc>>

\* Another colour: what is between the two moves down, memmove.
Move ==
    LET n == scan - second
    IN  /\ pc = "next"
        /\ More /\ ColourAt(scan)
        /\ text' = [i \in DOMAIN text |->
                       IF i \in first .. first + n - 1
                       THEN text[second + (i - first)] ELSE text[i]]
        /\ first' = first + n
        /\ second' = After(scan) + 1 /\ scan' = After(scan) + 1
        /\ UNCHANGED <<original, pc>>

\* No more: the gap that has opened is erased.
Erase ==
    /\ pc = "next"
    /\ AtEnd
    /\ text' = SubSeq(text, 1, first - 1) \o SubSeq(text, second, Len(text))
    /\ pc' = "done"
    /\ UNCHANGED <<original, first, second, scan>>

Strip == Skip \/ FindFirst \/ FindNone \/ Move \/ Erase

------------------------------------------------------------------------------
(* What stripping means, without a scan: no two sequences overlap, because  *)
(* each has one ESC, at its start.                                          *)

\* The colour sequences of a text, as their first and last positions.
ColoursOf(s) ==
    {c \in (DOMAIN s) \X (DOMAIN s) :
        /\ c[1] + 2 <= c[2]
        /\ s[c[1]] = "esc" /\ s[c[1] + 1] = "[" /\ s[c[2]] = "m"
        /\ \A i \in c[1] + 2 .. c[2] - 1 : s[i] = "d"}

Colours == ColoursOf(original)

Positions(colours) == UNION {c[1] .. c[2] : c \in colours}

\* The place that position p gets when only the positions kept remain.
Rank(p, kept) == Cardinality({q \in kept : q <= p})

\* t is what stands in s at the positions kept, in the same order.
Picks(t, s, kept) ==
    /\ Len(t) = Cardinality(kept)
    /\ \A p \in kept : t[Rank(p, kept)] = s[p]

Without(s, colours) == (DOMAIN s) \ Positions(colours)

\* Every ESC is followed by something else than an ESC, a NUL or the end, and
\* there is no NUL.
Regular ==
    /\ \A i \in DOMAIN original :
           original[i] = "esc" => /\ i < Len(original)
                                  /\ original[i + 1] # "esc"
    /\ \A i \in DOMAIN original : original[i] # "nul"

\* The result is the text without its colour sequences, all of them and nothing
\* else, for a text in which an ESC begins something.
StripsExactly ==
    (Regular /\ pc = "done") =>
        Picks(text, original, Without(original, Colours))

\* Whatever the text, nothing but colour sequences is lost.
OnlyColoursLost ==
    pc = "done" =>
        \E lost \in SUBSET Colours :
            Picks(text, original, Without(original, lost))

\* The scan leaves the text only after an ESC that is the very last character.
StaysInText ==
    (pc \in {"first", "next"} /\ scan > Len(text) + 1) =>
        /\ Len(original) > 0
        /\ original[Len(original)] = "esc"

==============================================================================

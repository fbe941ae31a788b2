------------------------------ MODULE Formatters ------------------------------
(****************************************************************************)
(* What a sink writes for a record, src/src/logging.cpp:32-96, 183-395 and  *)
(* 458-521: the names and colours of the severities, the formatter          *)
(* factories that turn a template such as "%Default%%SGR(mode=strip)%" into *)
(* formatters, and these formatters, which append to the text one after the *)
(* other, or strip the colours from what there is (the module StripSgr).    *)
(*                                                                          *)
(* A case is what is configured and the record that is written:             *)
(*   sgr           NoSection or the section [Attributes.SGR], a sequence of *)
(*                 [name, colour];                                          *)
(*   threshold     the scopes are shown above this severity;                *)
(*   auto_newline  whether %Scope% begins on a line of its own;             *)
(*   template      the template of the sink, a sequence of [name, arg], arg *)
(*                 the mode of %SGR% or the iteration of %Scope%, whose     *)
(*                 other arguments are left to the settings, or Absent;     *)
(*   level         the severity of the record, Unknown if it has none;      *)
(*   header, message, scopes                                                *)
(*                 its texts, of the characters of StripSgr: what is before *)
(*                 the message, which stands for times, channels and        *)
(*                 locations alone too; the message; and the scopes in the  *)
(*                 chosen format, which may be no text at all.              *)
(****************************************************************************)
EXTENDS StripSgr

CONSTANTS
    Cases,            \* bound
    NewlineIfEmpty,   \* does boost's auto_newline write into an empty text?
    NoSection, Absent

Names == {"Default", "TimeStamp", "LineID", "Severity", "Message", "Scope",
          "SGR"}

ASSUME CasesAssumption ==
    \A c \in Cases :
        /\ \/ c.sgr = NoSection
           \/ c.sgr \in Seq([name : STRING, colour : Seq(Chars)])
        /\ c.threshold \in 0 .. 5 /\ c.level \in Int
        /\ c.auto_newline \in BOOLEAN
        /\ c.template \in Seq([name : Names, arg : STRING])
        /\ c.header \in Seq(Chars) /\ c.message \in Seq(Chars)
        /\ c.scopes \in Seq(Chars)

ASSUME NewlineAssumption == NewlineIfEmpty \in BOOLEAN

VARIABLES
    case, table,      \* sgr_formatter_factory::table
    assigned,         \* entries of the section that are in the table
    todo,             \* the formatters that have not been called
    bare,             \* for the properties: what is written, without colours
    plain             \* and what the template would write without any %SGR%

stripVars == <<original, text, first, second, scan, pc>>
vars == <<case, table, assigned, todo, bare, plain, stripVars>>

------------------------------------------------------------------------------
(* Severities, logging.hpp:101-109 and logging.cpp:34-96.                    *)

level_str == <<"TRACE", "DEBUG", "INFO", "WARN", "ERROR", "FATAL">>

Ordinals == 0 .. 5
Unknown == -1
Error == 4

\* Mutant of from_string: the names of four letters are taken for each other.
from_string_Swapped(str) ==
    LET ordinal(i) == IF i \in {3, 4} THEN 6 - i ELSE i - 1
    IN  {ordinal(i) : i \in {j \in DOMAIN level_str : level_str[j] = str}}

\* The ordinal of a name, if it is one; operator>> throws if it is not.
from_string(str) ==
    {i - 1 : i \in {j \in DOMAIN level_str : level_str[j] = str}}

\* The name of a severity that has one.
to_string(level) == level_str[level + 1]

------------------------------------------------------------------------------
(* Colours.                                                                 *)

DefaultColour == <<"d", "d">>

\* Mutant of sgr: the severities count from one.
sgr_OffByOne(level) ==
    IF level + 1 \in Ordinals THEN <<"esc", "[">> \o table[level + 1] \o <<"m">>
    ELSE <<>>

\* %SGR%: nothing for a severity that is none or has no colour.
sgr(level) ==
    IF level \in Ordinals /\ table[level] # <<>>
    THEN <<"esc", "[">> \o table[level] \o <<"m">>
    ELSE <<>>

\* Mutant of reset_sgr: its "m" has been forgotten.
reset_sgr_Open == <<"esc", "[", "d", "d">>

\* "\033[39;49m".
reset_sgr == <<"esc", "[", "d", "d", "m">>

------------------------------------------------------------------------------
(* Formatters and their factories.                                          *)

Invalid == "invalid"

Chains == {"default", "lines"}

Formatters == Chains \cup {"sgr", "reset", "header", "message", "newline",
                          "scope", "strip"}

\* create_formatter of the factory of an attribute, as the formatter it makes:
\* lines 275-391, Severity and Message are Boost's.
create_formatter(item) ==
    CASE item.name = "Default" -> "default"
      [] item.name \in {"TimeStamp", "LineID", "Severity"} -> "header"
      [] item.name = "Message" -> "message"
      [] item.name = "Scope" ->
             IF item.arg \notin {"forward", "reverse", Absent} THEN Invalid
             ELSE IF case.auto_newline THEN "lines" ELSE "scope"
      [] item.name = "SGR" ->
             IF item.arg \in {Absent, ""} THEN "sgr"
             ELSE IF item.arg \in {"reset", "strip"} THEN item.arg
             ELSE Invalid

\* Formatters that are chains of others: fmt of init_logging, and a %Scope%
\* that begins a line.
Chain(f) ==
    CASE f = "default" ->
             <<"sgr", "header", "message", "newline", "scope", "reset">>
      [] f = "lines" -> <<"newline", "scope">>

\* The condition of %Scope%; it does not hold without a severity.
ScopeShown == case.level > case.threshold

\* Where Boost's auto_newline writes nothing: it looks at the last character
\* that has been written, be it one of a colour.
AtLineStart(s) ==
    IF s = <<>> THEN ~NewlineIfEmpty ELSE s[Len(s)] = "nl"

\* What a formatter appends to s, apart from colours.
Uncoloured(f, s) ==
    CASE f = "header"  -> case.header
      [] f = "message" -> case.message
      [] f = "newline" ->
             IF ScopeShown /\ ~AtLineStart(s) THEN <<"nl">> ELSE <<>>
      [] f = "scope"   -> IF ScopeShown THEN case.scopes ELSE <<>>
      [] f \in {"sgr", "reset"} -> <<>>

\* What it appends to the text.
Output(f) ==
    CASE f = "sgr"   -> sgr(case.level)
      [] f = "reset" -> reset_sgr
      [] OTHER       -> Uncoloured(f, text)

------------------------------------------------------------------------------

Init ==
    /\ case \in Cases
    /\ table = [i \in Ordinals |-> <<>>]
    /\ assigned = 0
    /\ todo = <<>> /\ bare = <<>> /\ plain = <<>>
    /\ original = <<>> /\ text = <<>>
    /\ first = 1 /\ second = 1 /\ scan = 1
    /\ pc = "configure"

\* init_logging: an entry of the section; its name may be that of no severity.
Assign ==
    /\ pc = "configure"
    /\ case.sgr # NoSection
    /\ assigned < Len(case.sgr)
    /\ LET entry    == case.sgr[assigned + 1]
           severity == from_string(entry.name)
       IN  IF severity = {}
           THEN pc' = "thrown" /\ UNCHANGED <<table, assigned>>
           ELSE /\ table' = [i \in Ordinals |-> IF i \in severity
                                               THEN entry.colour ELSE table[i]]
                /\ assigned' = assigned + 1
                /\ UNCHANGED pc
    /\ UNCHANGED <<case, todo, bare, plain, original, text, first, second, scan>>

\* The colours without a section, and the template of the sink, which may be
\* refused.
Configure ==
    LET made == [i \in DOMAIN case.template |->
                    create_formatter(case.template[i])]
        bad  == \E i \in DOMAIN made : made[i] = Invalid
    IN  /\ pc = "configure"
        /\ case.sgr # NoSection => assigned = Len(case.sgr)
        /\ pc' = IF bad THEN "thrown" ELSE "format"
        /\ table' = IF case.sgr = NoSection
                    THEN [i \in Ordinals |-> DefaultColour] ELSE table
        /\ todo' = IF bad THEN <<>> ELSE made
        /\ UNCHANGED <<case, assigned, bare, plain,
                       original, text, first, second, scan>>

\* The record is written: one formatter after the other.
Write(f) ==
    /\ text' = text \o Output(f)
    /\ bare' = bare \o Uncoloured(f, text)
    /\ plain' = plain \o Uncoloured(f, plain)
    /\ pc' = "format"
    /\ UNCHANGED <<original, first, second, scan>>

CallFormatter ==
    /\ pc \in {"format", "done"}
    /\ todo # <<>> /\ Head(todo) \notin Chains
    /\ IF Head(todo) = "strip" THEN Call /\ UNCHANGED <<bare, plain>>
       ELSE Write(Head(todo))
    /\ todo' = Tail(todo)
    /\ UNCHANGED <<case, table, assigned>>

CallChain ==
    /\ pc \in {"format", "done"}
    /\ todo # <<>> /\ Head(todo) \in Chains
    /\ todo' = Chain(Head(todo)) \o Tail(todo)
    /\ UNCHANGED <<case, table, assigned, bare, plain, stripVars>>

StripStep == Strip /\ UNCHANGED <<case, table, assigned, todo, bare, plain>>

Next == Assign \/ Configure \/ CallChain \/ CallFormatter \/ StripStep

Spec == Init /\ [][Next]_vars

------------------------------------------------------------------------------

TypeOK ==
    /\ case \in Cases
    /\ table \in [Ordinals -> Seq(Chars)]
    /\ assigned \in Nat
    /\ bare \in Seq(Chars) /\ plain \in Seq(Chars)
    /\ original \in Seq(Chars) /\ text \in Seq(Chars)
    /\ todo \in Seq(Formatters)
    /\ first \in Nat /\ second \in Nat /\ scan \in Nat
    /\ pc \in {"configure", "thrown", "format", "first", "next", "done"}

\* Newlines that end an empty line.
BlankNewlines(s) ==
    {i \in DOMAIN s : s[i] = "nl" /\ (i > 1 => s[i - 1] = "nl")}

\* Stripping takes back what %SGR%, %SGR(mode=reset)% and the colours of
\* %Default% have written: what is left is what the template would have written
\* without colours, and empty lines, because the auto_newline of the scopes does
\* not see a newline that stands before a colour.  Where no scopes are shown it
\* is the same text.  Not so if a configured colour is no list of numbers, if
\* the text has or completes a colour of its own, or if an ESC begins nothing.
StrippedIsPlain ==
    (/\ pc = "done"
     /\ Regular
     /\ ColoursOf(plain) = {}
     /\ \A i \in Ordinals : \A j \in DOMAIN table[i] : table[i][j] = "d") =>
        /\ \E extra \in SUBSET BlankNewlines(text) :
               Picks(plain, text, (DOMAIN text) \ extra)
        /\ ~ScopeShown => text = plain

\* A record is coloured as the last entry of the section says that has the name
\* of its severity.
ColouredAsConfigured ==
    (pc = "format" /\ case.sgr # NoSection /\ case.level \in Ordinals) =>
        LET mine == {j \in DOMAIN case.sgr :
                        case.sgr[j].name = to_string(case.level)}
            colour == IF mine = {} THEN <<>>
                      ELSE case.sgr[CHOOSE j \in mine :
                                        \A k \in mine : k <= j].colour
        IN  sgr(case.level) = IF colour = <<>> THEN <<>>
                              ELSE <<"esc", "[">> \o colour \o <<"m">>

==============================================================================

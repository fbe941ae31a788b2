------------------------------- MODULE Logging -------------------------------
(****************************************************************************)
(* Setting up the logging of a process, src/src/logging.cpp:99-109 and      *)
(* 397-539: ing::init_logging configures Boost.Log's core and the table of  *)
(* thresholds, "can be initialized multiple times" (line 433), may throw    *)
(* half way, and runs beside threads that create loggers and write records. *)
(*                                                                          *)
(* Calls of init_logging do not overlap: the table is a plain std::vector.  *)
(* A configuration is a member of Settings, a record of                     *)
(*   thresholds  a sequence of [level, match]: the section [Thresholds] in  *)
(*               its order, match the channel names the pattern matches,    *)
(*               level or match BadEntry where the text does not parse;     *)
(*   badFormat   a format or an SGR colour of [Attributes] does not parse;  *)
(*   core        NoSection, or [filter, disabled] of the section [Core],    *)
(*               either BadEntry where Boost.Log cannot read it;            *)
(*   sinks       NoSection, or how many sinks the section [Sinks] has;      *)
(*   badSink     one of them cannot be constructed.                         *)
(* Running out of memory in the middle of a call is not modelled.           *)
(****************************************************************************)
EXTENDS Integers, Sequences, FiniteSetsExt

CONSTANTS
    Threads,
    Loggers,      \* logger objects
    Global,       \* the one behind ing::global_logger
    Channels,     \* the names loggers are given
    GlobalName,   \* "global"
    EmptyName,    \* what std::move leaves in a std::string
    MaxLevel,     \* fatal; trace is 0
    Settings,
    MaxCalls,     \* bound: calls of init_logging
    Orders,       \* in which order the build evaluates arguments, see Create
    NoSection, NoFilter, BadEntry, DefaultSink, None

ASSUME ThreadsNotEmpty == Threads # {}
ASSUME GlobalLogger == Global \in Loggers /\ GlobalName \in Channels
ASSUME NamesDiffer == EmptyName \notin Channels
ASSUME LevelsExist == MaxLevel \in Nat
ASSUME OrdersKnown == Orders \subseteq {"level first", "channel first"}
ASSUME BoundIsNumber == MaxCalls \in Nat

Names == Channels \cup {EmptyName}
Levels == 0 .. MaxLevel
Trace == 0

ASSUME SettingsTyped ==
    Settings \subseteq
        [thresholds : Seq([level : {BadEntry} \cup Levels,
                           match : {BadEntry} \cup SUBSET Names]),
         badFormat  : BOOLEAN,
         core       : {NoSection} \cup
                          [filter   : {NoFilter, BadEntry} \cup Levels,
                           disabled : {BadEntry} \cup BOOLEAN],
         sinks      : {NoSection} \cup Nat,
         badSink    : BOOLEAN]

VARIABLES
    core,         \* boost::log::core: enabled, sinks and filter
    thresholds,   \* the static vector of logging.cpp:99
    factories,    \* the call that registered the formatter factories
    calls,        \* how many calls of init_logging have begun
    init,         \* the current call, or how the last one ended
    logger,       \* [Loggers -> None or the channel and threshold]
    record        \* [Threads -> None or the record the thread has open]

vars == <<core, thresholds, factories, calls, init, logger, record>>

\* A pattern that was never assigned: std::regex() matches nothing.
Unassigned == {}

\* A sink of a call: which one, and whose formatter factories it was built by.
Sink(call, nr, format) == [call |-> call, nr |-> nr, format |-> format]
Console == 0

Running == init.pc \notin {"never", "returned", "thrown"}

Init ==
    /\ core = [enabled |-> TRUE, sinks |-> {}, filter |-> NoFilter]
    /\ thresholds = <<>>
    /\ factories = 0
    /\ calls = 0
    /\ init = [pc |-> "never", cfg |-> None, done |-> 0]
    /\ logger = [l \in Loggers |-> None]
    /\ record = [t \in Threads |-> None]

------------------------------------------------------------------------------
(* init_logging, one action per access to what other threads can see.       *)

Goto(pc) == init' = [init EXCEPT !.pc = pc, !.done = 0]

\* Mutant of Begin: the core is not disabled for the reset.
Begin_LeavesEnabled ==
    /\ ~Running
    /\ calls < MaxCalls
    /\ \E cfg \in Settings : init' = [pc |-> "reset", cfg |-> cfg, done |-> 0]
    /\ calls' = calls + 1
    /\ UNCHANGED <<core, thresholds, factories, logger, record>>

\* core->set_logging_enabled(false), line 434.
Begin ==
    /\ ~Running
    /\ calls < MaxCalls
    /\ \E cfg \in Settings : init' = [pc |-> "reset", cfg |-> cfg, done |-> 0]
    /\ calls' = calls + 1
    /\ core' = [core EXCEPT !.enabled = FALSE]
    /\ UNCHANGED <<thresholds, factories, logger, record>>

\* Mutants of ResetCore: the filter stays; the sinks stay.
ResetCore_KeepsFilter ==
    /\ init.pc = "reset"
    /\ core' = [core EXCEPT !.sinks = {}]
    /\ Goto("enable")
    /\ UNCHANGED <<thresholds, factories, calls, logger, record>>

ResetCore_KeepsSinks ==
    /\ init.pc = "reset"
    /\ core' = [core EXCEPT !.filter = NoFilter]
    /\ Goto("enable")
    /\ UNCHANGED <<thresholds, factories, calls, logger, record>>

\* remove_all_sinks and reset_filter; no record is opened between the two.
ResetCore ==
    /\ init.pc = "reset"
    /\ core' = [core EXCEPT !.sinks = {}, !.filter = NoFilter]
    /\ Goto("enable")
    /\ UNCHANGED <<thresholds, factories, calls, logger, record>>

\* set_logging_enabled(true). The global attributes of lines 439-444 are the
\* same in every call, and adding one that is there already does nothing.
Enable ==
    /\ init.pc = "enable"
    /\ core' = [core EXCEPT !.enabled = TRUE]
    /\ Goto("clear")
    /\ UNCHANGED <<thresholds, factories, calls, logger, record>>

\* Mutant of BuildFormats: the factories are registered while they are built.
BuildFormats_Registers ==
    /\ init.pc = "fill"
    /\ init.done = Len(init.cfg.thresholds)
    /\ factories' = calls
    /\ Goto(IF init.cfg.badFormat THEN "thrown" ELSE "register")
    /\ UNCHANGED <<core, thresholds, calls, logger, record>>

\* Mutant of ClearThresholds: the table grows from call to call.
ClearThresholds_Skipped ==
    /\ init.pc = "clear"
    /\ Goto("fill")
    /\ UNCHANGED <<core, thresholds, factories, calls, logger, record>>

ClearThresholds ==
    /\ init.pc = "clear"
    /\ thresholds' = <<>>
    /\ Goto("fill")
    /\ UNCHANGED <<core, factories, calls, logger, record>>

\* One entry of [Thresholds], lines 450-455: emplace_back, then the level, then
\* the pattern; what throws leaves the entry as far as it got.
FillThreshold ==
    LET entry == init.cfg.thresholds[init.done + 1]
        level == IF entry.level = BadEntry THEN Trace ELSE entry.level
        bad   == BadEntry \in {entry.level, entry.match}
    IN  /\ init.pc = "fill"
        /\ init.done < Len(init.cfg.thresholds)
        /\ thresholds' = Append(thresholds,
               [level |-> level,
                match |-> IF bad THEN Unassigned ELSE entry.match])
        /\ init' = [init EXCEPT !.done = IF bad THEN 0 ELSE @ + 1,
                                !.pc = IF bad THEN "thrown" ELSE @]
        /\ UNCHANGED <<core, factories, calls, logger, record>>

\* The formatter factories and the default formatter, lines 458-519.
BuildFormats ==
    /\ init.pc = "fill"
    /\ init.done = Len(init.cfg.thresholds)
    /\ Goto(IF init.cfg.badFormat THEN "thrown" ELSE "register")
    /\ UNCHANGED <<core, thresholds, factories, calls, logger, record>>

RegisterFactories ==
    /\ init.pc = "register"
    /\ factories' = calls
    /\ Goto("core")
    /\ UNCHANGED <<core, thresholds, calls, logger, record>>

------------------------------------------------------------------------------
(* boost::log::init_from_settings: the section [Core], then all sinks of    *)
(* [Sinks] are constructed, then they are added.                            *)

\* Filter, which may not parse, and then DisableLogging, which may not either.
ApplyCore ==
    LET asked == init.cfg.core
    IN  /\ init.pc = "core"
        /\ \/ asked = NoSection /\ core' = core /\ Goto("construct")
           \/ /\ asked # NoSection /\ asked.filter = BadEntry
              /\ core' = core /\ Goto("thrown")
           \/ /\ asked # NoSection /\ asked.filter # BadEntry
              /\ core' = [core EXCEPT !.filter = asked.filter,
                     !.enabled = IF asked.disabled = BadEntry THEN @
                                 ELSE ~asked.disabled]
              /\ Goto(IF asked.disabled = BadEntry THEN "thrown" ELSE "construct")
        /\ UNCHANGED <<thresholds, factories, calls, logger, record>>

ConstructSinks ==
    /\ init.pc = "construct"
    /\ Goto(IF init.cfg.badSink THEN "thrown" ELSE "add")
    /\ UNCHANGED <<core, thresholds, factories, calls, logger, record>>

\* A configured sink was built by the factories registered at the time, its
\* format may say "%Default%".
AddSink ==
    /\ init.pc = "add"
    /\ init.cfg.sinks # NoSection
    /\ init.done < init.cfg.sinks
    /\ core' = [core EXCEPT !.sinks =
                   @ \cup {Sink(calls, init.done + 1, factories)}]
    /\ init' = [init EXCEPT !.done = @ + 1]
    /\ UNCHANGED <<thresholds, factories, calls, logger, record>>

\* "if (settings.has_section("Sinks")) return;"
ReturnWithSinks ==
    /\ init.pc = "add"
    /\ init.cfg.sinks # NoSection
    /\ init.done = init.cfg.sinks
    /\ Goto("returned")
    /\ UNCHANGED <<core, thresholds, factories, calls, logger, record>>

\* add_console_log, lines 532-538, with the formatter of this very call.
AddConsole ==
    /\ init.pc = "add"
    /\ init.cfg.sinks = NoSection
    /\ core' = [core EXCEPT !.sinks = @ \cup {Sink(calls, Console, calls)}]
    /\ Goto("returned")
    /\ UNCHANGED <<thresholds, factories, calls, logger, record>>

InitLogging ==
    \/ Begin \/ ResetCore \/ Enable \/ ClearThresholds \/ FillThreshold
    \/ BuildFormats \/ RegisterFactories \/ ApplyCore \/ ConstructSinks
    \/ AddSink \/ ReturnWithSinks \/ AddConsole

------------------------------------------------------------------------------
(* Loggers and records.                                                     *)

\* The first entry whose pattern matches, lines 101-109.
minimum_severity_level(name) ==
    LET matching == {i \in DOMAIN thresholds : name \in thresholds[i].match}
    IN  IF matching = {} THEN Trace ELSE thresholds[Min(matching)].level

\* The vector is being written: a reader may see any state of it.
TableIsWritten == init.pc \in {"clear", "fill"}

(* basic_logger(channel), logging.hpp:441-444, delegates with               *)
(*   basic_logger(std::move(channel), minimum_severity_level(channel), ...) *)
(* whose arguments are evaluated in the order the compiler likes: if the    *)
(* channel is moved first, its level is looked up under the empty name.     *)
Create(l, c) ==
    /\ logger[l] = None
    /\ \E order \in Orders, level \in Levels :
           /\ \/ TableIsWritten
              \/ level = minimum_severity_level(
                             IF order = "level first" THEN c ELSE EmptyName)
           /\ logger' = [logger EXCEPT ![l] =
                            [channel |-> c, threshold |-> level]]
    /\ UNCHANGED <<core, thresholds, factories, calls, init, record>>

\* The logger of BOOST_LOG_GLOBAL_LOGGER_CTOR_ARGS (logging.cpp:399) is made by
\* the first call of global_logger::get(), be it before, in or after a call of
\* init_logging.
CreateGlobal == Create(Global, GlobalName)

\* It lives to the end of the process, the others as long as they like.
Destroy(l) ==
    /\ l # Global
    /\ logger[l] # None
    /\ logger' = [logger EXCEPT ![l] = None]
    /\ UNCHANGED <<core, thresholds, factories, calls, init, record>>

\* enabled, is_trace_enabled and so on, and the logger's own filter.
enabled(l, level) == logger[l] # None /\ level >= logger[l].threshold

\* The logger's own filter (logging.hpp:226-231), then the core: a record is
\* opened for the sinks there are, under the core's shared lock.
OpenRecord(t, l, level) ==
    /\ record[t] = None
    /\ enabled(l, level)
    /\ core.enabled
    /\ core.filter # NoFilter => level >= core.filter
    /\ record' = [record EXCEPT ![t] =
           [call |-> calls,
            held |-> IF core.sinks = {} THEN {DefaultSink} ELSE core.sinks]]
    /\ UNCHANGED <<core, thresholds, factories, calls, init, logger>>

\* The free functions log, trace, debug and so on.
GlobalStatement(t) == \E level \in Levels : OpenRecord(t, Global, level)

\* The end of the statement: the core hands the record to the sinks it was
\* opened for that still exist.
PushRecord(t) ==
    /\ record[t] # None
    /\ record' = [record EXCEPT ![t] = None]
    /\ UNCHANGED <<core, thresholds, factories, calls, init, logger>>

Logging ==
    \/ \E l \in Loggers \ {Global}, c \in Channels : Create(l, c)
    \/ CreateGlobal
    \/ \E l \in Loggers : Destroy(l)
    \/ \E t \in Threads, l \in Loggers \ {Global}, level \in Levels :
           OpenRecord(t, l, level)
    \/ \E t \in Threads : GlobalStatement(t) \/ PushRecord(t)

Next == InitLogging \/ Logging

Spec == Init /\ [][Next]_vars

------------------------------------------------------------------------------
(* What the last call asked for.                                            *)

ConfiguredSinks ==
    IF init.cfg.sinks = NoSection THEN {Sink(calls, Console, calls)}
    ELSE {Sink(calls, n, calls) : n \in 1 .. init.cfg.sinks}

ConfiguredCore ==
    [enabled |-> init.cfg.core = NoSection \/ ~init.cfg.core.disabled,
     sinks   |-> ConfiguredSinks,
     filter  |-> IF init.cfg.core = NoSection THEN NoFilter
                 ELSE init.cfg.core.filter]

\* Entry i of the table is the one the section asks for.
AsConfigured(i) == thresholds[i] = init.cfg.thresholds[i]

------------------------------------------------------------------------------

SinkSet == [call : 1 .. MaxCalls, nr : Nat, format : 0 .. MaxCalls]

TypeOK ==
    /\ core \in [enabled : BOOLEAN, sinks : SUBSET SinkSet,
                 filter : Levels \cup {NoFilter}]
    /\ thresholds \in Seq([level : Levels, match : SUBSET Names])
    /\ factories \in 0 .. calls
    /\ calls \in 0 .. MaxCalls
    /\ init \in [pc   : {"never", "reset", "enable", "clear", "fill", "register",
                        "core", "construct", "add", "returned", "thrown"},
                 cfg  : Settings \cup {None},
                 done : Nat]
    /\ logger \in [Loggers ->
           {None} \cup [channel : Channels, threshold : Levels]]
    /\ record \in [Threads -> {None} \cup
           [call : 0 .. MaxCalls, held : SUBSET (SinkSet \cup {DefaultSink})]]

\* "Reset core so that can be initialized multiple times" (logging.cpp:433):
\* whatever the calls before it did, failed or not, after a call that returned
\* the core and the table are exactly what its own settings ask for.
LastInitWins ==
    init.pc = "returned" =>
        /\ core = ConfiguredCore
        /\ thresholds = init.cfg.thresholds

\* What the call has to read before it registers its factories.
Parses(cfg) ==
    /\ ~cfg.badFormat
    /\ \A i \in DOMAIN cfg.thresholds :
           BadEntry \notin {cfg.thresholds[i].level, cfg.thresholds[i].match}

\* What a call that threw leaves behind, and what of the calls before it. No
\* sink at all, so that records go to Boost's default sink; a core that is
\* enabled and without a filter, except as its own [Core] says; of the table
\* what its own [Thresholds] says up to the entry it stopped at, which matches
\* no channel. The formatter factories are the ones of an earlier call, if any,
\* when it stopped in [Thresholds] or [Attributes], and its own when it stopped
\* later (logging.cpp:429-530).
FailedInitLeavesPart ==
    init.pc = "thrown" =>
        /\ core.sinks = {}
        /\ core.enabled \/ /\ init.cfg.core # NoSection
                           /\ init.cfg.core.disabled = TRUE
        /\ core.filter # NoFilter => /\ init.cfg.core # NoSection
                                     /\ core.filter = init.cfg.core.filter
        /\ Len(thresholds) <= Len(init.cfg.thresholds)
        /\ \A i \in DOMAIN thresholds :
               \/ AsConfigured(i)
               \/ i = Len(thresholds) /\ thresholds[i].match = {}
        /\ factories = calls <=> Parses(init.cfg)

\* A record never mixes two configurations: opened after a call has begun it is
\* held for sinks of that call only, opened before for none of them. This is
\* what disabling the core around the reset (lines 434-437) is for.
RecordOfOneConfiguration ==
    \A t \in Threads : record[t] # None =>
        \A s \in record[t].held \ {DefaultSink} : s.call = record[t].call

\* The level of the first entry of the last call's [Thresholds] that matches c.
ThresholdOf(c) ==
    LET section == init.cfg.thresholds
        first(i) == /\ c \in section[i].match
                    /\ \A j \in 1 .. i - 1 : c \notin section[j].match
    IN  {section[i].level : i \in {k \in DOMAIN section : first(k)}}

\* A logger created after a call returned and before the next one begins gets
\* the level of the first entry of the section [Thresholds] that matches its
\* channel, as the comments of the test say (src/test/test_logging.cpp:70-71).

LoggerGetsFirstMatch ==
    [][\A l \in Loggers :
          (init.pc = "returned" /\ logger[l] = None /\ logger'[l] # None) =>
              IF ThresholdOf(logger'[l].channel) = {}
              THEN logger'[l].threshold = Trace
              ELSE logger'[l].threshold \in ThresholdOf(logger'[l].channel)
      ]_vars

==============================================================================

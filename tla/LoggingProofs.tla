---------------------------- MODULE LoggingProofs ----------------------------
(****************************************************************************)
(* Theorems about setting up the logging, for any configurations, any       *)
(* number of calls, of threads and of loggers.                              *)
(****************************************************************************)
EXTENDS Logging, WellFoundedInduction, TLAPS

(* The core in and after the reset, and the sinks that the call has added.         *)
Silent == [enabled |-> FALSE, sinks |-> {}, filter |-> NoFilter]
Fresh == [enabled |-> TRUE, sinks |-> {}, filter |-> NoFilter]
Added == {Sink(calls, n, calls) : n \in 1 .. init.done}

(* What the call asks of the core, with the sinks S.                        *)
ConfiguredWith(S) ==
    [enabled |-> init.cfg.core = NoSection \/ ~init.cfg.core.disabled,
     sinks   |-> S,
     filter  |-> IF init.cfg.core = NoSection THEN NoFilter
                 ELSE init.cfg.core.filter]

Begun ==
    init.pc # "never" => init.cfg \in Settings /\ calls >= 1

(* Boost.Log has read the section [Core].                                   *)
CoreRead ==
    init.cfg.core # NoSection => /\ init.cfg.core.filter \in {NoFilter} \cup Levels
                                 /\ init.cfg.core.disabled \in BOOLEAN

(* How far the call has come with the core.                                 *)
CoreSoFar ==
    /\ init.pc = "reset" => ~core.enabled
    /\ init.pc = "enable" => core = Silent
    /\ init.pc \in {"clear", "fill", "register", "core"} => core = Fresh
    /\ init.pc = "construct" => core = ConfiguredWith({}) /\ CoreRead
    /\ init.pc = "add" => core = ConfiguredWith(Added)
    /\ init.pc = "returned" => core = ConfiguredCore
    /\ init.pc = "never" => core.sinks = {}
    /\ init.pc = "thrown" =>
           \/ core = Fresh
           \/ core = ConfiguredWith({}) /\ CoreRead
           \/ /\ init.cfg.core # NoSection
              /\ core = [enabled |-> TRUE, sinks |-> {},
                         filter |-> init.cfg.core.filter]

SinksSoFar ==
    init.pc = "add" =>
        IF init.cfg.sinks = NoSection THEN init.done = 0
        ELSE init.done <= init.cfg.sinks

(* How far it has come with the table of thresholds and the factories.      *)
TableSoFar ==
    /\ init.pc = "fill" =>
           /\ Len(thresholds) = init.done
           /\ init.done <= Len(init.cfg.thresholds)
           /\ \A i \in 1 .. init.done : AsConfigured(i)
    /\ init.pc \in {"register", "core", "construct", "add", "returned"} =>
           thresholds = init.cfg.thresholds
    /\ init.pc = "thrown" =>
           /\ Len(thresholds) <= Len(init.cfg.thresholds)
           /\ \A i \in DOMAIN thresholds :
                  \/ AsConfigured(i)
                  \/ i = Len(thresholds) /\ thresholds[i].match = {}
    /\ init.pc \in {"core", "construct", "add"} => factories = calls

(* What it has read, and whose the factories are.                           *)
Reads(i) == BadEntry \notin {init.cfg.thresholds[i].level,
                             init.cfg.thresholds[i].match}

FactoriesSoFar ==
    /\ init.pc \in {"reset", "enable", "clear", "fill", "register"} =>
           factories < calls
    /\ init.pc = "fill" => \A i \in 1 .. init.done : Reads(i)
    /\ init.pc \in {"register", "core", "construct", "add"} => Parses(init.cfg)
    /\ init.pc = "thrown" => (factories = calls <=> Parses(init.cfg))

IInv == TypeOK /\ Begun /\ CoreSoFar /\ SinksSoFar /\ TableSoFar

------------------------------------------------------------------------------
(* What the entries of a configuration look like.                           *)

LEMMA SettingTyped ==
    ASSUME NEW cfg \in Settings
    PROVE  /\ cfg.thresholds \in Seq([level : {BadEntry} \cup Levels,
                                      match : {BadEntry} \cup SUBSET Names])
           /\ cfg.core # NoSection =>
                  /\ cfg.core.filter \in {NoFilter, BadEntry} \cup Levels
                  /\ cfg.core.disabled \in {BadEntry} \cup BOOLEAN
           /\ cfg.sinks # NoSection => cfg.sinks \in Nat
<1>1. cfg \in
        [thresholds : Seq([level : {BadEntry} \cup Levels,
                           match : {BadEntry} \cup SUBSET Names]),
         badFormat  : BOOLEAN,
         core       : {NoSection} \cup
                          [filter   : {NoFilter, BadEntry} \cup Levels,
                           disabled : {BadEntry} \cup BOOLEAN],
         sinks      : {NoSection} \cup Nat,
         badSink    : BOOLEAN]
    BY SettingsTyped
<1> QED
    BY <1>1

(* A non-empty set of numbers has a smallest one.                           *)
LEMMA Smallest ==
    ASSUME NEW S \in SUBSET Nat, S # {}
    PROVE  Min(S) \in S /\ \A y \in S : Min(S) <= y
<1>1. PICK x \in S : \A y \in S : ~(<<y, x>> \in OpToRel(<, Nat))
    BY NatLessThanWellFounded, WFMin
<1>2. \A y \in S : ~(y < x)
    BY <1>1 DEF OpToRel
<1>3. \A y \in S : x <= y
    BY <1>2
<1> QED
    BY <1>3 DEF Min

------------------------------------------------------------------------------
(* The steps of init_logging.                                               *)

Steps == {"never", "reset", "enable", "clear", "fill", "register",
          "core", "construct", "add", "returned", "thrown"}

Cores == [enabled : BOOLEAN, sinks : SUBSET SinkSet,
          filter : Levels \cup {NoFilter}]

Tables == Seq([level : Levels, match : SUBSET Names])

\* The parts of the type invariant.
LEMMA Typed ==
    TypeOK <=>
        /\ core \in Cores
        /\ thresholds \in Tables
        /\ factories \in 0 .. calls /\ calls \in 0 .. MaxCalls
        /\ init \in [pc : Steps, cfg : Settings \cup {None}, done : Nat]
        /\ logger \in [Loggers ->
               {None} \cup [channel : Channels, threshold : Levels]]
        /\ record \in [Threads -> {None} \cup
               [call : 0 .. MaxCalls, held : SUBSET (SinkSet \cup {DefaultSink})]]
BY DEF TypeOK, Cores, Tables, Steps

LEMMA GoesTo ==
    ASSUME TypeOK, NEW pc \in Steps, NEW done \in Nat,
           init' = [pc |-> pc, cfg |-> init.cfg, done |-> done]
    PROVE  /\ init'.pc = pc /\ init'.cfg = init.cfg /\ init'.done = done
           /\ init' \in [pc : Steps, cfg : Settings \cup {None}, done : Nat]
<1>1. init \in [pc : Steps, cfg : Settings \cup {None}, done : Nat]
    BY Typed
<1> QED
    BY <1>1

\* A step of a call that has begun.
LEMMA CallStep ==
    ASSUME IInv, init.pc # "never", NEW pc \in Steps, NEW done \in Nat,
           init' = [pc |-> pc, cfg |-> init.cfg, done |-> done],
           UNCHANGED <<calls, logger, record>>,
           core' \in Cores, thresholds' \in Tables, factories' \in 0 .. calls
    PROVE  /\ TypeOK' /\ Begun'
           /\ init'.pc = pc /\ init'.cfg = init.cfg /\ init'.done = done
           /\ ConfiguredCore' = ConfiguredCore
           /\ \A S : ConfiguredWith(S)' = ConfiguredWith(S)
           /\ init.cfg \in Settings
<1>1. /\ init'.pc = pc /\ init'.cfg = init.cfg /\ init'.done = done
      /\ init' \in [pc : Steps, cfg : Settings \cup {None}, done : Nat]
    BY GoesTo DEF IInv
<1>2. TypeOK' <=>
        /\ core' \in Cores
        /\ thresholds' \in Tables
        /\ factories' \in 0 .. calls' /\ calls' \in 0 .. MaxCalls
        /\ init' \in [pc : Steps, cfg : Settings \cup {None}, done : Nat]
        /\ logger' \in [Loggers ->
               {None} \cup [channel : Channels, threshold : Levels]]
        /\ record' \in [Threads -> {None} \cup
               [call : 0 .. MaxCalls, held : SUBSET (SinkSet \cup {DefaultSink})]]
    BY DEF TypeOK, Cores, Tables, Steps
<1>3. TypeOK'
    BY <1>1, <1>2, Typed DEF IInv
<1>4. Begun' /\ init.cfg \in Settings
    BY <1>1 DEF IInv, Begun
<1>5. /\ ConfiguredCore' = ConfiguredCore
      /\ \A S : ConfiguredWith(S)' = ConfiguredWith(S)
    BY <1>1 DEF ConfiguredCore, ConfiguredSinks, ConfiguredWith
<1> QED
    BY <1>1, <1>3, <1>4, <1>5

\* The same for a step that ends with Goto.
LEMMA GotoStep ==
    ASSUME IInv, init.pc # "never", NEW pc \in Steps, Goto(pc),
           UNCHANGED <<calls, logger, record>>,
           core' \in Cores, thresholds' \in Tables, factories' \in 0 .. calls
    PROVE  /\ TypeOK' /\ Begun'
           /\ init'.pc = pc /\ init'.cfg = init.cfg /\ init'.done = 0
           /\ ConfiguredCore' = ConfiguredCore
           /\ \A S : ConfiguredWith(S)' = ConfiguredWith(S)
           /\ init.cfg \in Settings
<1>1. init \in [pc : Steps, cfg : Settings \cup {None}, done : Nat]
    BY Typed DEF IInv
<1>2. init' = [pc |-> pc, cfg |-> init.cfg, done |-> 0] /\ 0 \in Nat
    BY <1>1 DEF Goto
<1> QED
    BY <1>2, CallStep

LEMMA BeginKeeps == IInv /\ Begin => IInv'
<1> SUFFICES ASSUME IInv, Begin PROVE IInv'
    OBVIOUS
<1>1. PICK cfg \in Settings : init' = [pc |-> "reset", cfg |-> cfg, done |-> 0]
    BY DEF Begin
<1>2. /\ calls < MaxCalls /\ calls' = calls + 1
      /\ core' = [core EXCEPT !.enabled = FALSE]
      /\ UNCHANGED <<thresholds, factories, logger, record>>
      /\ core \in Cores /\ factories \in 0 .. calls /\ calls \in 0 .. MaxCalls
    BY Typed DEF Begin, IInv
<1>3. core' = [enabled |-> FALSE, sinks |-> core.sinks, filter |-> core.filter]
    BY <1>2 DEF Cores
<1>4. core' \in Cores /\ ~core'.enabled
    BY <1>2, <1>3 DEF Cores
<1>5. /\ init'.pc = "reset" /\ init'.cfg = cfg
      /\ init' \in [pc : Steps, cfg : Settings \cup {None}, done : Nat]
    BY <1>1 DEF Steps
<1>6. /\ calls' \in 0 .. MaxCalls /\ factories' \in 0 .. calls' /\ calls' >= 1
    BY <1>2, BoundIsNumber
<1>7. TypeOK'
    BY <1>2, <1>4, <1>5, <1>6, Typed DEF TypeOK, Cores, Tables, Steps, IInv
<1>8. Begun'
    BY <1>5, <1>6 DEF Begun
<1>9. CoreSoFar'
    BY <1>4, <1>5 DEF CoreSoFar
<1>10. SinksSoFar' /\ TableSoFar'
    BY <1>5 DEF SinksSoFar, TableSoFar
<1> QED
    BY <1>7, <1>8, <1>9, <1>10 DEF IInv

LEMMA ResetCoreKeeps == IInv /\ ResetCore => IInv'
<1> SUFFICES ASSUME IInv, ResetCore PROVE IInv'
    OBVIOUS
<1>1. /\ init.pc = "reset" /\ Goto("enable") /\ "enable" \in Steps
      /\ core' = [core EXCEPT !.sinks = {}, !.filter = NoFilter]
      /\ UNCHANGED <<thresholds, factories, calls, logger, record>>
    BY DEF ResetCore, Steps
<1>2. /\ core \in Cores /\ ~core.enabled
      /\ thresholds \in Tables /\ factories \in 0 .. calls
    BY <1>1, Typed DEF IInv, CoreSoFar
<1>3. core' = [enabled |-> FALSE, sinks |-> {}, filter |-> NoFilter]
    BY <1>1, <1>2 DEF Cores
<1>4. core' \in Cores
    BY <1>3 DEF Cores
<1>5. TypeOK' /\ Begun' /\ init'.pc = "enable"
    BY <1>1, <1>2, <1>4, GotoStep
<1>6. CoreSoFar'
    BY <1>3, <1>5 DEF CoreSoFar, Silent
<1>7. SinksSoFar' /\ TableSoFar'
    BY <1>5 DEF SinksSoFar, TableSoFar
<1> QED
    BY <1>5, <1>6, <1>7 DEF IInv

LEMMA EnableKeeps == IInv /\ Enable => IInv'
<1> SUFFICES ASSUME IInv, Enable PROVE IInv'
    OBVIOUS
<1>1. /\ init.pc = "enable" /\ Goto("clear") /\ "clear" \in Steps
      /\ core' = [core EXCEPT !.enabled = TRUE]
      /\ UNCHANGED <<thresholds, factories, calls, logger, record>>
    BY DEF Enable, Steps
<1>2. /\ core = Silent
      /\ thresholds \in Tables /\ factories \in 0 .. calls
    BY <1>1, Typed DEF IInv, CoreSoFar
<1>3. core' = Fresh /\ core' \in Cores
    BY <1>1, <1>2 DEF Silent, Fresh, Cores
<1>4. TypeOK' /\ Begun' /\ init'.pc = "clear"
    BY <1>1, <1>2, <1>3, GotoStep
<1>5. CoreSoFar'
    BY <1>3, <1>4 DEF CoreSoFar
<1>6. SinksSoFar' /\ TableSoFar'
    BY <1>4 DEF SinksSoFar, TableSoFar
<1> QED
    BY <1>4, <1>5, <1>6 DEF IInv

LEMMA ClearThresholdsKeeps == IInv /\ ClearThresholds => IInv'
<1> SUFFICES ASSUME IInv, ClearThresholds PROVE IInv'
    OBVIOUS
<1>1. /\ init.pc = "clear" /\ Goto("fill") /\ "fill" \in Steps
      /\ thresholds' = <<>> /\ thresholds' \in Tables
      /\ UNCHANGED <<core, factories, calls, logger, record>>
    BY DEF ClearThresholds, Steps, Tables
<1>2. core = Fresh /\ core \in Cores /\ factories \in 0 .. calls
    BY <1>1, Typed DEF IInv, CoreSoFar
<1>3. /\ TypeOK' /\ Begun' /\ init'.pc = "fill" /\ init'.done = 0
      /\ init'.cfg = init.cfg /\ init.cfg \in Settings
    BY <1>1, <1>2, GotoStep
<1>4. CoreSoFar' /\ SinksSoFar'
    BY <1>1, <1>2, <1>3 DEF CoreSoFar, SinksSoFar, Fresh
<1>5. init.cfg.thresholds \in Seq([level : {BadEntry} \cup Levels,
                                   match : {BadEntry} \cup SUBSET Names])
    BY <1>3, SettingTyped
<1>6. TableSoFar'
    BY <1>1, <1>3, <1>5 DEF TableSoFar
<1> QED
    BY <1>3, <1>4, <1>6 DEF IInv

LEMMA BuildFormatsKeeps == IInv /\ BuildFormats => IInv'
<1> SUFFICES ASSUME IInv, BuildFormats PROVE IInv'
    OBVIOUS
<1>1. PICK pc \in {"thrown", "register"} : Goto(pc) /\ pc \in Steps
    BY DEF BuildFormats, Steps
<1>2. /\ init.pc = "fill" /\ init.done = Len(init.cfg.thresholds)
      /\ UNCHANGED <<core, thresholds, factories, calls, logger, record>>
      /\ Len(thresholds) = init.done
      /\ \A i \in 1 .. init.done : AsConfigured(i)
      /\ core = Fresh /\ core \in Cores /\ thresholds \in Tables
      /\ factories \in 0 .. calls
    BY Typed DEF BuildFormats, IInv, CoreSoFar, TableSoFar
<1>3. /\ TypeOK' /\ Begun' /\ init'.pc = pc /\ init'.cfg = init.cfg
      /\ init.cfg \in Settings
    BY <1>1, <1>2, GotoStep
<1>4. init.cfg.thresholds \in Seq([level : {BadEntry} \cup Levels,
                                   match : {BadEntry} \cup SUBSET Names])
    BY <1>3, SettingTyped
<1>5. thresholds = init.cfg.thresholds
    BY <1>2, <1>4 DEF AsConfigured, Tables
<1>6. TableSoFar'
    BY <1>1, <1>2, <1>3, <1>4, <1>5 DEF TableSoFar, AsConfigured, Tables
<1>7. CoreSoFar' /\ SinksSoFar'
    BY <1>1, <1>2, <1>3 DEF CoreSoFar, SinksSoFar, Fresh
<1> QED
    BY <1>3, <1>6, <1>7 DEF IInv

LEMMA RegisterFactoriesKeeps == IInv /\ RegisterFactories => IInv'
<1> SUFFICES ASSUME IInv, RegisterFactories PROVE IInv'
    OBVIOUS
<1>1. /\ init.pc = "register" /\ Goto("core") /\ "core" \in Steps
      /\ factories' = calls
      /\ UNCHANGED <<core, thresholds, calls, logger, record>>
      /\ core = Fresh /\ core \in Cores /\ thresholds \in Tables
      /\ thresholds = init.cfg.thresholds /\ calls \in Nat
    BY Typed DEF RegisterFactories, IInv, CoreSoFar, TableSoFar, Steps
<1>2. factories' \in 0 .. calls
    BY <1>1
<1>3. TypeOK' /\ Begun' /\ init'.pc = "core" /\ init'.cfg = init.cfg
    BY <1>1, <1>2, GotoStep
<1>4. CoreSoFar' /\ SinksSoFar' /\ TableSoFar'
    BY <1>1, <1>3 DEF CoreSoFar, SinksSoFar, TableSoFar, Fresh
<1> QED
    BY <1>3, <1>4 DEF IInv

LEMMA FillThresholdKeeps == IInv /\ FillThreshold => IInv'
<1> SUFFICES ASSUME IInv, FillThreshold PROVE IInv'
    OBVIOUS
<1> DEFINE section == init.cfg.thresholds
           entry   == section[init.done + 1]
           level   == IF entry.level = BadEntry THEN Trace ELSE entry.level
           bad     == BadEntry \in {entry.level, entry.match}
           new     == [level |-> level,
                       match |-> IF bad THEN Unassigned ELSE entry.match]
           pc      == IF bad THEN "thrown" ELSE "fill"
           done    == IF bad THEN 0 ELSE init.done + 1
<1>1. /\ init.pc = "fill" /\ init.done < Len(section)
      /\ thresholds' = Append(thresholds, new)
      /\ init' = [init EXCEPT !.done = IF bad THEN 0 ELSE @ + 1,
                              !.pc = IF bad THEN "thrown" ELSE @]
      /\ UNCHANGED <<core, factories, calls, logger, record>>
    BY DEF FillThreshold
<1>2. /\ Len(thresholds) = init.done
      /\ \A i \in 1 .. init.done : thresholds[i] = section[i]
      /\ core = Fresh /\ core \in Cores /\ thresholds \in Tables
      /\ factories \in 0 .. calls /\ init.cfg \in Settings
      /\ init \in [pc : Steps, cfg : Settings \cup {None}, done : Nat]
    BY <1>1, Typed DEF IInv, CoreSoFar, TableSoFar, AsConfigured, Begun
<1>3. section \in Seq([level : {BadEntry} \cup Levels,
                       match : {BadEntry} \cup SUBSET Names])
    BY <1>2, SettingTyped
<1>4. /\ init.done \in Nat /\ init.done + 1 \in 1 .. Len(section)
      /\ entry \in [level : {BadEntry} \cup Levels,
                    match : {BadEntry} \cup SUBSET Names]
    <2>1. init.done \in Nat
        BY <1>2
    <2> DEFINE n == init.done + 1
               Entries == [level : {BadEntry} \cup Levels,
                           match : {BadEntry} \cup SUBSET Names]
    <2> HIDE DEF section, Entries
    <2>2. n \in 1 .. Len(section)
        <3>1. Len(section) \in Nat
            BY <1>3 DEF Entries
        <3> QED
            BY <1>1, <2>1, <3>1
    <2>3. section[n] \in Entries
        <3>1. section \in Seq(Entries)
            BY <1>3 DEF Entries
        <3> HIDE DEF n
        <3> QED
            BY <2>2, <3>1
    <2> QED
        BY <2>1, <2>2, <2>3 DEF Entries
<1>5. /\ new \in [level : Levels, match : SUBSET Names]
      /\ bad => new.match = {}
      /\ ~bad => new = entry
    <2>1. CASE bad
        <3>1. level \in Levels
            BY <1>4, LevelsExist DEF Trace, Levels
        <3>2. new = [level |-> level, match |-> {}]
            BY <2>1 DEF Unassigned
        <3> HIDE DEF level, new, bad
        <3> QED
            BY <2>1, <3>1, <3>2
    <2>2. CASE ~bad
        <3>1. /\ level = entry.level /\ entry.level \in Levels
              /\ entry.match \in SUBSET Names
            BY <1>4, <2>2
        <3>2. new = [level |-> entry.level, match |-> entry.match]
            BY <2>2, <3>1
        <3> HIDE DEF level, new, bad, section
        <3> QED
            BY <1>4, <2>2, <3>1, <3>2
    <2> QED
        BY <2>1, <2>2
<1>6. /\ pc \in Steps /\ done \in Nat
      /\ init' = [pc |-> pc, cfg |-> init.cfg, done |-> done]
    <2> HIDE DEF bad
    <2>1. CASE bad
        BY <1>1, <1>2, <2>1 DEF Steps
    <2>2. CASE ~bad
        <3>1. init' = [init EXCEPT !.done = init.done + 1, !.pc = "fill"]
            BY <1>1, <1>2, <2>2
        <3>2. /\ init' = [pc |-> "fill", cfg |-> init.cfg,
                          done |-> init.done + 1]
              /\ init.done \in Nat
            BY <1>2, <3>1
        <3> QED
            BY <2>2, <3>2 DEF Steps
    <2> QED
        BY <2>1, <2>2
<1> HIDE DEF entry, level, bad, new
<1>7. /\ thresholds' \in Tables /\ Len(thresholds') = init.done + 1
      /\ \A i \in 1 .. init.done : thresholds'[i] = section[i]
      /\ thresholds'[init.done + 1] = new
      /\ DOMAIN thresholds' = 1 .. init.done + 1
    BY <1>1, <1>2, <1>5 DEF Tables
<1>8. /\ TypeOK' /\ Begun' /\ init'.pc = pc /\ init'.cfg = init.cfg
      /\ init'.done = done
    <2>1. init.pc # "never" /\ UNCHANGED <<calls, logger, record>>
          /\ core' \in Cores /\ factories' \in 0 .. calls
        BY <1>1, <1>2
    <2> HIDE DEF pc, done
    <2> QED
        BY <2>1, <1>6, <1>7, CallStep
<1>9. CoreSoFar' /\ SinksSoFar'
    BY <1>1, <1>2, <1>8 DEF CoreSoFar, SinksSoFar, Fresh
<1>10. TableSoFar'
    <2>1. CASE bad
        <3>1. /\ init'.pc = "thrown"
              /\ Len(thresholds') <= Len(init'.cfg.thresholds)
              /\ Len(thresholds') = init.done + 1
              /\ thresholds'[init.done + 1].match = {}
            BY <1>1, <1>2, <1>3, <1>5, <1>7, <1>8, <2>1
        <3>2. \A i \in 1 .. init.done : AsConfigured(i)'
            BY <1>7, <1>8 DEF AsConfigured
        <3>3. \A i \in DOMAIN thresholds' :
                  i \in 1 .. init.done \/ i = Len(thresholds')
            BY <1>2, <1>4, <1>7
        <3> QED
            BY <3>1, <3>2, <3>3 DEF TableSoFar
    <2>2. CASE ~bad
        <3>1. /\ init'.pc = "fill" /\ init'.done = init.done + 1
              /\ Len(thresholds') = init.done + 1
              /\ init'.done <= Len(init'.cfg.thresholds)
            BY <1>1, <1>2, <1>3, <1>7, <1>8, <2>2
        <3>2. \A i \in 1 .. init.done + 1 : AsConfigured(i)'
            <4>1. thresholds'[init.done + 1] = section[init.done + 1]
                BY <1>5, <1>7, <2>2 DEF entry
            <4>2. \A i \in 1 .. init.done + 1 :
                      i \in 1 .. init.done \/ i = init.done + 1
                BY <1>4
            <4> QED
                BY <1>7, <1>8, <4>1, <4>2 DEF AsConfigured
        <3> QED
            BY <3>1, <3>2 DEF TableSoFar
    <2> QED
        BY <2>1, <2>2
<1> QED
    BY <1>8, <1>9, <1>10 DEF IInv

LEMMA ApplyCoreKeeps == IInv /\ ApplyCore => IInv'
<1> SUFFICES ASSUME IInv, ApplyCore PROVE IInv'
    OBVIOUS
<1> DEFINE asked == init.cfg.core
<1>1. /\ init.pc = "core"
      /\ UNCHANGED <<thresholds, factories, calls, logger, record>>
      /\ core = Fresh /\ thresholds \in Tables
      /\ thresholds = init.cfg.thresholds
      /\ factories = calls /\ factories \in 0 .. calls
      /\ init.cfg \in Settings
    BY Typed DEF ApplyCore, IInv, CoreSoFar, TableSoFar, Begun
<1>2. Fresh \in Cores
    BY DEF Fresh, Cores
<1>3. ASSUME core' = ConfiguredWith({}), core' \in Cores, Goto("construct"),
             CoreRead
      PROVE  IInv'
    <2>1. /\ TypeOK' /\ Begun' /\ init'.pc = "construct"
          /\ init'.cfg = init.cfg
          /\ \A S : ConfiguredWith(S)' = ConfiguredWith(S)
        <3>1. "construct" \in Steps
            BY DEF Steps
        <3> QED
            BY <1>1, <1>3, <3>1, GotoStep
    <2>2. CoreSoFar' /\ SinksSoFar' /\ TableSoFar'
        BY <1>1, <1>3, <2>1 DEF CoreSoFar, SinksSoFar, TableSoFar, CoreRead
    <2> QED
        BY <2>1, <2>2 DEF IInv
<1>4. ASSUME \/ core' = Fresh
             \/ asked # NoSection /\ core' = [enabled |-> TRUE, sinks |-> {},
                                              filter |-> asked.filter],
             core' \in Cores, Goto("thrown")
      PROVE  IInv'
    <2>1. TypeOK' /\ Begun' /\ init'.pc = "thrown" /\ init'.cfg = init.cfg
        <3>1. "thrown" \in Steps
            BY DEF Steps
        <3> QED
            BY <1>1, <1>4, <3>1, GotoStep
    <2>2. CoreSoFar' /\ SinksSoFar'
        BY <1>4, <2>1 DEF CoreSoFar, SinksSoFar, Fresh
    <2>3. TableSoFar'
        BY <1>1, <2>1 DEF TableSoFar, AsConfigured, Tables
    <2> QED
        BY <2>1, <2>2, <2>3 DEF IInv
<1>5. CASE asked = NoSection
    <2>1. core' = Fresh /\ Goto("construct") /\ CoreRead
        BY <1>1, <1>5 DEF ApplyCore, CoreRead
    <2>2. Fresh = ConfiguredWith({})
        BY <1>5 DEF Fresh, ConfiguredWith
    <2> QED
        BY <1>2, <1>3, <2>1, <2>2
<1>6. CASE asked # NoSection /\ asked.filter = BadEntry
    <2>1. core' = Fresh /\ Goto("thrown")
        BY <1>1, <1>6 DEF ApplyCore
    <2> QED
        BY <1>2, <1>4, <2>1
<1>7. CASE asked # NoSection /\ asked.filter # BadEntry
    <2>1. /\ asked.filter \in {NoFilter} \cup Levels
          /\ asked.disabled \in {BadEntry} \cup BOOLEAN
        BY <1>1, <1>7, SettingTyped
    <2>2. /\ core' = [Fresh EXCEPT !.filter = asked.filter,
                         !.enabled = IF asked.disabled = BadEntry THEN @
                                     ELSE ~asked.disabled]
          /\ Goto(IF asked.disabled = BadEntry THEN "thrown" ELSE "construct")
        BY <1>1, <1>7 DEF ApplyCore
    <2>3. CASE asked.disabled = BadEntry
        <3>1. core' = [enabled |-> TRUE, sinks |-> {}, filter |-> asked.filter]
            BY <2>2, <2>3 DEF Fresh
        <3>2. Goto("thrown")
            BY <2>2, <2>3, Zenon
        <3> HIDE DEF asked
        <3>3. core' \in Cores
            BY <2>1, <3>1, <1>7 DEF Cores
        <3> QED
            BY <1>4, <1>7, <3>1, <3>2, <3>3
    <2>4. CASE asked.disabled # BadEntry
        <3>1. core' = [enabled |-> ~asked.disabled, sinks |-> {},
                       filter |-> asked.filter]
            BY <2>2, <2>4 DEF Fresh
        <3>2. Goto("construct") /\ CoreRead
            BY <2>1, <2>2, <2>4, Zenon DEF CoreRead
        <3>4. core' \in Cores
            <4> HIDE DEF asked
            <4> QED
                BY <2>1, <2>4, <3>1, <1>7 DEF Cores
        <3>3. ConfiguredWith({}) = [enabled |-> ~asked.disabled, sinks |-> {},
                                    filter |-> asked.filter]
            BY <1>7, <3>2 DEF ConfiguredWith, CoreRead
        <3> QED
            BY <1>3, <3>1, <3>2, <3>3, <3>4
    <2> QED
        BY <2>3, <2>4
<1> QED
    BY <1>5, <1>6, <1>7

LEMMA ConstructSinksKeeps == IInv /\ ConstructSinks => IInv'
<1> SUFFICES ASSUME IInv, ConstructSinks PROVE IInv'
    OBVIOUS
<1>1. PICK pc \in {"thrown", "add"} : Goto(pc) /\ pc \in Steps
    BY DEF ConstructSinks, Steps
<1>2. /\ init.pc = "construct"
      /\ UNCHANGED <<core, thresholds, factories, calls, logger, record>>
      /\ core = ConfiguredWith({}) /\ core \in Cores /\ CoreRead
      /\ thresholds = init.cfg.thresholds /\ thresholds \in Tables
      /\ factories = calls /\ factories \in 0 .. calls /\ init.cfg \in Settings
    BY Typed DEF ConstructSinks, IInv, CoreSoFar, TableSoFar, Begun
<1>3. /\ TypeOK' /\ Begun' /\ init'.pc = pc /\ init'.done = 0
      /\ init'.cfg = init.cfg
      /\ \A S : ConfiguredWith(S)' = ConfiguredWith(S)
    BY <1>1, <1>2, GotoStep
<1>4. Added' = {}
    BY <1>3 DEF Added
<1>5. CoreSoFar'
    BY <1>1, <1>2, <1>3, <1>4 DEF CoreSoFar, CoreRead
<1>6. SinksSoFar'
    BY <1>1, <1>2, <1>3, SettingTyped DEF SinksSoFar
<1>7. TableSoFar'
    BY <1>1, <1>2, <1>3 DEF TableSoFar, AsConfigured, Tables
<1> QED
    BY <1>3, <1>5, <1>6, <1>7 DEF IInv

LEMMA AddSinkKeeps == IInv /\ AddSink => IInv'
<1> SUFFICES ASSUME IInv, AddSink PROVE IInv'
    OBVIOUS
<1> DEFINE sink == Sink(calls, init.done + 1, factories)
<1>1. /\ init.pc = "add" /\ init.cfg.sinks # NoSection
      /\ init.done < init.cfg.sinks
      /\ core' = [core EXCEPT !.sinks = @ \cup {sink}]
      /\ init' = [init EXCEPT !.done = @ + 1]
      /\ UNCHANGED <<thresholds, factories, calls, logger, record>>
    BY DEF AddSink
<1>2. /\ core = ConfiguredWith(Added) /\ core \in Cores
      /\ thresholds = init.cfg.thresholds /\ thresholds \in Tables
      /\ factories = calls /\ factories \in 0 .. calls
      /\ init.cfg \in Settings /\ calls \in 1 .. MaxCalls
      /\ init \in [pc : Steps, cfg : Settings \cup {None}, done : Nat]
    BY <1>1, BoundIsNumber, Typed DEF IInv, CoreSoFar, TableSoFar, Begun
<1>3. init.cfg.sinks \in Nat
    BY <1>1, <1>2, SettingTyped
<1>4. sink \in SinkSet
    BY <1>2 DEF Sink, SinkSet
<1>5. core' \in Cores
    BY <1>1, <1>2, <1>4 DEF Cores
<1>6. /\ "add" \in Steps /\ init.done + 1 \in Nat
      /\ init' = [pc |-> "add", cfg |-> init.cfg, done |-> init.done + 1]
    BY <1>1, <1>2 DEF Steps
<1>7. /\ TypeOK' /\ Begun' /\ init'.pc = "add" /\ init'.cfg = init.cfg
      /\ init'.done = init.done + 1
      /\ \A S : ConfiguredWith(S)' = ConfiguredWith(S)
    BY <1>1, <1>2, <1>5, <1>6, CallStep
<1>8. Added' = Added \cup {sink}
    BY <1>1, <1>2, <1>6, <1>7 DEF Added
<1>9. core' = ConfiguredWith(Added')
    BY <1>1, <1>2, <1>8 DEF ConfiguredWith
<1>10. CoreSoFar'
    BY <1>7, <1>9 DEF CoreSoFar
<1>11. SinksSoFar'
    BY <1>1, <1>2, <1>3, <1>7 DEF SinksSoFar
<1>12. TableSoFar'
    BY <1>1, <1>2, <1>7 DEF TableSoFar
<1> QED
    BY <1>7, <1>10, <1>11, <1>12 DEF IInv

LEMMA ReturnWithSinksKeeps == IInv /\ ReturnWithSinks => IInv'
<1> SUFFICES ASSUME IInv, ReturnWithSinks PROVE IInv'
    OBVIOUS
<1>1. /\ init.pc = "add" /\ init.cfg.sinks # NoSection
      /\ init.done = init.cfg.sinks /\ Goto("returned") /\ "returned" \in Steps
      /\ UNCHANGED <<core, thresholds, factories, calls, logger, record>>
      /\ core = ConfiguredWith(Added) /\ core \in Cores
      /\ thresholds = init.cfg.thresholds /\ thresholds \in Tables
      /\ factories = calls /\ factories \in 0 .. calls
    BY Typed DEF ReturnWithSinks, IInv, CoreSoFar, TableSoFar, Steps
<1>2. Added = ConfiguredSinks
    BY <1>1 DEF Added, ConfiguredSinks
<1>3. core = ConfiguredCore
    BY <1>1, <1>2 DEF ConfiguredCore, ConfiguredWith
<1>4. /\ TypeOK' /\ Begun' /\ init'.pc = "returned" /\ init'.cfg = init.cfg
      /\ ConfiguredCore' = ConfiguredCore
    BY <1>1, GotoStep
<1>5. CoreSoFar' /\ SinksSoFar' /\ TableSoFar'
    BY <1>1, <1>3, <1>4 DEF CoreSoFar, SinksSoFar, TableSoFar
<1> QED
    BY <1>4, <1>5 DEF IInv

LEMMA AddConsoleKeeps == IInv /\ AddConsole => IInv'
<1> SUFFICES ASSUME IInv, AddConsole PROVE IInv'
    OBVIOUS
<1> DEFINE sink == Sink(calls, Console, calls)
<1>1. /\ init.pc = "add" /\ init.cfg.sinks = NoSection
      /\ Goto("returned") /\ "returned" \in Steps
      /\ core' = [core EXCEPT !.sinks = @ \cup {sink}]
      /\ UNCHANGED <<thresholds, factories, calls, logger, record>>
    BY DEF AddConsole, Steps
<1>2. /\ core = ConfiguredWith(Added) /\ core \in Cores
      /\ thresholds = init.cfg.thresholds /\ thresholds \in Tables
      /\ factories = calls /\ factories \in 0 .. calls /\ init.done = 0
      /\ calls \in 1 .. MaxCalls
    BY <1>1, BoundIsNumber, Typed
       DEF IInv, CoreSoFar, SinksSoFar, TableSoFar, Begun
<1>3. Added = {}
    BY <1>2 DEF Added
<1>4. sink \in SinkSet
    BY <1>2 DEF Sink, SinkSet, Console
<1>5. core' \in Cores
    BY <1>1, <1>2, <1>4 DEF Cores
<1>6. ConfiguredSinks = {sink}
    BY <1>1 DEF ConfiguredSinks
<1>7. core' = ConfiguredCore
    BY <1>1, <1>2, <1>3, <1>6 DEF ConfiguredCore, ConfiguredWith
<1>8. /\ TypeOK' /\ Begun' /\ init'.pc = "returned" /\ init'.cfg = init.cfg
      /\ ConfiguredCore' = ConfiguredCore
    BY <1>1, <1>2, <1>5, GotoStep
<1>9. CoreSoFar' /\ SinksSoFar' /\ TableSoFar'
    BY <1>1, <1>2, <1>7, <1>8 DEF CoreSoFar, SinksSoFar, TableSoFar
<1> QED
    BY <1>8, <1>9 DEF IInv

------------------------------------------------------------------------------
(* Loggers and records.                                                     *)

Records ==
    [call : 0 .. MaxCalls, held : SUBSET (SinkSet \cup {DefaultSink})]

\* What happens beside init_logging changes loggers and records only.
LEMMA BesideStep ==
    ASSUME IInv, UNCHANGED <<core, thresholds, factories, calls, init>>,
           logger' \in [Loggers ->
               {None} \cup [channel : Channels, threshold : Levels]],
           record' \in [Threads -> {None} \cup Records]
    PROVE  IInv'
<1>1. TypeOK'
    BY DEF IInv, TypeOK, Records
<1>2. Begun' /\ SinksSoFar'
    BY DEF IInv, Begun, SinksSoFar
<1>3. CoreSoFar'
    BY DEF IInv, CoreSoFar, ConfiguredCore, ConfiguredSinks, ConfiguredWith,
           Added, CoreRead
<1>4. TableSoFar'
    BY DEF IInv, TableSoFar, AsConfigured
<1> QED
    BY <1>1, <1>2, <1>3, <1>4 DEF IInv

LEMMA CreateKeeps ==
    ASSUME IInv, NEW l \in Loggers, NEW c \in Channels, Create(l, c)
    PROVE  IInv'
<1>1. PICK level \in Levels :
        logger' = [logger EXCEPT ![l] = [channel |-> c, threshold |-> level]]
    BY DEF Create
<1>2. /\ UNCHANGED <<core, thresholds, factories, calls, init, record>>
      /\ logger \in [Loggers ->
             {None} \cup [channel : Channels, threshold : Levels]]
      /\ record \in [Threads -> {None} \cup Records]
    BY Typed DEF Create, IInv, Records
<1>3. logger' \in [Loggers ->
          {None} \cup [channel : Channels, threshold : Levels]]
    BY <1>1, <1>2
<1> QED
    BY <1>2, <1>3, BesideStep

LEMMA DestroyKeeps ==
    ASSUME IInv, NEW l \in Loggers, Destroy(l)
    PROVE  IInv'
<1>1. /\ UNCHANGED <<core, thresholds, factories, calls, init, record>>
      /\ logger \in [Loggers ->
             {None} \cup [channel : Channels, threshold : Levels]]
      /\ record \in [Threads -> {None} \cup Records]
    BY Typed DEF Destroy, IInv, Records
<1>2. logger' \in [Loggers ->
          {None} \cup [channel : Channels, threshold : Levels]]
    BY <1>1 DEF Destroy
<1> QED
    BY <1>1, <1>2, BesideStep

LEMMA OpenRecordKeeps ==
    ASSUME IInv, NEW t \in Threads, NEW l, NEW level, OpenRecord(t, l, level)
    PROVE  IInv'
<1>1. /\ UNCHANGED <<core, thresholds, factories, calls, init, logger>>
      /\ logger \in [Loggers ->
             {None} \cup [channel : Channels, threshold : Levels]]
      /\ record \in [Threads -> {None} \cup Records]
      /\ core \in Cores /\ calls \in 0 .. MaxCalls
    BY Typed DEF OpenRecord, IInv, Records
<1>2. record' = [record EXCEPT ![t] =
          [call |-> calls,
           held |-> IF core.sinks = {} THEN {DefaultSink} ELSE core.sinks]]
    BY DEF OpenRecord
<1>3. (IF core.sinks = {} THEN {DefaultSink} ELSE core.sinks)
          \in SUBSET (SinkSet \cup {DefaultSink})
    BY <1>1 DEF Cores
<1>4. record' \in [Threads -> {None} \cup Records]
    BY <1>1, <1>2, <1>3 DEF Records
<1> QED
    BY <1>1, <1>4, BesideStep

LEMMA PushRecordKeeps ==
    ASSUME IInv, NEW t \in Threads, PushRecord(t)
    PROVE  IInv'
<1>1. /\ UNCHANGED <<core, thresholds, factories, calls, init, logger>>
      /\ logger \in [Loggers ->
             {None} \cup [channel : Channels, threshold : Levels]]
      /\ record \in [Threads -> {None} \cup Records]
    BY Typed DEF PushRecord, IInv, Records
<1>2. record' \in [Threads -> {None} \cup Records]
    BY <1>1 DEF PushRecord
<1> QED
    BY <1>1, <1>2, BesideStep

------------------------------------------------------------------------------
(* The invariant of the specification.                                      *)

LEMMA InitKeeps == Init => IInv
<1> SUFFICES ASSUME Init PROVE IInv
    OBVIOUS
<1>1. core = [enabled |-> TRUE, sinks |-> {}, filter |-> NoFilter]
    BY DEF Init
<1>2. core \in Cores
    BY <1>1 DEF Cores
<1>3. init = [pc |-> "never", cfg |-> None, done |-> 0]
    BY DEF Init
<1>4. /\ init.pc = "never"
      /\ init \in [pc : Steps, cfg : Settings \cup {None}, done : Nat]
    BY <1>3 DEF Steps
<1>5. /\ thresholds \in Tables /\ factories \in 0 .. calls
      /\ calls \in 0 .. MaxCalls
    BY BoundIsNumber DEF Init, Tables
<1>6. TypeOK
    BY <1>2, <1>4, <1>5, Typed DEF Init
<1>7. Begun /\ SinksSoFar /\ TableSoFar
    BY <1>4 DEF Begun, SinksSoFar, TableSoFar
<1>8. CoreSoFar
    BY <1>1, <1>4 DEF CoreSoFar
<1> QED
    BY <1>6, <1>7, <1>8 DEF IInv

LEMMA StutterKeeps == IInv /\ UNCHANGED vars => IInv'
<1> SUFFICES ASSUME IInv, UNCHANGED vars PROVE IInv'
    OBVIOUS
<1>1. /\ logger \in [Loggers ->
             {None} \cup [channel : Channels, threshold : Levels]]
      /\ record \in [Threads -> {None} \cup Records]
    BY Typed DEF IInv, Records
<1> QED
    BY <1>1, BesideStep DEF vars

\* Whose factories are registered follows from what the call could read.
LEMMA FactoriesKeep ==
    ASSUME IInv, FactoriesSoFar, [Next]_vars
    PROVE  FactoriesSoFar'
<1>0. /\ init \in [pc : Steps, cfg : Settings \cup {None}, done : Nat]
      /\ factories \in 0 .. calls /\ calls \in Nat
    BY Typed DEF IInv
<1>1. CASE Begin
    <2>1. /\ init'.pc = "reset" /\ calls' = calls + 1
          /\ factories' = factories
        BY <1>1 DEF Begin
    <2> QED
        BY <1>0, <2>1 DEF FactoriesSoFar
<1>2. CASE ResetCore \/ Enable \/ ClearThresholds
    <2>1. /\ init'.pc \in {"enable", "clear", "fill"} /\ init'.done = 0
          /\ UNCHANGED <<factories, calls>>
          /\ init.pc \in {"reset", "enable", "clear"}
        BY <1>0, <1>2 DEF ResetCore, Enable, ClearThresholds, Goto
    <2> QED
        BY <1>0, <2>1 DEF FactoriesSoFar
<1>3. CASE FillThreshold
    <2>1. /\ init.pc = "fill" /\ init.done + 1 \in DOMAIN init.cfg.thresholds
          /\ UNCHANGED <<factories, calls>> /\ init'.cfg = init.cfg
          /\ factories < calls /\ \A i \in 1 .. init.done : Reads(i)
        <3>1. init.pc = "fill" /\ init.done < Len(init.cfg.thresholds)
              /\ init.cfg \in Settings
            BY <1>3 DEF FillThreshold, IInv, Begun
        <3>2. init.cfg.thresholds \in Seq([level : {BadEntry} \cup Levels,
                                           match : {BadEntry} \cup SUBSET Names])
            BY <3>1, SettingTyped
        <3>3. init.done + 1 \in DOMAIN init.cfg.thresholds
            BY <1>0, <3>1, <3>2
        <3>4. UNCHANGED <<factories, calls>> /\ init'.cfg = init.cfg
            BY <1>0, <1>3 DEF FillThreshold
        <3> QED
            BY <3>1, <3>3, <3>4 DEF FactoriesSoFar
    <2>2. CASE Reads(init.done + 1)
        <3>1. init'.pc = "fill" /\ init'.done = init.done + 1
            BY <1>0, <1>3, <2>1, <2>2 DEF FillThreshold, Reads
        <3>2. \A i \in 1 .. init.done + 1 : Reads(i)
            BY <1>0, <2>1, <2>2
        <3> QED
            BY <2>1, <3>1, <3>2 DEF FactoriesSoFar, Reads
    <2>3. CASE ~Reads(init.done + 1)
        <3>1. init'.pc = "thrown"
            BY <1>0, <1>3, <2>1, <2>3 DEF FillThreshold, Reads
        <3>2. ~Parses(init.cfg)
            BY <2>1, <2>3 DEF Parses, Reads
        <3> QED
            BY <1>0, <2>1, <3>1, <3>2 DEF FactoriesSoFar
    <2> QED
        BY <2>2, <2>3
<1>4. CASE BuildFormats
    <2>1. /\ init.pc = "fill" /\ init.done = Len(init.cfg.thresholds)
          /\ UNCHANGED <<factories, calls>> /\ init'.cfg = init.cfg
          /\ init'.pc = IF init.cfg.badFormat THEN "thrown" ELSE "register"
          /\ factories < calls /\ \A i \in 1 .. init.done : Reads(i)
        BY <1>0, <1>4 DEF BuildFormats, Goto, FactoriesSoFar
    <2>2. DOMAIN init.cfg.thresholds = 1 .. init.done
        <3>1. init.cfg \in Settings
            BY <2>1 DEF IInv, Begun
        <3> QED
            BY <2>1, <3>1, SettingTyped
    <2>3. Parses(init.cfg) <=> ~init.cfg.badFormat
        BY <2>1, <2>2 DEF Parses, Reads
    <2> QED
        BY <1>0, <2>1, <2>3 DEF FactoriesSoFar
<1>5. CASE RegisterFactories
    <2>1. init.pc = "register" /\ init'.pc = "core" /\ init'.cfg = init.cfg
        BY <1>0, <1>5 DEF RegisterFactories, Goto
    <2> QED
        BY <2>1 DEF FactoriesSoFar
<1>6. CASE ApplyCore \/ ConstructSinks \/ AddSink
    <2>1. /\ init.pc \in {"core", "construct", "add"} /\ init'.cfg = init.cfg
          /\ init'.pc \in {"construct", "add", "thrown"}
          /\ UNCHANGED <<factories, calls>> /\ factories = calls
        BY <1>0, <1>6 DEF ApplyCore, ConstructSinks, AddSink, Goto, IInv,
                          TableSoFar
    <2> QED
        BY <2>1 DEF FactoriesSoFar
<1>7. CASE ReturnWithSinks \/ AddConsole
    <2>1. init'.pc = "returned"
        BY <1>0, <1>7 DEF ReturnWithSinks, AddConsole, Goto
    <2> QED
        BY <2>1 DEF FactoriesSoFar
<1>8. CASE Logging \/ UNCHANGED vars
    <2>1. UNCHANGED <<init, factories, calls>>
        BY <1>8 DEF vars, Logging, CreateGlobal, Create, Destroy, OpenRecord,
                    GlobalStatement, PushRecord
    <2> QED
        BY <2>1 DEF FactoriesSoFar, Reads
<1> QED
    BY <1>1, <1>2, <1>3, <1>4, <1>5, <1>6, <1>7, <1>8 DEF Next, InitLogging

THEOREM Inductive == Spec => [](IInv /\ FactoriesSoFar)
<1>1. ASSUME IInv, InitLogging PROVE IInv'
    BY <1>1, BeginKeeps, ResetCoreKeeps, EnableKeeps, ClearThresholdsKeeps,
       FillThresholdKeeps, BuildFormatsKeeps, RegisterFactoriesKeeps,
       ApplyCoreKeeps, ConstructSinksKeeps, AddSinkKeeps, ReturnWithSinksKeeps,
       AddConsoleKeeps
       DEF InitLogging
<1>2. ASSUME IInv, Logging PROVE IInv'
    BY <1>2, GlobalLogger, CreateKeeps, DestroyKeeps, OpenRecordKeeps,
       PushRecordKeeps
       DEF Logging, CreateGlobal, GlobalStatement
<1>3. IInv /\ [Next]_vars => IInv'
    BY <1>1, <1>2, StutterKeeps DEF Next
<1>4. Init => FactoriesSoFar
    BY DEF Init, FactoriesSoFar
<1> QED
    BY <1>3, <1>4, InitKeeps, FactoriesKeep, PTL DEF Spec

(* Every variable keeps its type: the table holds levels and patterns, and  *)
(* records are open for sinks that some call made (logging.cpp:432-539).    *)
THEOREM TypeCorrect == Spec => []TypeOK
BY Inductive, PTL DEF IInv

------------------------------------------------------------------------------
(* What a call leaves behind.                                               *)

(* After a call that returned, whatever happened before, the core and the   *)
(* table are what its settings ask for (logging.cpp:432-539).               *)
THEOREM ConfigurationReplaced == Spec => []LastInitWins
<1>1. IInv => LastInitWins
    BY DEF IInv, CoreSoFar, TableSoFar, LastInitWins
<1> QED
    BY <1>1, Inductive, PTL

(* A call that threw leaves no sink, the core as its own [Core] says or     *)
(* reset, of the table its own entries up to the one it stopped at, and the *)
(* formatter factories of an earlier call exactly if it could not read its  *)
(* own [Thresholds] and [Attributes] (logging.cpp:429-530).                 *)
THEOREM FailureLeavesPart == Spec => []FailedInitLeavesPart
<1>1. IInv /\ FactoriesSoFar => FailedInitLeavesPart
    <2> SUFFICES ASSUME IInv, FactoriesSoFar, init.pc = "thrown"
                 PROVE  FailedInitLeavesPart
        BY DEF FailedInitLeavesPart
    <2>1. /\ \/ core = Fresh
             \/ core = ConfiguredWith({}) /\ CoreRead
             \/ /\ init.cfg.core # NoSection
                /\ core = [enabled |-> TRUE, sinks |-> {},
                           filter |-> init.cfg.core.filter]
          /\ Len(thresholds) <= Len(init.cfg.thresholds)
          /\ \A i \in DOMAIN thresholds :
                 \/ AsConfigured(i)
                 \/ i = Len(thresholds) /\ thresholds[i].match = {}
          /\ factories = calls <=> Parses(init.cfg)
        BY DEF IInv, CoreSoFar, TableSoFar, FactoriesSoFar
    <2>2. /\ core.sinks = {}
          /\ core.filter # NoFilter => /\ init.cfg.core # NoSection
                                       /\ core.filter = init.cfg.core.filter
        BY <2>1 DEF Fresh, ConfiguredWith
    <2>3. core.enabled \/ /\ init.cfg.core # NoSection
                          /\ init.cfg.core.disabled = TRUE
        <3>1. CASE core = ConfiguredWith({}) /\ CoreRead
            <4>1. core.enabled \/ init.cfg.core # NoSection
                BY <3>1 DEF ConfiguredWith
            <4>2. ASSUME init.cfg.core # NoSection
                  PROVE  core.enabled \/ init.cfg.core.disabled = TRUE
                <5>1. init.cfg.core.disabled \in BOOLEAN
                    BY <3>1, <4>2 DEF CoreRead
                <5>2. core.enabled = (\/ init.cfg.core = NoSection
                                      \/ ~init.cfg.core.disabled)
                    BY <3>1 DEF ConfiguredWith
                <5> QED
                    BY <4>2, <5>1, <5>2, Zenon
            <4> QED
                BY <4>1, <4>2
        <3>2. CASE core.enabled = TRUE
            BY <3>2
        <3>3. core = Fresh => core.enabled = TRUE
            BY DEF Fresh
        <3>4. ASSUME NEW filter, core = [enabled |-> TRUE, sinks |-> {},
                                        filter |-> filter]
              PROVE  core.enabled = TRUE
            BY <3>4
        <3> QED
            BY <2>1, <3>1, <3>2, <3>3, <3>4, Zenon
    <2> QED
        BY <2>1, <2>2, <2>3 DEF FailedInitLeavesPart
<1> QED
    BY <1>1, Inductive, PTL

(* While the core takes records, its sinks are those of the last call.      *)
LEMMA SinksAreOwn ==
    ASSUME IInv, core.enabled
    PROVE  \A s \in core.sinks : s.call = calls
<1>1. \A n, f : Sink(calls, n, f).call = calls
    BY DEF Sink
<1>2. /\ \A s \in Added : s.call = calls
      /\ \A s \in ConfiguredSinks : s.call = calls
    BY <1>1 DEF Added, ConfiguredSinks
<1>3. \/ core.sinks = {}
      \/ core.sinks = Added
      \/ core.sinks = ConfiguredSinks
    BY Typed DEF IInv, CoreSoFar, Silent, Fresh, ConfiguredWith, ConfiguredCore,
                 Steps
<1> QED
    BY <1>2, <1>3

(* A record that is open is held for sinks of one call only                 *)
(* (logging.cpp:434-437).                                                   *)
THEOREM RecordsOfOneConfiguration == Spec => []RecordOfOneConfiguration
<1>1. Init => RecordOfOneConfiguration
    BY DEF Init, RecordOfOneConfiguration
<1>2. ASSUME IInv, RecordOfOneConfiguration, [Next]_vars
      PROVE  RecordOfOneConfiguration'
    <2>1. CASE record' = record
        BY <1>2, <2>1 DEF RecordOfOneConfiguration
    <2>2. ASSUME NEW t \in Threads, NEW l, NEW level, OpenRecord(t, l, level)
          PROVE  RecordOfOneConfiguration'
        <3>1. /\ core.enabled
              /\ record' = [record EXCEPT ![t] =
                     [call |-> calls,
                      held |-> IF core.sinks = {} THEN {DefaultSink}
                               ELSE core.sinks]]
              /\ record \in [Threads -> {None} \cup Records]
            BY <1>2, <2>2, Typed DEF OpenRecord, IInv, Records
        <3>2. \A s \in core.sinks : s.call = calls
            BY <1>2, <3>1, SinksAreOwn
        <3>3. /\ record'[t].call = calls
              /\ record'[t].held \in {{DefaultSink}, core.sinks}
            BY <3>1
        <3>4. \A u \in Threads \ {t} : record'[u] = record[u]
            BY <3>1
        <3> QED
            BY <1>2, <3>2, <3>3, <3>4 DEF RecordOfOneConfiguration
    <2>3. ASSUME NEW t \in Threads, PushRecord(t)
          PROVE  RecordOfOneConfiguration'
        <3>1. /\ record' = [record EXCEPT ![t] = None]
              /\ record \in [Threads -> {None} \cup Records]
            BY <1>2, <2>3, Typed DEF PushRecord, IInv, Records
        <3>2. record'[t] = None /\ \A u \in Threads \ {t} : record'[u] = record[u]
            BY <3>1
        <3> QED
            BY <1>2, <3>2 DEF RecordOfOneConfiguration
    <2>4. CASE InitLogging
        BY <2>1, <2>4 DEF InitLogging, Begin, ResetCore, Enable,
           ClearThresholds, FillThreshold, BuildFormats, RegisterFactories,
           ApplyCore, ConstructSinks, AddSink, ReturnWithSinks, AddConsole
    <2>5. CASE Logging
        BY <2>1, <2>2, <2>3, <2>5
           DEF Logging, CreateGlobal, Create, Destroy, GlobalStatement
    <2> QED
        BY <1>2, <2>1, <2>4, <2>5 DEF Next, vars
<1> QED
    BY <1>1, <1>2, Inductive, PTL DEF Spec

------------------------------------------------------------------------------
(* The threshold of a new logger.                                           *)

(* The first entry of the table that matches, and only that one.            *)
LEMMA FirstMatch ==
    ASSUME IInv, init.pc = "returned", NEW c \in Names
    PROVE  IF ThresholdOf(c) = {} THEN minimum_severity_level(c) = Trace
           ELSE minimum_severity_level(c) \in ThresholdOf(c)
<1> DEFINE section  == init.cfg.thresholds
           matching == {i \in DOMAIN section : c \in section[i].match}
           first(i) == /\ c \in section[i].match
                       /\ \A j \in 1 .. i - 1 : c \notin section[j].match
           firsts   == {k \in DOMAIN section : first(k)}
<1>1. thresholds = section /\ thresholds \in Tables
    BY Typed DEF IInv, TableSoFar
<1>2. /\ ThresholdOf(c) = {section[i].level : i \in firsts}
      /\ minimum_severity_level(c) =
             IF matching = {} THEN Trace ELSE section[Min(matching)].level
    BY <1>1 DEF ThresholdOf, minimum_severity_level
<1>3. DOMAIN section = 1 .. Len(section) /\ Len(section) \in Nat
    BY <1>1 DEF Tables
<1> HIDE DEF section
<1>4. CASE matching = {}
    <2>1. firsts = {}
        BY <1>4
    <2> QED
        BY <1>2, <1>4, <2>1
<1>5. CASE matching # {}
    <2>1. matching \in SUBSET Nat
        BY <1>3
    <2>2. Min(matching) \in matching /\ \A y \in matching : Min(matching) <= y
        BY <1>5, <2>1, Smallest
    <2>3. Min(matching) \in firsts
        <3>1. \A j \in 1 .. Min(matching) - 1 : j \in DOMAIN section
            BY <1>3, <2>1, <2>2
        <3>2. \A j \in 1 .. Min(matching) - 1 : j \notin matching
            <4> HIDE DEF matching
            <4> SUFFICES ASSUME NEW j \in 1 .. Min(matching) - 1, j \in matching
                         PROVE  FALSE
                OBVIOUS
            <4>1. Min(matching) \in Nat /\ j \in Nat /\ Min(matching) <= j
                BY <2>1, <2>2
            <4> QED
                BY <4>1
        <3> QED
            BY <2>2, <3>1, <3>2
    <2> QED
        BY <1>2, <1>5, <2>3
<1> QED
    BY <1>4, <1>5

(* A logger made while no call of init_logging runs gets the level of the   *)
(* first pattern that matches its channel, in a build that looks the level  *)
(* up before it moves the channel (logging.hpp:441-444, logging.cpp:101).   *)
THEOREM LoggersGetFirstMatch ==
    ASSUME Orders \subseteq {"level first"}
    PROVE  Spec => LoggerGetsFirstMatch
<1> DEFINE Got(l) ==
        (init.pc = "returned" /\ logger[l] = None /\ logger'[l] # None) =>
            IF ThresholdOf(logger'[l].channel) = {}
            THEN logger'[l].threshold = Trace
            ELSE logger'[l].threshold \in ThresholdOf(logger'[l].channel)
<1>1. ASSUME IInv, NEW m \in Loggers, NEW c \in Channels, Create(m, c),
             NEW l \in Loggers
      PROVE  Got(l)
    <2> SUFFICES ASSUME init.pc = "returned",
                        logger[l] = None, logger'[l] # None
                 PROVE  IF ThresholdOf(logger'[l].channel) = {}
                        THEN logger'[l].threshold = Trace
                        ELSE logger'[l].threshold
                                 \in ThresholdOf(logger'[l].channel)
        OBVIOUS
    <2>1. PICK order \in Orders, level \in Levels :
            /\ \/ TableIsWritten
               \/ level = minimum_severity_level(
                              IF order = "level first" THEN c ELSE EmptyName)
            /\ logger' = [logger EXCEPT ![m] =
                             [channel |-> c, threshold |-> level]]
        BY <1>1 DEF Create
    <2>2. order = "level first" /\ ~TableIsWritten
        BY DEF TableIsWritten
    <2>3. level = minimum_severity_level(c) /\ c \in Names
        BY <2>1, <2>2 DEF Names
    <2>4. logger \in [Loggers ->
              {None} \cup [channel : Channels, threshold : Levels]]
        BY <1>1, Typed DEF IInv
    <2>5. l = m /\ logger'[l] = [channel |-> c, threshold |-> level]
        BY <2>1, <2>4
    <2>6. logger'[l].channel = c /\ logger'[l].threshold = level
        <3> DEFINE made == [channel |-> c, threshold |-> level]
        <3>1. made.channel = c /\ made.threshold = level
            OBVIOUS
        <3>2. logger'[l] = made
            BY <2>5
        <3> HIDE DEF made
        <3> QED
            BY <3>1, <3>2
    <2>7. IF ThresholdOf(c) = {} THEN minimum_severity_level(c) = Trace
          ELSE minimum_severity_level(c) \in ThresholdOf(c)
        BY <1>1, <2>3, FirstMatch
    <2> QED
        BY <2>3, <2>6, <2>7
<1>2. ASSUME IInv, NEW m \in Loggers, Destroy(m), NEW l \in Loggers
      PROVE  Got(l)
    <2>1. logger \in [Loggers ->
              {None} \cup [channel : Channels, threshold : Levels]]
        BY <1>2, Typed DEF IInv
    <2> QED
        BY <1>2, <2>1 DEF Destroy
<1>3. ASSUME logger' = logger, NEW l \in Loggers
      PROVE  Got(l)
    BY <1>3
<1>4. ASSUME IInv, Next, NEW l \in Loggers PROVE Got(l)
    <2> HIDE DEF Got
    <2>1. CASE InitLogging
        BY <2>1, <1>3 DEF InitLogging, Begin, ResetCore, Enable,
           ClearThresholds, FillThreshold, BuildFormats, RegisterFactories,
           ApplyCore, ConstructSinks, AddSink, ReturnWithSinks, AddConsole
    <2>2. CASE Logging
        BY <1>1, <1>2, <1>3, <1>4, <2>2, GlobalLogger
           DEF Logging, CreateGlobal, GlobalStatement, OpenRecord, PushRecord
    <2> QED
        BY <1>4, <2>1, <2>2 DEF Next
<1>5. ASSUME IInv, [Next]_vars
      PROVE  [\A l \in Loggers :
                 (init.pc = "returned" /\ logger[l] = None /\ logger'[l] # None)
                     => IF ThresholdOf(logger'[l].channel) = {}
                        THEN logger'[l].threshold = Trace
                        ELSE logger'[l].threshold
                                 \in ThresholdOf(logger'[l].channel)]_vars
    BY <1>4, <1>5
<1> QED
    BY <1>5, Inductive, PTL DEF Spec, LoggerGetsFirstMatch

=============================================================================

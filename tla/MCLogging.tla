------------------------------ MODULE MCLogging ------------------------------
(* Small configurations for Logging, one for each way a call can go.        *)
EXTENDS Logging

CONSTANTS t1, t2, l1, global_logger, local, global

MCThreads == {t1, t2}
MCLoggers == {l1, global_logger}
MCChannels == {local, global}

Entry(level, match) == [level |-> level, match |-> match]

\* [Thresholds] with two patterns that both match one channel.
Overlapping == <<Entry(1, {local}), Entry(2, {local, global})>>

\* The default configuration, ing::init_logging().
Default == [thresholds |-> <<>>, badFormat |-> FALSE, core |-> NoSection,
            sinks |-> NoSection, badSink |-> FALSE]

MCSettings ==
    {Default,
     [Default EXCEPT !.thresholds = Overlapping],
     [Default EXCEPT !.thresholds =
                       <<Entry(2, {local}), Entry(BadEntry, {global})>>],
     [Default EXCEPT !.badFormat = TRUE, !.thresholds = <<Entry(1, {global})>>],
     [Default EXCEPT !.core = [filter |-> 1, disabled |-> FALSE], !.sinks = 2],
     [Default EXCEPT !.core = [filter |-> NoFilter, disabled |-> TRUE]],
     [Default EXCEPT !.core = [filter |-> 2, disabled |-> FALSE],
                     !.badSink = TRUE, !.sinks = 1],
     [Default EXCEPT !.core = [filter |-> BadEntry, disabled |-> TRUE]],
     [Default EXCEPT !.core = [filter |-> 2, disabled |-> BadEntry], !.sinks = 1],
     [Default EXCEPT !.sinks = 0]}
==============================================================================

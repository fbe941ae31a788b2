------------------------------- MODULE Timer -------------------------------
(***************************************************************************)
(* The life of one ing::timer (src/src/uptime.cpp and the first half of    *)
(* src/src/timing.cpp): a stopwatch that restarts with every phase, beside *)
(* a second one that runs from the construction on, a name that carries    *)
(* the phase while it is reported, and the signals 1, 2, 3, ... and 0 sent *)
(* to the signal handler, for which the name is cut in place and put       *)
(* together again.  The memory for the name, the handler, the formatting   *)
(* and the log may fail, out of the constructor, a phase or a destructor;  *)
(* the base classes have destructors of their own, which finish a timer    *)
(* that still runs.  boost::timer::auto_cpu_timer is external; Stopped, the*)
(* actions Stop, Start and Resume, which a user may also call directly, and*)
(* EndCpuTimer are what is used of it.                                     *)
(***************************************************************************)
EXTENDS Integers, Sequences

CONSTANTS Ids,       (* ids of phases                                      *)
          NoId,      (* the empty id                                       *)
          Sizes,     (* the sizes a timer's name may be given with         *)
          Letter,    (* any character of the name given                    *)
          Nul,       (* the character that ends a C string                 *)
          ShortRange, (* how many values an unsigned short has             *)
          MaxTime,   (* bound: the last instant of the clock               *)
          MaxCalls   (* bound: calls of the user before the destructor     *)

ASSUME TimerAssumption ==
  /\ NoId \notin Ids
  /\ Nul \notin Ids \cup {Letter}
  /\ Sizes \subseteq Nat
  /\ ShortRange \in Nat \ {0}
  /\ MaxTime \in Nat /\ MaxCalls \in Nat

VARIABLES
  now,      (* the clock, counted from the construction                    *)
  stopped,  (* m_is_stopped                                                *)
  times,    (* m_times: the start if running, the elapsed time if stopped  *)
  name,     (* the name given and the ids appended to it, '/' and an id    *)
            (* being one character here                                    *)
  size,     (* the size of the name given                                  *)
  saved,    (* the character that string_guard puts back                   *)
  stage,    (* the number of the last signal, 0 in the destructor          *)
  os,       (* m_os: the stream of the timer, or that of the open record   *)
  pc,       (* where the thread of the timer is                            *)
  id,       (* the id of the phase being reported                          *)
  calls,    (* calls of the user so far                                    *)
  signals,  (* history: the signals sent                                   *)
  handed,   (* history: the names given to the handler with them           *)
  logged,   (* history: reports logged before the destructor               *)
  phases,   (* history: sum of the times recorded before the destructor    *)
  keys,     (* history: the keys recorded under                            *)
  finals,   (* history: reports logged by the destructor                   *)
  bases,    (* history: reports written by destructors of base classes     *)
  total,    (* history: the time reported by the destructor                *)
  flags     (* history: what happened so far                               *)

clockVars == <<stopped, times>>
sent == <<signals, handed>>
nameVars == <<name, size, saved>>
reportVars == <<nameVars, stage, id, sent, logged, phases, keys, finals, total>>
vars == <<now, clockVars, reportVars, os, bases, pc, calls, flags>>

(* blank: phase("") was called.  thrown: an exception was thrown.          *)
(* ran: the timer was running when the destructor began.                   *)
Flags == {"blank", "thrown", "ran"}

(* In ~uptime and ~auto_cpu_timer, and after these.                        *)
Ending == {"uptime", "cpu", "gone"}

Reporting == {"reset", "handler", "log", "format", "signal", "sample"}
Chars == Ids \cup {Letter, Nul}
Pcs == {"user", "restore"} \cup Reporting \cup Ending

TypeOK ==
  /\ now \in 0 .. MaxTime
  /\ stopped \in BOOLEAN
  /\ times \in 0 .. MaxTime
  /\ name \in Seq(Chars) /\ size \in Sizes /\ saved \in Chars
  /\ stage \in Nat
  /\ os \in {"own", "record"}
  /\ pc \in Pcs
  /\ id \in Ids \cup {NoId}
  /\ calls \in 0 .. MaxCalls
  /\ signals \in Seq(Nat)
  /\ handed \subseteq Seq(Chars)
  /\ logged \in Nat
  /\ phases \in Nat
  /\ keys \subseteq Seq(Chars)
  /\ finals \in Nat
  /\ bases \in Nat
  /\ total \in 0 .. MaxTime
  /\ flags \subseteq Flags

(* The name given, and the name up to character n.                         *)
given == [i \in 1 .. size |-> Letter]
First(n) == [i \in 1 .. n |-> Letter]

(* The constructors: both stopwatches run, stage and signal are 1, and the *)
(* handler is given the whole name.  If it throws the base classes are     *)
(* destroyed at once, without ~timer; if the memory for the name cannot be *)
(* had there is no signal, and only the base of uptime is destroyed.       *)
Init ==
  /\ now = 0
  /\ stopped = FALSE /\ times = 0
  /\ size \in Sizes /\ name = given /\ saved = Nul
  /\ stage = 1 /\ id = NoId
  /\ os = "own" /\ calls = 0
  /\ \/ /\ \/ pc = "user" /\ flags = {}
           \/ pc = "uptime" /\ flags = {"thrown"}
        /\ signals = <<1>> /\ handed = {given}
     \/ /\ pc = "cpu" /\ flags = {"thrown"}
        /\ signals = <<>> /\ handed = {}
  /\ logged = 0 /\ phases = 0 /\ keys = {} /\ finals = 0 /\ bases = 0
  /\ total = 0

Destroying == stage = 0

(* m_times after stop().                                                   *)
Stopped == IF stopped THEN times ELSE now - times

Goto(from, to) == pc = from /\ pc' = to

(* Variant with a plausible bug: a char holds basename.                    *)
basename_Char(n) == n % (ShortRange \div 2)

(* basename, an unsigned short, of a name of that size.                    *)
basename(n) == n % ShortRange

(* The string that c_str() ends.                                           *)
CStr(n) ==
  LET ends == {i \in 1 .. Len(n) : n[i] = Nul}
  IN IF ends = {} THEN n
     ELSE SubSeq(n, 1, (CHOOSE i \in ends : \A j \in ends : i <= j) - 1)

(* string_guard puts the end at basename, unless it is there already, ...  *)
CutName ==
  LET p == basename(size) + 1
  IN IF p > Len(name) THEN UNCHANGED <<name, saved>>
     ELSE name' = [name EXCEPT ![p] = Nul] /\ saved' = name[p]

(* ... and takes it away again.                                            *)
RestoreName ==
  LET p == basename(size) + 1
  IN name' = IF p > Len(name) THEN name ELSE [name EXCEPT ![p] = saved]

(* The handler is called with that name.                                   *)
Emit(s) ==
  /\ CutName
  /\ signals' = Append(signals, s)
  /\ handed' = handed \cup {CStr(name')}
  /\ pc' = "handler"
  /\ UNCHANGED <<size, flags>>

-----------------------------------------------------------------------------
(* Variants with a plausible bug, to show that the properties notice.      *)

(* The next phase resumes the stopwatch in place of restarting it.         *)
Restore_Resumes ==
  /\ Goto("restore", IF Destroying THEN "uptime" ELSE "user")
  /\ IF id = NoId THEN UNCHANGED <<name, clockVars>>
     ELSE /\ name' = SubSeq(name, 1, Len(name) - 1)
          /\ stopped' = FALSE
          /\ times' = now - times
  /\ UNCHANGED <<now, size, saved, stage, os, id, sent, logged, phases, keys,
                 finals, bases, total, calls, flags>>

(* The name is not cut back.                                               *)
Restore_KeepsName ==
  /\ Goto("restore", IF Destroying THEN "uptime" ELSE "user")
  /\ UNCHANGED name
  /\ IF id = NoId THEN UNCHANGED clockVars
     ELSE stopped' = FALSE /\ times' = now
  /\ UNCHANGED <<now, size, saved, stage, os, id, sent, logged, phases, keys,
                 finals, bases, total, calls, flags>>

(* The signal is sent before the report that it announces is written.      *)
Log_SignalsFirst ==
  /\ Goto("log", "format")
  /\ os' = "record"
  /\ IF Destroying THEN UNCHANGED <<stage, signals>>
     ELSE stage' = stage + 1 /\ signals' = Append(signals, stage + 1)
  /\ UNCHANGED <<now, clockVars, nameVars, id, handed, logged, phases, keys,
                 finals, bases, total, calls, flags>>

(* The name is not put together again if the handler throws.               *)
HandlerReturns_Cut ==
  /\ pc = "handler"
  /\ \/ pc' = (IF Destroying THEN "log" ELSE "sample")
        /\ RestoreName /\ UNCHANGED flags
     \/ /\ pc' = IF Destroying THEN "uptime" ELSE "user"
        /\ flags' = flags \cup {"thrown"}
        /\ UNCHANGED name
  /\ UNCHANGED <<now, clockVars, size, saved, stage, os, id, sent, logged,
                 phases, keys, finals, bases, total, calls>>

(* ~timer reports first and resets the signal after that.                  *)
Destroy_LogsFirst ==
  /\ Goto("user", IF stopped THEN "uptime" ELSE "log")
  /\ stage' = 0 /\ id' = NoId
  /\ IF stopped THEN UNCHANGED <<clockVars, flags>>
     ELSE stopped' = TRUE /\ times' = now /\ flags' = flags \cup {"ran"}
  /\ UNCHANGED <<now, nameVars, os, sent, logged, phases, keys, finals, bases,
                 total, calls>>

(* ... forgets to take the total over.                                     *)
Destroy_KeepsPhase ==
  /\ Goto("user", IF stopped THEN "uptime" ELSE "reset")
  /\ stage' = 0 /\ id' = NoId
  /\ IF stopped THEN UNCHANGED <<clockVars, flags>>
     ELSE /\ stopped' = TRUE /\ times' = now - times
          /\ flags' = flags \cup {"ran"}
  /\ UNCHANGED <<now, nameVars, os, sent, logged, phases, keys, finals, bases,
                 total, calls>>

(* ... or does not stop the timer before it reports.                       *)
Destroy_KeepsRunning ==
  /\ Goto("user", IF stopped THEN "uptime" ELSE "reset")
  /\ stage' = 0 /\ id' = NoId
  /\ flags' = IF stopped THEN flags ELSE flags \cup {"ran"}
  /\ UNCHANGED <<now, clockVars, nameVars, os, sent, logged, phases, keys,
                 finals, bases, total, calls>>

-----------------------------------------------------------------------------
Tick ==
  /\ now < MaxTime
  /\ pc # "gone"
  /\ now' = now + 1
  /\ UNCHANGED <<clockVars, reportVars, os, bases, pc, calls, flags>>

(* cpu_timer::stop, start and resume, called by the user.                  *)
UserCall ==
  /\ pc = "user" /\ calls < MaxCalls
  /\ calls' = calls + 1
  /\ UNCHANGED <<now, reportVars, os, bases, pc, flags>>

Stop ==
  /\ UserCall
  /\ stopped' = TRUE
  /\ times' = Stopped

Start ==
  /\ UserCall
  /\ stopped' = FALSE
  /\ times' = now

Resume ==
  /\ UserCall
  /\ stopped' = FALSE
  /\ times' = IF stopped THEN now - times ELSE times

(* uptime::phase up to the call of report.                                 *)
Phase(i) ==
  /\ Goto("user", "log") /\ calls < MaxCalls
  /\ calls' = calls + 1
  /\ stopped' = TRUE
  /\ times' = Stopped
  /\ id' = i
  /\ name' = IF i = NoId THEN name ELSE Append(name, i)
  /\ flags' = IF i = NoId THEN flags \cup {"blank"} ELSE flags
  /\ UNCHANGED <<now, size, saved, stage, os, sent, logged, phases, keys,
                 finals, bases, total>>

(* ~timer: stage = 0 and finalize(), which takes the total over and        *)
(* reports it like a phase with an empty id, unless the timer is stopped.  *)
Destroy ==
  /\ Goto("user", IF stopped THEN "uptime" ELSE "reset")
  /\ stage' = 0 /\ id' = NoId
  /\ IF stopped THEN UNCHANGED <<clockVars, flags>>
     ELSE stopped' = TRUE /\ times' = now /\ flags' = flags \cup {"ran"}
  /\ UNCHANGED <<now, nameVars, os, sent, logged, phases, keys, finals, bases,
                 total, calls>>

(* The exception leaves phase() or ~timer: the name keeps its suffix and   *)
(* the stopwatch stays stopped.                                            *)
Throw ==
  /\ pc' = IF Destroying THEN "uptime" ELSE "user"
  /\ flags' = flags \cup {"thrown"}

(* ... or there is none.                                                   *)
Continue(to) == pc' = to /\ UNCHANGED flags

(* timer::report: in the destructor the signal is reset before the log.    *)
Reset ==
  /\ pc = "reset"
  /\ Emit(0)
  /\ UNCHANGED <<now, clockVars, stage, os, id, logged, phases, keys, finals,
                 bases, total, calls>>

(* The handler is done, or throws: ~string_guard runs in both cases.       *)
HandlerReturns ==
  /\ pc = "handler"
  /\ Continue(IF Destroying THEN "log" ELSE "sample") \/ Throw
  /\ RestoreName
  /\ UNCHANGED <<now, clockVars, size, saved, stage, os, id, sent, logged,
                 phases, keys, finals, bases, total, calls>>

Logged ==
  /\ Continue(IF Destroying THEN "sample" ELSE "signal")
  /\ logged' = IF Destroying THEN logged ELSE logged + 1
  /\ finals' = IF Destroying THEN finals + 1 ELSE finals

(* The record is filtered out, or opened for uptime::format, which         *)
(* exchanges m_os for its stream, or an allocation throws.                 *)
Log ==
  /\ pc = "log"
  /\ \/ Logged /\ UNCHANGED os
     \/ Continue("format") /\ os' = "record" /\ UNCHANGED <<logged, finals>>
     \/ Throw /\ UNCHANGED <<os, logged, finals>>
  /\ UNCHANGED <<now, clockVars, nameVars, stage, id, sent, phases, keys, bases,
                 total, calls>>

(* A guard that gives m_os back only if nothing throws.                    *)
Format_GivesBackLate ==
  /\ pc = "format"
  /\ \/ Logged /\ os' = "own"
     \/ Throw /\ UNCHANGED <<os, logged, finals>>
  /\ UNCHANGED <<now, clockVars, nameVars, stage, id, sent, phases, keys, bases,
                 total, calls>>

(* auto_cpu_timer::report(), the guard of format and the end of the record:*)
(* the formatting or a sink may throw.                                     *)
Format ==
  /\ pc = "format"
  /\ os' = "own"
  /\ Logged \/ (Throw /\ UNCHANGED <<logged, finals>>)
  /\ UNCHANGED <<now, clockVars, nameVars, stage, id, sent, phases, keys, bases,
                 total, calls>>

Signal ==
  /\ pc = "signal"
  /\ stage' = stage + 1
  /\ Emit(stage + 1)
  /\ UNCHANGED <<now, clockVars, os, id, logged, phases, keys, finals, bases,
                 total, calls>>

(* elapsed() goes to the registry, which keeps the sample, drops it (the   *)
(* action Drop of TimerBoard) or throws bad_alloc.                         *)
Sample(kept) ==
  /\ Goto("sample", "restore")
  /\ phases' = IF kept /\ ~ Destroying THEN phases + times ELSE phases
  /\ total' = IF kept /\ Destroying THEN times ELSE total
  /\ keys' = IF kept THEN keys \cup {name} ELSE keys
  /\ UNCHANGED <<now, clockVars, nameVars, stage, os, id, sent, logged, finals,
                 bases, calls, flags>>

SampleThrows ==
  /\ pc = "sample"
  /\ Throw
  /\ UNCHANGED <<now, clockVars, reportVars, os, bases, calls>>

(* uptime::phase after report: cut the name back and start the next phase. *)
Restore ==
  /\ Goto("restore", IF Destroying THEN "uptime" ELSE "user")
  /\ IF id = NoId THEN UNCHANGED <<name, clockVars>>
     ELSE /\ name' = SubSeq(name, 1, Len(name) - 1)
          /\ stopped' = FALSE
          /\ times' = now
  /\ UNCHANGED <<now, size, saved, stage, os, id, sent, logged, phases, keys,
                 finals, bases, total, calls, flags>>

(* ~uptime, also on the way of an exception: finalize() once more, whose   *)
(* report is now uptime::report and writes to m_os.                        *)
EndUptime ==
  /\ Goto("uptime", "cpu")
  /\ IF stopped THEN UNCHANGED <<clockVars, bases>>
     ELSE stopped' = TRUE /\ times' = now /\ bases' = bases + 1
  /\ UNCHANGED <<now, reportVars, os, calls, flags>>

(* ~auto_cpu_timer, which stops and reports a timer that still runs.       *)
EndCpuTimer ==
  /\ Goto("cpu", "gone")
  /\ IF stopped THEN UNCHANGED <<clockVars, bases>>
     ELSE stopped' = TRUE /\ times' = Stopped /\ bases' = bases + 1
  /\ UNCHANGED <<now, reportVars, os, calls, flags>>

Next ==
  \/ Tick \/ Stop \/ Start \/ Resume
  \/ \E i \in Ids \cup {NoId} : Phase(i)
  \/ Destroy \/ Reset \/ Log \/ Format \/ Signal \/ HandlerReturns
  \/ \E kept \in BOOLEAN : Sample(kept)
  \/ SampleThrows \/ Restore \/ EndUptime \/ EndCpuTimer

Spec == Init /\ [][Next]_vars

Last == signals[Len(signals)]

-----------------------------------------------------------------------------
(* The phases never add up to more than the time since the construction,   *)
(* however the user stops, restarts and resumes the timer in between and   *)
(* whichever reports throw: no instant is recorded in two phases           *)
(* (uptime.cpp:20-39).  phase("") records without restarting and is left   *)
(* out.  test_uptime.cpp:65 expects the same of its four reports.          *)
PhasesWithinTime == "blank" \notin flags => phases =< now

(* What the destructor reports covers the phases (uptime.cpp:73-80).       *)
PhasesWithinTotal ==
  "blank" \notin flags /\ total > 0 => phases =< total

(* Signals count the reports: 1 at the construction, one more for each     *)
(* report that was written, and nothing after the 0 of the destructor; none*)
(* is sent only if there is no timer either (timing.cpp:102, 152-173).     *)
SignalsCountReports ==
  LET n == IF Last = 0 THEN Len(signals) - 1 ELSE Len(signals)
  IN IF signals = <<>> THEN pc \in {"cpu", "gone"} /\ logged = 0
     ELSE /\ \A i \in 1 .. n : signals[i] = i
          /\ n = 1 + logged - (IF pc = "signal" THEN 1 ELSE 0)
          /\ n < Len(signals) => Destroying

(* The signal is reset whenever a running timer is destroyed, also if the  *)
(* handler or the last report throws, and the total is never logged without*)
(* the reset (timing.cpp:89-93, 152-156).                                  *)
ResetOnDestroy ==
  /\ pc \in Ending /\ "ran" \in flags => Last = 0
  /\ finals > 0 => Last = 0

(* However a timer ends and whatever throws, the destructors of its three  *)
(* classes report the total once at most; those of the base classes report *)
(* only if a constructor failed, and to the stream of the timer, which is  *)
(* also what the user finds after each report, be it that the report threw *)
(* (uptime.cpp:7-10, 41-85, timing.cpp:89-140).                            *)
TotalReportedOnce ==
  /\ finals + bases =< 1
  /\ bases > 0 => ~ Destroying /\ logged = 0
  /\ pc \in {"user"} \cup Ending => os = "own"

(* The name given, followed by ids.                                        *)
NamesTimer(n) ==
  /\ Len(n) >= size
  /\ \A i \in 1 .. Len(n) : IF i <= size THEN n[i] = Letter ELSE n[i] \in Ids

(* Every signal comes with the name the timer was given, also while a      *)
(* phase is reported, when its name carries an id, and after a report that *)
(* threw and left it there.  A name too long for an unsigned short comes so*)
(* with the first signal only, and with as many of its characters as the   *)
(* rest of its size says afterwards.  Once the handler is done, be it by an*)
(* exception, the name is the one given and the ids again, which is what   *)
(* the log and the registry are told next (timing.cpp:100-102, 144-173).   *)
SignalsNameTheTimer ==
  /\ \A h \in handed :
       \/ h = given
       \/ size >= ShortRange /\ h = First(size % ShortRange)
  /\ pc # "handler" => NamesTimer(name)

(* Times are recorded under the name of the timer followed by ids, and, as *)
(* long as no report throws, by one at most (uptime.cpp:24-37,             *)
(* timing.cpp:175-188).                                                    *)
KeysAreNames ==
  \A k \in keys : NamesTimer(k) /\ ("thrown" \notin flags => Len(k) <= size + 1)

=============================================================================

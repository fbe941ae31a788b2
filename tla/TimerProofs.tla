---------------------------- MODULE TimerProofs ----------------------------
(***************************************************************************)
(* Proofs about the life of a timer, for every set of ids, every size of a *)
(* name, every width of basename and every bound on the clock and on the   *)
(* calls.                                                                  *)
(***************************************************************************)
EXTENDS Timer, SequenceTheorems, TLAPS

(* Where the thread can be, before the destructor and in it.  Only a timer *)
(* that was not made ends while it runs.                                   *)
Control ==
  /\ Destroying => pc \notin {"user", "signal"} /\ stopped /\ id = NoId
  /\ Destroying /\ pc \notin Ending => "ran" \in flags
  /\ pc = "reset" => Destroying
  /\ pc \in Reporting \cup {"gone"} => stopped
  /\ pc = "cpu" => stopped \/ signals = <<>>
  /\ pc \in Ending /\ ~ Destroying => logged = 0
  /\ "ran" \in flags => Destroying
  /\ ~ Destroying /\ pc \in Reporting \cup {"restore"} /\ id = NoId
       => "blank" \in flags

(* Until it is recorded the elapsed time is not part of the phases, and    *)
(* both together fit into the time that has passed.                        *)
Elapsing ==
  /\ times =< now
  /\ ~ Destroying => total = 0
  /\ Destroying /\ pc \in Reporting => total = 0
  /\ "blank" \notin flags =>
       /\ phases =< now
       /\ ~ Destroying /\ pc \notin Ending \cup {"restore"}
            => phases + Stopped =< now
       /\ Destroying /\ pc \in Reporting => phases =< times
       /\ total > 0 => phases =< total

(* The signals sent, and what the destructor has done already; without a   *)
(* signal there was no timer.                                              *)
Signalling ==
  /\ signals = <<>> =>
       pc \in {"cpu", "gone"} /\ ~ Destroying /\ logged = 0 /\ finals = 0
  /\ signals # <<>> =>
       /\ ~ Destroying => Len(signals) = stage /\ Last = stage
       /\ pc = "reset" => Last # 0
       /\ Destroying /\ "ran" \in flags /\ pc # "reset" => Last = 0
       /\ finals > 0 => Last = 0

(* Who has reported the total, and where m_os points.                      *)
Totalling ==
  /\ ~ Destroying \/ pc \in {"reset", "handler", "log", "format"} => finals = 0
  /\ finals =< 1
  /\ bases =< 1
  /\ bases > 0 => ~ Destroying /\ pc \in {"cpu", "gone"} /\ stopped
  /\ os = "record" => pc = "format"

(* While a phase is reported the name carries its id, and without an       *)
(* exception no other.                                                     *)
Naming ==
  LET suffix == IF pc \in Reporting \cup {"restore"} /\ id # NoId THEN 1 ELSE 0
  IN /\ Len(name) >= size + suffix
     /\ "thrown" \notin flags => Len(name) = size + suffix

(* The name as it is, or as ~string_guard is going to make it.             *)
Restored ==
  LET p == basename(size) + 1
  IN IF pc # "handler" \/ p > Len(name) THEN name
     ELSE [name EXCEPT ![p] = saved]

Spelled == NamesTimer(Restored)

(* What the handler was given.                                             *)
Handing ==
  \A h \in handed :
    \/ h = given
    \/ size >= ShortRange /\ h = First(size % ShortRange)

IInv ==
  /\ TypeOK
  /\ Control
  /\ Elapsing
  /\ Signalling
  /\ SignalsCountReports
  /\ Totalling
  /\ Naming
  /\ KeysAreNames
  /\ Spelled
  /\ Handing

-----------------------------------------------------------------------------
(* A name of that size is a sequence of letters.                           *)
LEMMA FirstProperties ==
  ASSUME NEW n \in Nat
  PROVE  /\ First(n) \in Seq(Chars) /\ Len(First(n)) = n
         /\ \A i \in 1 .. n : First(n)[i] = Letter
<1>1. Letter \in Chars
  BY DEF Chars
<1>2. First(n) \in Seq(Chars)
  BY <1>1, IsASeq DEF First
<1> QED
  BY <1>2 DEF First

(* The invariant holds of a new timer.                                     *)
LEMMA InitInv == Init => IInv
<1> SUFFICES ASSUME Init PROVE IInv
  OBVIOUS
<1>0. /\ size \in Nat /\ name = First(size) /\ name \in Seq(Chars)
      /\ Len(name) = size /\ \A i \in 1 .. size : name[i] = Letter
  BY FirstProperties, TimerAssumption DEF Init, given, First
<1>1. TypeOK
  <2> USE TimerAssumption DEF Init
  <2>1. signals \in Seq(Nat)
    <3>1. signals = <<1>> \/ signals = <<>>
      BY Zenon
    <3>2. <<1>> \in Seq(Nat)
      <4> HIDE DEF Init
      <4> QED
        OBVIOUS
    <3>3. <<>> \in Seq(Nat)
      OBVIOUS
    <3> QED
      BY <3>1, <3>2, <3>3, Zenon
  <2>2. now \in 0 .. MaxTime /\ times \in 0 .. MaxTime
        /\ calls \in 0 .. MaxCalls /\ total \in 0 .. MaxTime
    OBVIOUS
  <2>3. stage \in Nat /\ logged \in Nat /\ phases \in Nat /\ finals \in Nat
        /\ bases \in Nat
    OBVIOUS
  <2>4. stopped \in BOOLEAN /\ pc \in Pcs /\ id \in Ids \cup {NoId}
        /\ keys \subseteq Seq(Chars) /\ flags \subseteq Flags
        /\ os \in {"own", "record"} /\ saved \in Chars /\ size \in Sizes
    BY Zenon DEF Pcs, Ending, Flags, Chars
  <2>5. handed \subseteq Seq(Chars)
    BY <1>0
  <2> HIDE DEF Init
  <2> QED
    BY <1>0, <2>1, <2>2, <2>3, <2>4, <2>5, Zenon DEF TypeOK
<1>2. Control
  BY DEF Init, Control, Destroying, Reporting, Ending
<1>3. Elapsing
  BY DEF Init, Elapsing, Destroying, Reporting, Ending, Stopped
<1>4. Signalling /\ SignalsCountReports
  <2>1. \/ signals = <<1>> /\ Len(signals) = 1 /\ signals[1] = 1
           /\ pc \in {"user", "uptime"}
        \/ signals = <<>> /\ pc = "cpu"
    BY DEF Init
  <2>2. stage = 1 /\ logged = 0 /\ finals = 0
    BY DEF Init
  <2>3. Signalling
    BY <2>1, <2>2 DEF Signalling, Destroying, Last
  <2>4. SignalsCountReports
    BY <2>1, <2>2 DEF SignalsCountReports, Last
  <2> QED
    BY <2>3, <2>4
<1>5. Naming /\ KeysAreNames
  BY <1>0 DEF Init, Naming, KeysAreNames, Reporting
<1>6. Spelled
  BY <1>0 DEF Init, Spelled, Restored, NamesTimer
<1>7. Handing
  BY DEF Init, Handing
<1>8. Totalling
  BY DEF Init, Totalling, Destroying
<1> QED
  BY <1>1, <1>2, <1>3, <1>4, <1>5, <1>6, <1>7, <1>8 DEF IInv

-----------------------------------------------------------------------------
(* The first n elements of a sequence.                                     *)
LEMMA Beginning ==
  ASSUME NEW S, NEW n \in Nat, NEW s, \A i \in 1 .. n : s[i] \in S
  PROVE  /\ SubSeq(s, 1, n) \in Seq(S) /\ Len(SubSeq(s, 1, n)) = n
         /\ \A i \in 1 .. n : SubSeq(s, 1, n)[i] = s[i]
<1>1. /\ SubSeq(s, 1, n) \in Seq(S)
      /\ Len(SubSeq(s, 1, n)) = IF 1 =< n THEN n - 1 + 1 ELSE 0
      /\ \A i \in 1 .. n - 1 + 1 : SubSeq(s, 1, n)[i] = s[1 + i - 1]
  BY SubSeqProperties
<1> QED
  BY <1>1

(* A sequence cut by one, as phase() cuts the name back.                   *)
LEMMA CutBack ==
  ASSUME NEW S, NEW s \in Seq(S)
  PROVE  /\ SubSeq(s, 1, Len(s) - 1) \in Seq(S)
         /\ s # <<>> => Len(SubSeq(s, 1, Len(s) - 1)) = Len(s) - 1
<1>1. CASE s = <<>>
  BY <1>1
<1>2. CASE s # <<>>
  <2>1. PICK n \in Nat : n = Len(s) - 1
    BY <1>2
  <2>2. \A i \in 1 .. n : s[i] \in S
    BY <2>1
  <2>3. /\ SubSeq(s, 1, n) \in Seq(S)
        /\ Len(SubSeq(s, 1, n)) = IF 1 =< n THEN n - 1 + 1 ELSE 0
    BY <2>2, SubSeqProperties
  <2>4. Len(SubSeq(s, 1, n)) = n
    BY <2>3
  <2> QED
    BY <2>1, <2>3, <2>4
<1> QED
  BY <1>1, <1>2

-----------------------------------------------------------------------------
(* basename counts characters of the name given, all of them if it can.    *)
LEMMA Widths ==
  ASSUME TypeOK
  PROVE  /\ size \in Nat /\ basename(size) \in Nat /\ basename(size) =< size
         /\ size < ShortRange => basename(size) = size
<1>1. size \in Nat /\ ShortRange \in Nat \ {0}
  BY TimerAssumption DEF TypeOK
<1>2. size % ShortRange \in Nat /\ size % ShortRange < ShortRange
  BY <1>1
<1>3. size < ShortRange => size % ShortRange = size
  BY <1>1
<1> QED
  BY <1>1, <1>2, <1>3 DEF basename

(* What string_guard makes of the name and keeps of it.                    *)
LEMMA CutProperties ==
  ASSUME TypeOK, CutName, NEW p, p = basename(size) + 1
  PROVE  /\ name' \in Seq(Chars) /\ saved' \in Chars /\ Len(name') = Len(name)
         /\ p > Len(name) => name' = name
         /\ p =< Len(name) =>
              /\ saved' = name[p]
              /\ \A j \in 1 .. Len(name) :
                   name'[j] = IF j = p THEN Nul ELSE name[j]
<1>1. p \in Nat /\ p >= 1 /\ name \in Seq(Chars) /\ saved \in Chars
  BY Widths DEF TypeOK
<1>2. CASE p > Len(name)
  BY <1>1, <1>2 DEF CutName
<1>3. CASE p =< Len(name)
  <2>1. name' = [name EXCEPT ![p] = Nul] /\ saved' = name[p]
    BY <1>1, <1>3 DEF CutName
  <2>2. p \in 1 .. Len(name) /\ Nul \in Chars
    BY <1>1, <1>3 DEF Chars
  <2>3. /\ name' \in Seq(Chars) /\ Len(name') = Len(name)
        /\ \A j \in 1 .. Len(name) : name'[j] = IF j = p THEN Nul ELSE name[j]
    BY <1>1, <2>1, <2>2, ExceptSeq
  <2>4. name[p] \in Chars
    BY <1>1, <2>2
  <2> QED
    BY <1>1, <1>3, <2>1, <2>3, <2>4
<1> QED
  BY <1>1, <1>2, <1>3

(* What it puts back is what it has taken away.                            *)
LEMMA CutAndRestored ==
  ASSUME TypeOK, CutName, pc' = "handler", size' = size
  PROVE  Restored' = name
<1> DEFINE p == basename(size) + 1
<1>1. p \in Nat /\ p >= 1 /\ name \in Seq(Chars) /\ basename(size') = p - 1
  BY Widths DEF TypeOK
<1>2. /\ name' \in Seq(Chars) /\ saved' \in Chars /\ Len(name') = Len(name)
      /\ p > Len(name) => name' = name
      /\ p =< Len(name) =>
           /\ saved' = name[p]
           /\ \A j \in 1 .. Len(name) :
                name'[j] = IF j = p THEN Nul ELSE name[j]
  BY CutProperties
<1>3. Restored' = IF p > Len(name') THEN name' ELSE [name' EXCEPT ![p] = saved']
  BY DEF Restored, basename
<1> HIDE DEF p
<1>4. CASE p > Len(name)
  BY <1>2, <1>3, <1>4
<1>5. CASE p =< Len(name)
  <2>1. p \in 1 .. Len(name')
    BY <1>1, <1>2, <1>5
  <2>2. /\ Restored' \in Seq(Chars) /\ Len(Restored') = Len(name')
        /\ \A j \in 1 .. Len(name') :
             Restored'[j] = IF j = p THEN saved' ELSE name'[j]
    <3>1. Restored' = [name' EXCEPT ![p] = saved']
      BY <1>1, <1>2, <1>3, <1>5
    <3> QED
      BY <1>2, <2>1, <3>1, ExceptSeq
  <2>3. \A j \in 1 .. Len(name') : Restored'[j] = name[j]
    BY <1>2, <1>5, <2>2
  <2> QED
    BY <1>1, <1>2, <2>2, <2>3, SeqEqual
<1> QED
  BY <1>1, <1>4, <1>5

(* Cut like that, the name is what was given, or the beginning of it.      *)
LEMMA CutGiven ==
  ASSUME TypeOK, NamesTimer(name), CutName
  PROVE  CStr(name') = First(basename(size))
<1> DEFINE b == basename(size)
<1> DEFINE p == b + 1
<1> DEFINE ends == {i \in 1 .. Len(name') : name'[i] = Nul}
<1>1. /\ size \in Nat /\ b \in Nat /\ b =< size /\ p = b + 1 /\ name \in Seq(Chars)
      /\ Len(name) \in Nat
  BY Widths DEF TypeOK
<1>2. /\ name' \in Seq(Chars) /\ Len(name') = Len(name)
      /\ p > Len(name) => name' = name
      /\ p =< Len(name) =>
           \A j \in 1 .. Len(name) : name'[j] = IF j = p THEN Nul ELSE name[j]
  BY CutProperties
<1>3. /\ Len(name) >= size
      /\ \A i \in 1 .. Len(name) : name[i] # Nul
      /\ \A i \in 1 .. Len(name) : i =< size => name[i] = Letter
  BY <1>1, TimerAssumption DEF NamesTimer
<1>4. /\ First(b) \in Seq(Chars) /\ Len(First(b)) = b
      /\ \A i \in 1 .. b : First(b)[i] = Letter
  BY <1>1, FirstProperties
<1>5. CStr(name') = IF ends = {} THEN name'
        ELSE SubSeq(name', 1, (CHOOSE i \in ends : \A j \in ends : i <= j) - 1)
  BY DEF CStr
<1> HIDE DEF b, p
<1>6. CASE p > Len(name)
  <2>0. Len(name) >= size
    BY <1>3
  <2>1. b = size /\ Len(name) = b
    BY <1>1, <1>6, <2>0
  <2>4. name' = name
    BY <1>2, <1>6
  <2>2. ends = {}
    BY <1>3, <2>4
  <2>3. CStr(name') = name
    BY <1>5, <2>2, <2>4
  <2> HIDE DEF ends
  <2>5. Len(First(b)) = Len(name) /\ \A i \in 1 .. Len(name) : name[i] = First(b)[i]
    BY <1>3, <1>4, <2>1
  <2>6. name = First(b)
    BY <1>1, <1>4, <2>5, SeqEqual
  <2> QED
    BY <2>3, <2>6 DEF b
<1>7. CASE p =< Len(name)
  <2>1. ends = {p}
    BY <1>1, <1>2, <1>3, <1>7
  <2>2. (CHOOSE i \in ends : \A j \in ends : i <= j) = p
    BY <1>1, <2>1
  <2>3. CStr(name') = SubSeq(name', 1, b)
    <3>1. p - 1 = b /\ ends # {}
      BY <1>1, <2>1
    <3> HIDE DEF ends
    <3> QED
      BY <1>5, <2>2, <3>1
  <2> HIDE DEF ends
  <2>4. \A i \in 1 .. b : name'[i] = Letter /\ name'[i] \in Chars
    BY <1>1, <1>2, <1>3, <1>7 DEF Chars
  <2>5. /\ SubSeq(name', 1, b) \in Seq(Chars) /\ Len(SubSeq(name', 1, b)) = b
        /\ \A i \in 1 .. b : SubSeq(name', 1, b)[i] = name'[i]
    <3>1. b \in Nat /\ \A i \in 1 .. b : name'[i] \in Chars
      BY <1>1, <2>4
    <3> HIDE DEF NamesTimer, TypeOK, CutName
    <3> QED
      BY <3>1, Beginning
  <2>6. \A i \in 1 .. b : SubSeq(name', 1, b)[i] = First(b)[i]
    BY <1>4, <2>4, <2>5
  <2>7. SubSeq(name', 1, b) = First(b)
    BY <1>4, <2>5, <2>6, SeqEqual
  <2> QED
    BY <2>3, <2>7 DEF b
<1> QED
  BY <1>1, <1>6, <1>7

(* What ~string_guard puts back is a character.                            *)
LEMMA RestoreType ==
  ASSUME TypeOK, RestoreName
  PROVE  name' \in Seq(Chars) /\ Len(name') = Len(name)
<1> DEFINE p == basename(size) + 1
<1>1. p \in Nat /\ p >= 1 /\ name \in Seq(Chars) /\ saved \in Chars
  BY Widths DEF TypeOK
<1>2. name' = IF p > Len(name) THEN name ELSE [name EXCEPT ![p] = saved]
  BY DEF RestoreName
<1> HIDE DEF p
<1>3. CASE p > Len(name)
  BY <1>1, <1>2, <1>3
<1>4. CASE p =< Len(name)
  <2>1. p \in 1 .. Len(name) /\ name' = [name EXCEPT ![p] = saved]
    BY <1>1, <1>2, <1>4
  <2> QED
    BY <1>1, <2>1, ExceptSeq, Zenon
<1> QED
  BY <1>1, <1>3, <1>4

(* What the disjuncts of Next have in common, action by action, so that    *)
(* the lemmas below can be split the same way.                             *)
LEMMA Cases ==
  ASSUME Next
  PROVE  \/ Tick \/ Stop \/ Start \/ Resume \/ Destroy
         \/ \E i \in Ids \cup {NoId} : Phase(i)
         \/ Reset \/ Signal \/ SampleThrows \/ Restore
         \/ Log \/ Format \/ HandlerReturns
         \/ \E kept \in BOOLEAN : Sample(kept)
         \/ EndUptime \/ EndCpuTimer
BY DEF Next

(* Every variable keeps its type.                                          *)
LEMMA TypeStep ==
  ASSUME IInv, [Next]_vars
  PROVE  TypeOK'
<1> USE TimerAssumption DEF IInv, TypeOK, Elapsing, Destroying, Stopped,
        clockVars, reportVars, nameVars, sent, Pcs, Ending, Reporting, Flags
<1>1. CASE Tick
  BY <1>1 DEF Tick
<1>2. CASE Stop \/ Start \/ Resume
  <2>1. stopped' \in BOOLEAN
    BY <1>2, Zenon DEF Stop, Start, Resume
  <2>2. times \in 0 .. MaxTime /\ now \in 0 .. MaxTime
        /\ now - times \in 0 .. MaxTime
    OBVIOUS
  <2>3. times' \in {times, now, now - times}
    BY <1>2, Zenon DEF Stop, Start, Resume
  <2>4. UserCall
    BY <1>2 DEF Stop, Start, Resume
  <2> QED
    BY <2>1, <2>2, <2>3, <2>4 DEF UserCall
<1>3. CASE Destroy
  BY <1>3 DEF Destroy, Goto
<1>4. ASSUME NEW i \in Ids \cup {NoId}, Phase(i) PROVE TypeOK'
  <2>1. name' \in Seq(Chars)
    BY <1>4 DEF Phase, Chars
  <2> QED
    BY <1>4, <2>1 DEF Phase, Goto
<1>5. CASE Reset \/ Signal
  <2>0. CutName /\ size' = size /\ flags' = flags /\ pc' = "handler"
    BY <1>5, Zenon DEF Reset, Signal, Emit
  <2>1. name' \in Seq(Chars) /\ saved' \in Chars
    BY <2>0, CutProperties, Zenon DEF IInv
  <2>3. handed' \subseteq Seq(Chars)
    <3>1. handed' = handed \cup {CStr(name')}
      BY <1>5, Zenon DEF Reset, Signal, Emit
    <3>2. CStr(name') \in Seq(Chars)
      <4>1. NamesTimer(name)
        BY <1>5, Zenon DEF Reset, Signal, Spelled, Restored
      <4>2. CStr(name') = First(basename(size))
        BY <2>0, <4>1, CutGiven, Zenon DEF IInv
      <4> QED
        BY <4>2, Widths, FirstProperties
    <3> QED
      BY <3>1, <3>2, Zenon
  <2>2. signals' \in Seq(Nat) /\ stage' \in Nat
    <3>1. stage + 1 \in Nat /\ 0 \in Nat
      OBVIOUS
    <3>2. \E s \in Nat : signals' = Append(signals, s)
      BY <1>5, <3>1, Zenon DEF Reset, Signal, Emit
    <3>3. stage' \in Nat
      BY <1>5, <3>1, Zenon DEF Reset, Signal
    <3>4. signals \in Seq(Nat)
      OBVIOUS
    <3>5. \A s \in Nat : Append(signals, s) \in Seq(Nat)
      BY <3>4, AppendProperties
    <3> QED
      BY <3>2, <3>3, <3>5, Zenon
  <2> QED
    BY <1>5, <2>0, <2>1, <2>2, <2>3 DEF Reset, Signal
<1>6. CASE HandlerReturns
  <2>1. name' \in Seq(Chars)
    BY <1>6, RestoreType, Zenon DEF HandlerReturns, IInv
  <2> QED
    BY <1>6, <2>1 DEF HandlerReturns, Continue, Throw
<1>7. CASE SampleThrows
  BY <1>7 DEF SampleThrows, Throw
<1>8. CASE Restore
  <2>1. name' \in Seq(Chars)
    BY <1>8, CutBack DEF Restore
  <2> QED
    BY <1>8, <2>1 DEF Restore, Goto
<1>9. CASE Log \/ Format
  <2>1. /\ \/ pc' \in {"signal", "sample", "format"} /\ flags' = flags
           \/ pc' \in {"user", "uptime"} /\ flags' = flags \cup {"thrown"}
        /\ os' \in {"own", "record"}
    BY <1>9 DEF Log, Format, Logged, Continue, Throw
  <2>2. logged' \in Nat /\ finals' \in Nat
    BY <1>9 DEF Log, Format, Logged, Continue, Throw
  <2> QED
    BY <1>9, <2>1, <2>2 DEF Log, Format
<1>10. ASSUME NEW kept \in BOOLEAN, Sample(kept) PROVE TypeOK'
  BY <1>10 DEF Sample, Goto
<1>11. CASE EndUptime \/ EndCpuTimer
  <2>1. stopped' \in BOOLEAN
    BY <1>11, Zenon DEF EndUptime, EndCpuTimer
  <2>2. times' \in 0 .. MaxTime
    <3>1. times' \in {times, now, Stopped}
      BY <1>11, Zenon DEF EndUptime, EndCpuTimer
    <3>2. Stopped \in 0 .. MaxTime
      OBVIOUS
    <3> QED
      BY <3>1, <3>2
  <2>3. bases' \in Nat /\ pc' \in {"cpu", "gone"}
    BY <1>11 DEF EndUptime, EndCpuTimer, Goto
  <2> QED
    BY <1>11, <2>1, <2>2, <2>3 DEF EndUptime, EndCpuTimer
<1>12. CASE UNCHANGED vars
  BY <1>12 DEF vars
<1> QED
  BY <1>1, <1>2, <1>3, <1>4, <1>5, <1>6, <1>7, <1>8, <1>9, <1>10, <1>11,
     <1>12, Cases

(* The control keeps its shape.                                            *)
LEMMA ControlStep ==
  ASSUME IInv, [Next]_vars
  PROVE  Control'
<1> USE TimerAssumption DEF IInv, TypeOK, Control, Destroying, Reporting,
        Ending, clockVars, reportVars, nameVars, sent
<1>1. CASE Tick
  BY <1>1 DEF Tick
<1>2. CASE Stop \/ Start \/ Resume
  BY <1>2 DEF Stop, Start, Resume, UserCall
<1>3. CASE Destroy
  BY <1>3 DEF Destroy, Goto
<1>4. ASSUME NEW i \in Ids \cup {NoId}, Phase(i) PROVE Control'
  BY <1>4 DEF Phase, Goto
<1>5. CASE Reset \/ Signal
  BY <1>5 DEF Reset, Signal, Emit
<1>6. CASE HandlerReturns
  BY <1>6 DEF HandlerReturns, Continue, Throw
<1>7. CASE SampleThrows
  BY <1>7 DEF SampleThrows, Throw
<1>8. CASE Restore
  BY <1>8 DEF Restore, Goto
<1>9. CASE Log \/ Format
  BY <1>9 DEF Log, Format, Logged, Continue, Throw
<1>10. ASSUME NEW kept \in BOOLEAN, Sample(kept) PROVE Control'
  BY <1>10 DEF Sample, Goto
<1>11. CASE EndUptime \/ EndCpuTimer
  BY <1>11 DEF EndUptime, EndCpuTimer, Goto
<1>12. CASE UNCHANGED vars
  BY <1>12 DEF vars
<1> QED
  BY <1>1, <1>2, <1>3, <1>4, <1>5, <1>6, <1>7, <1>8, <1>9, <1>10, <1>11,
     <1>12, Cases

(* No step makes the phases longer than the time.                          *)
LEMMA ElapsingStep ==
  ASSUME IInv, [Next]_vars
  PROVE  Elapsing'
<1> USE TimerAssumption DEF IInv, TypeOK, Control, Elapsing, Destroying,
        Reporting, Ending, Stopped, clockVars, reportVars, nameVars, sent
<1>1. CASE Tick
  BY <1>1 DEF Tick
<1>2. CASE Stop \/ Start \/ Resume
  BY <1>2 DEF Stop, Start, Resume, UserCall
<1>3. CASE Destroy
  BY <1>3 DEF Destroy, Goto
<1>4. ASSUME NEW i \in Ids \cup {NoId}, Phase(i) PROVE Elapsing'
  BY <1>4 DEF Phase, Goto
<1>5. CASE Reset \/ Signal
  BY <1>5 DEF Reset, Signal, Emit
<1>6. CASE HandlerReturns
  BY <1>6 DEF HandlerReturns, Continue, Throw
<1>7. CASE SampleThrows
  BY <1>7 DEF SampleThrows, Throw
<1>8. CASE Restore
  BY <1>8 DEF Restore, Goto
<1>9. CASE Log \/ Format
  BY <1>9 DEF Log, Format, Logged, Continue, Throw
<1>10. ASSUME NEW kept \in BOOLEAN, Sample(kept) PROVE Elapsing'
  BY <1>10 DEF Sample, Goto
<1>11. CASE EndUptime \/ EndCpuTimer
  BY <1>11 DEF EndUptime, EndCpuTimer, Goto
<1>12. CASE UNCHANGED vars
  BY <1>12 DEF vars
<1> QED
  BY <1>1, <1>2, <1>3, <1>4, <1>5, <1>6, <1>7, <1>8, <1>9, <1>10, <1>11,
     <1>12, Cases

(* Signals are sent in order; only three actions touch what they count.    *)
LEMMA SignallingStep ==
  ASSUME IInv, [Next]_vars
  PROVE  Signalling' /\ SignalsCountReports'
<1> USE TimerAssumption DEF IInv, TypeOK, Control, Signalling, Last,
        SignalsCountReports, Destroying, Reporting, Ending, reportVars, nameVars, sent
<1>1. CASE Tick
  BY <1>1 DEF Tick
<1>2. CASE Stop \/ Start \/ Resume
  BY <1>2 DEF Stop, Start, Resume, UserCall
<1>3. CASE Destroy
  BY <1>3 DEF Destroy, Goto
<1>4. ASSUME NEW i \in Ids \cup {NoId}, Phase(i)
      PROVE  Signalling' /\ SignalsCountReports'
  BY <1>4 DEF Phase, Goto
<1>5. CASE Reset
  <2>1. /\ signals' = Append(signals, 0)
        /\ stage' = stage /\ finals' = finals /\ logged' = logged
        /\ Destroying /\ pc' = "handler" /\ pc = "reset" /\ flags' = flags
    BY <1>5 DEF Reset, Emit
  <2>2. Len(signals') = Len(signals) + 1 /\ signals'[Len(signals')] = 0
        /\ \A i \in 1 .. Len(signals) : signals'[i] = signals[i]
    BY <2>1
  <2>3. Signalling'
    BY <2>1, <2>2
  <2>4. SignalsCountReports'
    BY <2>1, <2>2
  <2> QED
    BY <2>3, <2>4
<1>6. CASE Signal
  <2>1. /\ signals' = Append(signals, stage + 1)
        /\ stage' = stage + 1 /\ finals' = finals /\ logged' = logged
        /\ ~ Destroying /\ pc' = "handler" /\ pc = "signal" /\ flags' = flags
    BY <1>6 DEF Signal, Emit
  <2>2. Len(signals') = Len(signals) + 1
        /\ signals'[Len(signals')] = stage + 1
        /\ \A i \in 1 .. Len(signals) : signals'[i] = signals[i]
    BY <2>1
  <2>3. Signalling'
    BY <2>1, <2>2 DEF Totalling
  <2>4. /\ Len(signals) = stage /\ Len(signals') = stage + 1
        /\ Len(signals) = logged
        /\ \A i \in 1 .. stage : signals[i] = i
    BY <2>1, <2>2
  <2>5. \A i \in 1 .. stage + 1 : signals'[i] = i
    BY <2>1, <2>2, <2>4
  <2>6. signals'[Len(signals')] # 0 /\ pc' # "signal"
    BY <2>1, <2>2
  <2>7. SignalsCountReports'
    <3>1. /\ signals' # <<>> /\ Last' # 0 /\ logged' = logged /\ pc' # "signal"
          /\ Len(signals') = 1 + logged /\ \A i \in 1 .. Len(signals') : signals'[i] = i
          /\ logged \in Nat
      BY <2>1, <2>2, <2>4, <2>5, <2>6
    <3> HIDE DEF IInv, TypeOK, Signalling, Last, Control
    <3> QED
      BY <3>1 DEF SignalsCountReports
  <2> QED
    BY <2>3, <2>7
<1>7. CASE SampleThrows
  BY <1>7 DEF SampleThrows, Throw
<1>13. CASE HandlerReturns
  BY <1>13 DEF HandlerReturns, Continue, Throw
<1>8. CASE Restore
  BY <1>8 DEF Restore, Goto
<1>9. CASE Log \/ Format
  <2>1. signals' = signals /\ stage' = stage /\ pc \in {"log", "format"}
    BY <1>9 DEF Log, Format
  <2>2. \/ Logged
        \/ pc' = "format" /\ UNCHANGED <<logged, finals, flags>>
        \/ Throw /\ UNCHANGED <<logged, finals>>
    BY <1>9 DEF Log, Format, Continue
  <2>3. Signalling'
    BY <2>1, <2>2 DEF Logged, Continue, Throw, Totalling
  <2>4. CASE Destroying
    <3>1. pc' # "signal" /\ logged' = logged
      BY <2>1, <2>2, <2>4 DEF Logged, Continue, Throw
    <3>2. SignalsCountReports'
      BY <2>1, <2>4, <3>1
    <3> QED
      BY <2>3, <3>2
  <2>5. CASE ~ Destroying
    <3>0. signals[Len(signals)] # 0 /\ pc # "signal"
      BY <2>1, <2>5
    <3>1. Len(signals) = 1 + logged
      <4>1. SignalsCountReports
        BY Zenon
      <4>2. logged \in Nat /\ Len(signals) \in Nat
        OBVIOUS
      <4>3. signals # <<>>
        BY <2>1, Zenon
      <4> HIDE DEF IInv, TypeOK, Signalling, Control
      <4> QED
        BY <3>0, <4>1, <4>2, <4>3
    <3>2. \A i \in 1 .. Len(signals) : signals[i] = i
      BY <3>0
    <3>3. \/ logged' = logged + 1 /\ pc' = "signal"
          \/ logged' = logged /\ pc' # "signal"
      BY <2>2, <2>5 DEF Logged, Continue, Throw
    <3>4. SignalsCountReports'
      BY <2>1, <3>0, <3>1, <3>2, <3>3
    <3> QED
      BY <2>3, <3>4
  <2> QED
    BY <2>4, <2>5
<1>10. ASSUME NEW kept \in BOOLEAN, Sample(kept)
       PROVE  Signalling' /\ SignalsCountReports'
  BY <1>10 DEF Sample, Goto
<1>11. CASE EndUptime \/ EndCpuTimer
  BY <1>11 DEF EndUptime, EndCpuTimer, Goto
<1>12. CASE UNCHANGED vars
  BY <1>12 DEF vars
<1> QED
  BY <1>1, <1>2, <1>3, <1>4, <1>5, <1>6, <1>7, <1>8, <1>9, <1>10, <1>11,
     <1>12, <1>13, Cases

(* The total is reported by one destructor and m_os is given back.         *)
LEMMA TotallingStep ==
  ASSUME IInv, [Next]_vars
  PROVE  Totalling'
<1> USE DEF IInv, TypeOK, Control, Totalling, Destroying, Reporting, Ending,
        clockVars, reportVars, nameVars
<1>1. CASE Tick
  BY <1>1 DEF Tick
<1>2. CASE Stop \/ Start \/ Resume
  BY <1>2 DEF Stop, Start, Resume, UserCall
<1>3. CASE Destroy
  BY <1>3 DEF Destroy, Goto
<1>4. ASSUME NEW i \in Ids \cup {NoId}, Phase(i) PROVE Totalling'
  BY <1>4 DEF Phase, Goto
<1>5. CASE Reset \/ Signal
  BY <1>5 DEF Reset, Signal, Emit
<1>6. CASE HandlerReturns
  BY <1>6 DEF HandlerReturns, Continue, Throw
<1>7. CASE SampleThrows
  BY <1>7 DEF SampleThrows, Throw
<1>8. CASE Restore
  BY <1>8 DEF Restore, Goto
<1>9. CASE Log \/ Format
  BY <1>9 DEF Log, Format, Logged, Continue, Throw
<1>10. ASSUME NEW kept \in BOOLEAN, Sample(kept) PROVE Totalling'
  BY <1>10 DEF Sample, Goto
<1>11. CASE EndUptime \/ EndCpuTimer
  BY <1>11 DEF EndUptime, EndCpuTimer, Goto
<1>12. CASE UNCHANGED vars
  BY <1>12 DEF vars
<1> QED
  BY <1>1, <1>2, <1>3, <1>4, <1>5, <1>6, <1>7, <1>8, <1>9, <1>10, <1>11,
     <1>12, Cases

(* The suffix put on by a phase is taken off by the same phase.            *)
LEMMA NamingStep ==
  ASSUME IInv, [Next]_vars
  PROVE  Naming'
<1> USE TimerAssumption DEF IInv, TypeOK, Control, Naming,
        Destroying, Reporting, Ending, clockVars, reportVars, nameVars, sent
<1>0. Len(name) \in Nat /\ size \in Nat
  OBVIOUS
<1>1. CASE Tick
  BY <1>1 DEF Tick
<1>2. CASE Stop \/ Start \/ Resume
  BY <1>2 DEF Stop, Start, Resume, UserCall
<1>3. CASE Destroy
  BY <1>3 DEF Destroy, Goto
<1>4. ASSUME NEW i \in Ids \cup {NoId}, Phase(i)
      PROVE  Naming'
  BY <1>0, <1>4 DEF Phase, Goto
<1>5. CASE Reset \/ Signal
  <2>1. Len(name') = Len(name) /\ size' = size /\ flags' = flags /\ id' = id
        /\ pc' = "handler" /\ pc \in {"reset", "signal"}
    BY <1>5, CutProperties, Zenon DEF Reset, Signal, Emit
  <2> QED
    BY <1>0, <2>1
<1>6. CASE HandlerReturns
  <2>1. Len(name') = Len(name) /\ size' = size /\ id' = id /\ pc = "handler"
    BY <1>6, RestoreType, Zenon DEF HandlerReturns
  <2> QED
    BY <1>0, <1>6, <2>1 DEF HandlerReturns, Continue, Throw
<1>7. CASE SampleThrows
  BY <1>7 DEF SampleThrows, Throw
<1>8. CASE Restore
  <2>1. id # NoId => Len(name) > 0 /\ Len(name') = Len(name) - 1
    BY <1>0, <1>8, CutBack DEF Restore, Goto
  <2> QED
    BY <1>0, <1>8, <2>1 DEF Restore, Goto
<1>9. CASE Log \/ Format
  BY <1>9 DEF Log, Format, Logged, Continue, Throw
<1>10. ASSUME NEW kept \in BOOLEAN, Sample(kept) PROVE Naming'
  BY <1>10 DEF Sample, Goto
<1>11. CASE EndUptime \/ EndCpuTimer
  BY <1>11 DEF EndUptime, EndCpuTimer, Goto
<1>12. CASE UNCHANGED vars
  BY <1>12 DEF vars
<1> QED
  BY <1>1, <1>2, <1>3, <1>4, <1>5, <1>6, <1>7, <1>8, <1>9, <1>10, <1>11,
     <1>12, Cases

(* Steps that leave the name alone.                                        *)
LEMMA OtherSteps ==
  ASSUME [Next]_vars
  PROVE  \/ UNCHANGED nameVars /\ (pc' = "handler" <=> pc = "handler")
         \/ \E i \in Ids \cup {NoId} : Phase(i)
         \/ Reset \/ Signal \/ HandlerReturns \/ Restore
<1> USE DEF reportVars, Goto, Throw, Continue
<1>1. CASE Tick \/ Stop \/ Start \/ Resume
  BY <1>1 DEF Tick, Stop, Start, Resume, UserCall
<1>2. CASE Destroy \/ SampleThrows \/ Log \/ Format
  BY <1>2 DEF Destroy, SampleThrows, Log, Format, Logged
<1>3. CASE EndUptime \/ EndCpuTimer \/ \E kept \in BOOLEAN : Sample(kept)
  BY <1>3 DEF EndUptime, EndCpuTimer, Sample
<1>4. CASE UNCHANGED vars
  BY <1>4 DEF vars
<1> QED
  BY <1>1, <1>2, <1>3, <1>4, Cases

(* A phase appends an id and takes it off; the guard puts back what it took*)
LEMMA SpelledStep ==
  ASSUME IInv, [Next]_vars
  PROVE  Spelled'
<1>1. CASE UNCHANGED nameVars /\ (pc' = "handler" <=> pc = "handler")
  BY <1>1 DEF IInv, Spelled, Restored, NamesTimer, basename, nameVars
<1>2. ASSUME NEW i \in Ids \cup {NoId}, Phase(i) PROVE Spelled'
  <2>1. /\ pc = "user" /\ pc' = "log" /\ size' = size /\ name \in Seq(Chars)
        /\ name' = IF i = NoId THEN name ELSE Append(name, i)
        /\ NamesTimer(name) /\ size \in Nat
    BY <1>2, Widths DEF Phase, Goto, IInv, TypeOK, Spelled, Restored
  <2>2. CASE i = NoId
    BY <2>1, <2>2 DEF Spelled, Restored, NamesTimer
  <2>3. CASE i # NoId
    <3>1. i \in Ids /\ i \in Chars
      BY <1>2, <2>3 DEF Chars
    <3>2. /\ Len(name') = Len(name) + 1 /\ name'[Len(name) + 1] = i
          /\ \A j \in 1 .. Len(name) : name'[j] = name[j]
      BY <2>1, <2>3, <3>1, AppendProperties
    <3> QED
      BY <2>1, <3>1, <3>2 DEF Spelled, Restored, NamesTimer
  <2> QED
    BY <2>2, <2>3
<1>3. CASE Reset \/ Signal
  <2>1. CutName /\ pc' = "handler" /\ size' = size /\ pc # "handler"
    BY <1>3, Zenon DEF Reset, Signal, Emit
  <2>2. Restored' = name
    BY <2>1, CutAndRestored DEF IInv
  <2>3. NamesTimer(name)
    BY <2>1 DEF IInv, Spelled, Restored
  <2> QED
    BY <2>1, <2>2, <2>3 DEF Spelled, NamesTimer
<1>4. CASE HandlerReturns
  <2>1. pc = "handler" /\ pc' # "handler" /\ size' = size
    BY <1>4 DEF HandlerReturns, Continue, Throw
  <2>2. name' = Restored
    BY <1>4, <2>1, Zenon DEF HandlerReturns, RestoreName, Restored
  <2>3. Restored' = Restored
    BY <2>1, <2>2 DEF Restored
  <2> QED
    BY <2>1, <2>3 DEF IInv, Spelled, NamesTimer
<1>5. CASE Restore
  <2>1. /\ pc = "restore" /\ pc' # "handler" /\ size' = size
        /\ name' = IF id = NoId THEN name ELSE SubSeq(name, 1, Len(name) - 1)
        /\ name \in Seq(Chars) /\ NamesTimer(name) /\ size \in Nat
    BY <1>5, Widths DEF Restore, Goto, IInv, TypeOK, Spelled, Restored
  <2>2. CASE id = NoId
    BY <2>1, <2>2 DEF Spelled, Restored, NamesTimer
  <2>3. CASE id # NoId
    <3>1. Len(name) >= size + 1 /\ Len(name) \in Nat
      BY <2>1, <2>3 DEF IInv, Naming
    <3>2. PICK n \in Nat : n = Len(name) - 1
      BY <2>1, <3>1
    <3>3. /\ Len(SubSeq(name, 1, n)) = n
          /\ \A j \in 1 .. n : SubSeq(name, 1, n)[j] = name[j]
      <4>1. \A j \in 1 .. n : name[j] \in Chars
        BY <2>1, <3>2
      <4> QED
        BY <4>1, Beginning
    <3>4. Len(name') = n /\ \A j \in 1 .. n : name'[j] = name[j]
      BY <2>1, <2>3, <3>2, <3>3
    <3> QED
      BY <2>1, <3>1, <3>2, <3>4 DEF Spelled, Restored, NamesTimer
  <2> QED
    BY <2>2, <2>3
<1> QED
  BY <1>1, <1>2, <1>3, <1>4, <1>5, OtherSteps

(* Only two actions give the name away, and both cut it.                   *)
LEMMA HandingStep ==
  ASSUME IInv, [Next]_vars
  PROVE  Handing'
<1>1. CASE Reset \/ Signal
  <2>1. /\ handed' = handed \cup {CStr(name')} /\ CutName /\ size' = size
        /\ pc # "handler"
    BY <1>1, Zenon DEF Reset, Signal, Emit
  <2>2. NamesTimer(name)
    BY <2>1 DEF IInv, Spelled, Restored
  <2>3. CStr(name') = First(basename(size))
    BY <2>1, <2>2, CutGiven DEF IInv
  <2>4. CASE size < ShortRange
    <3>1. CStr(name') = given
      BY <2>3, <2>4, Widths DEF IInv, First, given
    <3> QED
      BY <2>1, <3>1, Zenon DEF IInv, Handing, given
  <2>5. CASE size >= ShortRange
    BY <2>1, <2>3, <2>5, Zenon DEF IInv, Handing, given, First, basename
  <2>6. size \in Nat /\ ShortRange \in Nat
    BY Widths, TimerAssumption DEF IInv
  <2> QED
    BY <2>4, <2>5, <2>6
<1>2. CASE handed' = handed /\ size' = size
  BY <1>2, Zenon DEF IInv, Handing, given, First
<1>3. (handed' = handed /\ size' = size) \/ Reset \/ Signal
  BY Cases, Zenon DEF vars, reportVars, nameVars, sent, Tick, Stop, Start,
     Resume, UserCall, Destroy, Phase, SampleThrows, Restore, Log, Format,
     Sample, HandlerReturns, EndUptime, EndCpuTimer
<1> QED
  BY <1>1, <1>2, <1>3

(* A sample is recorded under the name as it is then.                      *)
LEMMA KeysStep ==
  ASSUME IInv, [Next]_vars
  PROVE  KeysAreNames'
<1> USE DEF IInv
<1>1. size' = size /\ flags \subseteq flags'
  BY Cases, Zenon DEF vars, reportVars, nameVars, Tick, Stop, Start, Resume,
     UserCall, Destroy, Phase, Reset, Signal, Emit, HandlerReturns, Continue,
     Throw, SampleThrows, Restore, Log, Format, Logged, Sample, EndUptime,
     EndCpuTimer
<1>2. ASSUME NEW n, NamesTimer(n) PROVE NamesTimer(n)'
  BY <1>1, <1>2 DEF NamesTimer
<1>3. CASE keys' = keys
  BY <1>1, <1>2, <1>3, Zenon DEF KeysAreNames
<1>4. ASSUME NEW kept \in BOOLEAN, Sample(kept) PROVE KeysAreNames'
  <2>1. pc = "sample" /\ keys' \subseteq keys \cup {name} /\ flags' = flags
    BY <1>4 DEF Sample, Goto
  <2>2. NamesTimer(name)
    BY <2>1 DEF Spelled, Restored
  <2>3. "thrown" \notin flags => Len(name) =< size + 1
    BY Widths DEF Naming, TypeOK
  <2> HIDE DEF IInv
  <2> QED
    BY <1>1, <1>2, <2>1, <2>2, <2>3, Zenon DEF KeysAreNames, IInv
<1>5. keys' = keys \/ \E kept \in BOOLEAN : Sample(kept)
  BY Cases, Zenon DEF vars, reportVars, Tick, Stop, Start, Resume,
     UserCall, Destroy, Phase, Reset, Signal, Emit, HandlerReturns,
     SampleThrows, Restore, Log, Format, EndUptime, EndCpuTimer
<1> QED
  BY <1>3, <1>4, <1>5

-----------------------------------------------------------------------------
(* The strengthened invariant holds throughout the life of a timer.        *)
THEOREM Inductive == Spec => []IInv
<1>1. IInv /\ [Next]_vars => IInv'
  BY TypeStep, ControlStep, ElapsingStep, SignallingStep, TotallingStep,
     NamingStep, SpelledStep, HandingStep, KeysStep DEF IInv
<1> QED
  BY InitInv, <1>1, PTL DEF Spec

(* Every variable of the timer has its type (uptime.cpp, timing.cpp).      *)
THEOREM TypeCorrect == Spec => []TypeOK
<1>1. IInv => TypeOK
  BY DEF IInv
<1> QED
  BY Inductive, <1>1, PTL

(* No instant is recorded in two phases, whatever the user and the         *)
(* exceptions do (uptime.cpp:20-39).                                       *)
THEOREM PhasesAreDisjoint == Spec => []PhasesWithinTime
<1>1. IInv => PhasesWithinTime
  BY DEF IInv, Elapsing, PhasesWithinTime
<1> QED
  BY Inductive, <1>1, PTL

(* The total that the destructor reports covers the phases                 *)
(* (uptime.cpp:73-80).                                                     *)
THEOREM TotalCoversPhases == Spec => []PhasesWithinTotal
<1>1. IInv => PhasesWithinTotal
  BY DEF IInv, Elapsing, PhasesWithinTotal
<1> QED
  BY Inductive, <1>1, PTL

(* The signals are 1, 2, 3, ... with one more for each report, and nothing *)
(* after the 0 (timing.cpp:102, 152-173).                                  *)
THEOREM SignalsInOrder == Spec => []SignalsCountReports
<1>1. IInv => SignalsCountReports
  BY DEF IInv
<1> QED
  BY Inductive, <1>1, PTL

(* A running timer that is destroyed resets the signal before it reports   *)
(* its total (timing.cpp:89-93, 152-156).                                  *)
THEOREM ResetComesFirst == Spec => []ResetOnDestroy
<1>1. IInv => ResetOnDestroy
  BY DEF IInv, Control, Signalling, ResetOnDestroy, Destroying, Ending
<1> QED
  BY Inductive, <1>1, PTL

(* The three destructors of a timer report the total once at most, and a   *)
(* report leaves the timer its stream, whatever throws (uptime.cpp:7-10,   *)
(* 41-85).                                                                 *)
THEOREM TotalIsReportedOnce == Spec => []TotalReportedOnce
<1>1. IInv => TotalReportedOnce
  BY DEF IInv, TypeOK, Control, Totalling, TotalReportedOnce, Destroying,
     Ending
<1> QED
  BY Inductive, <1>1, PTL

(* Every signal carries the name the timer was given, cut by basename if it*)
(* is too long for an unsigned short, whatever phases and exceptions have  *)
(* made of the name, and the guard leaves the name as it was               *)
(* (timing.cpp:100-102, 144-173).                                          *)
THEOREM SignalsCarryTheName == Spec => []SignalsNameTheTimer
<1>1. IInv => SignalsNameTheTimer
  BY DEF IInv, Handing, Spelled, Restored, SignalsNameTheTimer
<1> QED
  BY Inductive, <1>1, PTL

(* Nothing is recorded under a name other than the one given, with ids, and*)
(* without an exception with one id at most (uptime.cpp:24-37).            *)
THEOREM NamesAreRestored == Spec => []KeysAreNames
<1>1. IInv => KeysAreNames
  BY DEF IInv
<1> QED
  BY Inductive, <1>1, PTL

=============================================================================

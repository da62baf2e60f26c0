------------------------- MODULE FioStabilityProofs -------------------------
(***************************************************************************)
(* What fio-test.sh measures and concludes, for any number of test types   *)
(* and disks, any TIMES_A_CYCLE and any number of windows, over any number *)
(* of runs, aborts and failures of help.py.                                *)
(***************************************************************************)
EXTENDS FioStability, FiniteSetTheorems, SequenceTheorems, TLAPS

Measuring == pc \in {"bind", "fio", "restore"}
Testing == Measuring \/ pc = "check"

(* The rounds (one sample of each mode) of the present type that are over.   *)
Rounds == IF Measuring /\ k = 0 THEN CycleTimes - left ELSE already

(* The loops: how many rounds are left, where ALREADY_EXE_TIMES stands, how  *)
(* many samples each file has, and that the window is full as long as        *)
(* help.py has not failed.                                                   *)
LoopsAgree ==
    /\ Measuring => /\ left \in 1..CycleTimes /\ file = 1
                    /\ k = 0 => already = 0
                    /\ k > 0 => left = 1
    /\ pc = "check" => left = 0 /\ mode = 1
    /\ Testing /\ type \notin errors /\ (Measuring => k > 0) =>
           already = CycleTimes + k - (IF Measuring THEN 1 ELSE 0)
    /\ Testing => \A m \in Modes :
           Len(data[type][m]) =
               Rounds + (IF m < mode \/ (m = mode /\ pc = "restore") THEN 1 ELSE 0)

(* The types the script has not come to have neither samples nor results.    *)
NotYetEmpty ==
    pc \in {"idle", "warm", "bind", "fio", "restore", "check"} =>
        \A t \in Types : t > type \/ (t = type /\ pc = "warm") =>
            data[t] = NoSamples /\ final[t] = <<>>

(* A template that was clean at the start is bound to the present mode and   *)
(* disk around fio, and clean outside performance_test.                      *)
CleanStaysClean ==
    pc # "aborted" => \A t \in Types \ stale :
        CASE t = type /\ pc = "bind" -> rw[t] = Placeholder /\ dev[t] \in {Placeholder, disk}
          [] t = type /\ pc \in {"fio", "restore"} -> rw[t] = mode /\ dev[t] = disk
          [] OTHER -> rw[t] = Placeholder /\ dev[t] = Placeholder

(* Any template: at fio it names a mode and a disk, and the mode is another  *)
(* than the loop's only at the first sample of the first mode.               *)
MisreadOnce ==
    /\ pc = "bind" => \/ rw[type] = Placeholder
                      \/ IF mode = 1 THEN data[type][1] = <<>> ELSE rw[type] = mode
    /\ pc \in {"fio", "restore"} => rw[type] # Placeholder /\ dev[type] # Placeholder
    /\ pc = "fio" => rw[type] = mode \/ (mode = 1 /\ data[type][1] = <<>>)
    /\ pc = "restore" => rw[type] = mode \/ mode = 1
    /\ pc = "check" => rw[type] = Placeholder
    /\ \A t \in Types, m \in Modes : \A j \in DOMAIN data[t][m] :
           data[t][m][j].rw # m => m = 1 /\ j = 1

(* final-result of a type on which help.py has not failed, as it grows.      *)
OneWindow(from) ==
    <<WindowLine(1, from, CycleTimes), WindowLine(2, from, CycleTimes), StartFrom(from)>>

ResultsGrow ==
    /\ \A t \in Types \ errors :
           \/ final[t] = <<>>
           \/ \E from \in 0..LastCheck :
                 final[t] \in {<<WindowLine(1, from, CycleTimes)>>, OneWindow(from)}
    /\ type \notin errors =>
           /\ Measuring \/ (pc = "check" /\ file = 1) => final[type] = <<>>
           /\ pc = "check" /\ file = 2 => final[type] = <<WindowLine(1, k, CycleTimes)>>

(* The inductive invariant.                                                  *)
IInv ==
    /\ TypeOK /\ LoopsAgree /\ NotYetEmpty /\ CleanStaysClean /\ MisreadOnce
    /\ SamplesLabelled /\ ResultsGrow /\ LeftForAReason

-----------------------------------------------------------------------------
(* The first type is one, and so is the one NextType goes on to.             *)
LEMMA TypesFacts ==
    /\ 1 \in Types /\ Types \subseteq Nat
    /\ \A t \in Types : t < NumTypes => t + 1 \in Types
    /\ \A t \in Types : ~(t < NumTypes) => t = NumTypes
    /\ \A t \in Types : 1 <= t /\ t <= NumTypes
BY NumTypesAssumption DEF Types

(* The seds write disks, modes and placeholders, and no disk or mode is a    *)
(* placeholder.                                                              *)
LEMMA SedFacts ==
    /\ Placeholder \notin Disks /\ Placeholder \notin Modes
    /\ \A line, by : Sed(line, line, by) = by
    /\ \A line, what, by : line # what => Sed(line, what, by) = line
BY DisksAssumption DEF Sed, Placeholder, Modes

(* What fio adds: one sample, at the end of one file, numbered like its      *)
(* place there.                                                              *)
LEMMA FioData ==
    ASSUME IInv, Fio
    PROVE  /\ Sample \in Samples
           /\ Sample.seq = Len(data[type][mode]) + 1
           /\ Sample.rw = rw[type] /\ Sample.dev = dev[type]
           /\ data' \in [Types -> [Modes -> Seq(Samples)]]
           /\ data'[type][mode] = Append(data[type][mode], Sample)
           /\ \A t \in Types, m \in Modes : t # type \/ m # mode => data'[t][m] = data[t][m]
           /\ \A t \in Types : t # type => data'[t] = data[t]
<1>0. /\ data \in [Types -> [Modes -> Seq(Samples)]] /\ type \in Types /\ mode \in Modes
      /\ left \in 0..CycleTimes /\ k \in 0..LastCheck /\ already \in Nat
      /\ rw \in [Types -> Modes \cup {Placeholder}] /\ dev \in [Types -> Disks \cup {Placeholder}]
      /\ pc = "fio" /\ CycleTimes \in Nat \ {0} /\ LastCheck \in Nat
      /\ data' = [data EXCEPT ![type][mode] = Append(@, Sample)]
    BY CycleTimesAssumption, LastCheckAssumption DEF IInv, TypeOK, Fio
<1>1. rw[type] \in Modes /\ dev[type] \in Disks
    BY <1>0 DEF IInv, MisreadOnce
<1>2. left \in 1..CycleTimes /\ (k = 0 => already = 0) /\ (k > 0 => left = 1)
    BY <1>0 DEF IInv, LoopsAgree, Measuring
<1>3. Len(data[type][mode]) = (IF k = 0 THEN CycleTimes - left ELSE already)
    BY <1>0 DEF IInv, LoopsAgree, Testing, Measuring, Rounds, Modes
<1>4. Sample.seq = Len(data[type][mode]) + 1
    BY <1>0, <1>2, <1>3 DEF Sample
<1>5. Sample \in Samples
    BY <1>0, <1>1, <1>2 DEF Sample, Samples
<1>6. Append(data[type][mode], Sample) \in Seq(Samples)
    BY <1>0, <1>5
<1>7. data'[type] = [data[type] EXCEPT ![mode] = Append(@, Sample)]
    BY <1>0
<1>8. data'[type] \in [Modes -> Seq(Samples)]
    BY <1>0, <1>6, <1>7
<1> QED BY <1>0, <1>1, <1>4, <1>5, <1>6, <1>7, <1>8 DEF Sample

(* Begin, for the first or the next type.                                    *)
LEMMA BeginTypes ==
    ASSUME NEW t \in Types, Begin(t)
    PROVE  /\ pc' \in {"warm", "bind"} /\ type' \in Types /\ mode' \in Modes
           /\ left' \in 0..CycleTimes /\ k' \in 0..LastCheck /\ file' \in Modes /\ already' \in Nat
BY CycleTimesAssumption, LastCheckAssumption DEF Begin, Modes

(* Where NextType leads, and that it keeps the types.                        *)
LEMMA NextTypeTypes ==
    ASSUME TypeOK, NextType
    PROVE  /\ pc' \in {"warm", "bind", "ended"} /\ type' \in Types /\ mode' \in Modes
           /\ left' \in 0..CycleTimes /\ k' \in 0..LastCheck /\ file' \in Modes /\ already' \in Nat
           /\ action' = action /\ disk' = disk
           /\ pc' = "ended" => type = NumTypes /\ type' = type
           /\ pc' # "ended" => type < NumTypes /\ Begin(type + 1)
<1>1. CASE type < NumTypes
    <2>1. type + 1 \in Types /\ Begin(type + 1) /\ action' = action /\ disk' = disk
        BY <1>1, TypesFacts DEF NextType, TypeOK
    <2> QED BY <1>1, <2>1, BeginTypes
<1>2. CASE ~(type < NumTypes)
    BY <1>2, TypesFacts DEF NextType, TypeOK
<1> QED BY <1>1, <1>2

(* Every step keeps the types.                                               *)
LEMMA TypeStep == IInv /\ [Next]_vars => TypeOK'
<1> SUFFICES ASSUME IInv, [Next]_vars
             PROVE  TypeOK'
    OBVIOUS
<1>0. TypeOK
    BY DEF IInv
<1>1. ASSUME NEW a \in {"all", "warmup", "test"}, NEW d \in Disks, Launch(a, d)
      PROVE  TypeOK'
    <2>1. Begin(1) /\ 1 \in Types
        BY <1>1, TypesFacts DEF Launch
    <2>2. data' \in [Types -> [Modes -> Seq(Samples)]]
        BY <1>1 DEF Launch, NoSamples
    <2>3. final' \in [Types -> Seq(Lines)]
        BY <1>1 DEF Launch
    <2>4. /\ pc' \in {"warm", "bind"} /\ type' \in Types /\ mode' \in Modes
          /\ left' \in 0..CycleTimes /\ k' \in 0..LastCheck /\ file' \in Modes /\ already' \in Nat
        BY <2>1, BeginTypes
    <2>5. action' \in {"none", "all", "warmup", "test"} /\ disk' \in Disks
        BY <1>1 DEF Launch
    <2>6. stale' \subseteq Types /\ errors' \subseteq Types /\ runs' \in Nat
        BY <1>0, <1>1 DEF Launch, TypeOK
    <2>7. rw' = rw /\ dev' = dev /\ warmdev' = warmdev /\ failures' = failures /\ aborts' = aborts
        BY <1>1 DEF Launch
    <2> QED BY <1>0, <2>2, <2>3, <2>4, <2>5, <2>6, <2>7 DEF TypeOK
<1>2. CASE Warmup
    BY <1>0, <1>2 DEF TypeOK, Warmup, Sed
<1>3. CASE Bind
    <2>1. rw' \in [Types -> Modes \cup {Placeholder}]
        BY <1>0, <1>3 DEF TypeOK, Bind, BoundMode, Sed
    <2>2. dev' \in [Types -> Disks \cup {Placeholder}]
        BY <1>0, <1>3 DEF TypeOK, Bind, Sed
    <2> QED BY <1>0, <1>3, <2>1, <2>2 DEF TypeOK, Bind
<1>4. CASE Fio
    <2>1. data' \in [Types -> [Modes -> Seq(Samples)]]
        BY <1>4, FioData
    <2> QED BY <1>0, <1>4, <2>1 DEF TypeOK, Fio
<1>5. CASE Restore
    <2>1. rw' \in [Types -> Modes \cup {Placeholder}]
        BY <1>0, <1>5 DEF TypeOK, Restore, RestoredMode, Sed
    <2>2. dev' \in [Types -> Disks \cup {Placeholder}]
        BY <1>0, <1>5 DEF TypeOK, Restore, RestoredDisk, Sed
    <2>3. left \in 1..CycleTimes
        BY <1>5 DEF IInv, LoopsAgree, Measuring, Restore
    <2>4. left' \in 0..CycleTimes /\ already' \in Nat /\ mode' \in Modes
          /\ pc' \in {"bind", "check"}
        BY <1>0, <1>5, <2>3, CycleTimesAssumption DEF TypeOK, Restore, Counted, Modes
    <2> QED BY <1>0, <1>5, <2>1, <2>2, <2>4 DEF TypeOK, Restore
<1>6. CASE Stable
    <2>1. WindowLine(file, k, Points) \in Lines
          /\ StartFrom(k) \in Lines
        BY <1>0, CycleTimesAssumption, LastCheckAssumption
        DEF TypeOK, WindowLine, StartFrom, Points, Modes, Lines
    <2>2. final' \in [Types -> Seq(Lines)]
        <3>1. final[type] \in Seq(Lines) /\ final \in [Types -> Seq(Lines)]
            BY <1>0 DEF TypeOK
        <3>2. Append(final[type], WindowLine(file, k, Points)) \in Seq(Lines)
              /\ final[type] \o <<WindowLine(file, k, Points), StartFrom(k)>> \in Seq(Lines)
            BY <2>1, <3>1
        <3> QED BY <1>6, <3>1, <3>2 DEF Stable
    <2>3. CASE file = 1
        BY <1>0, <1>6, <2>2, <2>3 DEF TypeOK, Stable, Modes
    <2>4. CASE file # 1
        <3>1. NextType
            BY <1>6, <2>4 DEF Stable
        <3> QED BY <1>0, <1>6, <2>2, <3>1, NextTypeTypes DEF TypeOK, Stable
    <2> QED BY <2>3, <2>4
<1>7. CASE Unstable
    <2>1. final' \in [Types -> Seq(Lines)]
        BY <1>0, <1>7 DEF TypeOK, Unstable, Rejected
    <2>2. CASE LastWindow
        <3>1. NextType
            BY <1>7, <2>2 DEF Unstable
        <3> QED BY <1>0, <1>7, <2>1, <3>1, NextTypeTypes DEF TypeOK, Unstable, Rejected
    <2>3. CASE ~LastWindow
        <3>1. k' \in 0..LastCheck /\ left' \in 0..CycleTimes
            BY <1>0, <1>7, <2>3, CycleTimesAssumption, LastCheckAssumption
            DEF TypeOK, Unstable, MoreSamples, LastWindow
        <3> QED BY <1>0, <1>7, <2>1, <2>3, <3>1 DEF TypeOK, Unstable, Rejected, MoreSamples, Modes
    <2> QED BY <2>2, <2>3
<1>8. CASE HelperFails
    <2>1. failures' \in Nat /\ errors' \subseteq Types
        BY <1>0, <1>8 DEF TypeOK, HelperFails
    <2>2. CASE k = LastCheck
        <3>1. NextType
            BY <1>8, <2>2 DEF HelperFails
        <3> QED BY <1>0, <1>8, <2>1, <3>1, NextTypeTypes DEF TypeOK, HelperFails
    <2>3. CASE k # LastCheck
        <3>1. k' \in 0..LastCheck
            BY <1>0, <1>8, <2>3, LastCheckAssumption DEF TypeOK, HelperFails
        <3> QED BY <1>0, <1>8, <2>1, <2>3, <3>1 DEF TypeOK, HelperFails, Modes
    <2> QED BY <2>2, <2>3
<1>9. CASE Abort
    BY <1>0, <1>9 DEF TypeOK, Abort
<1>10. CASE UNCHANGED vars
    BY <1>0, <1>10 DEF TypeOK, vars
<1> QED BY <1>1, <1>2, <1>3, <1>4, <1>5, <1>6, <1>7, <1>8, <1>9, <1>10 DEF Next, Progress

-----------------------------------------------------------------------------
(* The loops agree at the beginning of a type, and when the script ends.     *)
LEMMA BeginLoops ==
    ASSUME NEW t \in Types, Begin(t), data'[t] = NoSamples
    PROVE  LoopsAgree'
<1>1. /\ pc' \in {"warm", "bind"} /\ type' = t /\ mode' = 1 /\ left' = CycleTimes /\ k' = 0
      /\ file' = 1 /\ already' = 0 /\ \A m \in Modes : Len(data'[type'][m]) = 0
    BY DEF Begin, NoSamples
<1>2. CycleTimes \in 1..CycleTimes /\ CycleTimes - CycleTimes = 0
    BY CycleTimesAssumption
<1>3. CASE pc' = "warm"
    BY <1>3 DEF LoopsAgree, Testing, Measuring
<1>4. CASE pc' = "bind"
    <2>1. Rounds' = 0
        BY <1>1, <1>2, <1>4 DEF Rounds, Measuring
    <2>2. \A m \in Modes : ~(m < 1)
        BY DEF Modes
    <2> QED BY <1>1, <1>2, <1>4, <2>1, <2>2 DEF LoopsAgree, Testing, Measuring
<1> QED BY <1>1, <1>3, <1>4

(* The same when NextType goes on from the last window of a type.            *)
LEMMA NextTypeLoops ==
    ASSUME IInv, pc = "check", NextType, data' = data
    PROVE  LoopsAgree'
<1>1. CASE pc' = "ended"
    BY <1>1 DEF LoopsAgree, Testing, Measuring
<1>2. CASE pc' # "ended"
    <2>1. type \in Types /\ type < NumTypes /\ Begin(type + 1)
        BY <1>2, NextTypeTypes DEF IInv, TypeOK
    <2>2. type + 1 \in Types /\ type + 1 > type
        BY <2>1, TypesFacts
    <2>3. data'[type + 1] = NoSamples
        BY <2>2 DEF IInv, NotYetEmpty
    <2> QED BY <2>1, <2>2, <2>3, BeginLoops
<1> QED BY <1>1, <1>2

(* Every step keeps the loops in agreement with the files.                   *)
LEMMA LoopsStep == IInv /\ [Next]_vars => LoopsAgree'
<1> SUFFICES ASSUME IInv, [Next]_vars
             PROVE  LoopsAgree'
    OBVIOUS
<1>0. /\ type \in Types /\ mode \in {1, 2} /\ left \in 0..CycleTimes /\ k \in Nat /\ already \in Nat
      /\ CycleTimes \in Nat \ {0} /\ LoopsAgree
    BY CycleTimesAssumption, LastCheckAssumption DEF IInv, TypeOK, Modes
<1>1. ASSUME NEW a \in {"all", "warmup", "test"}, NEW d \in Disks, Launch(a, d)
      PROVE  LoopsAgree'
    <2>1. Begin(1) /\ 1 \in Types /\ data'[1] = NoSamples
        BY <1>1, TypesFacts DEF Launch
    <2> QED BY <2>1, BeginLoops
<1>2. CASE Warmup
    BY <1>2 DEF Warmup, LoopsAgree, Testing, Measuring
<1>3. CASE Bind
    BY <1>0, <1>3 DEF Bind, LoopsAgree, Testing, Measuring, Rounds
<1>4. CASE Fio
    <2>1. /\ pc = "fio" /\ pc' = "restore"
          /\ UNCHANGED <<type, mode, left, k, file, already, errors>>
        BY <1>4 DEF Fio
    <2>2. data'[type][mode] = Append(data[type][mode], Sample)
          /\ \A m \in Modes : m # mode => data'[type][m] = data[type][m]
        BY <1>0, <1>4, FioData
    <2>3. data[type][mode] \in Seq(Samples) /\ Sample \in Samples
        BY <1>4, FioData DEF IInv, TypeOK
    <2>4. Len(data'[type][mode]) = Len(data[type][mode]) + 1
        BY <2>2, <2>3
    <2>5. \A m \in Modes : Len(data[type][m]) = Rounds + (IF m < mode THEN 1 ELSE 0)
        BY <1>0, <2>1 DEF LoopsAgree, Testing, Measuring
    <2>6. Rounds' = Rounds /\ Rounds \in Int
        BY <1>0, <2>1 DEF Rounds, Measuring
    <2>7. \A m \in Modes : Len(data'[type][m]) = Rounds + (IF m < mode \/ m = mode THEN 1 ELSE 0)
        BY <1>0, <2>2, <2>4, <2>5, <2>6 DEF Modes
    <2> QED BY <1>0, <2>1, <2>6, <2>7 DEF LoopsAgree, Testing, Measuring
<1>5. CASE Restore
    <2>1. /\ pc = "restore" /\ left \in 1..CycleTimes /\ file = 1
          /\ k = 0 => already = 0
          /\ k > 0 => left = 1
          /\ type \notin errors /\ k > 0 => already = CycleTimes + k - 1
          /\ UNCHANGED <<type, k, file, data, errors>>
        BY <1>0, <1>5 DEF Restore, LoopsAgree, Testing, Measuring
    <2>2. \A m \in {1, 2} : Len(data[type][m]) = (IF k = 0 THEN CycleTimes - left ELSE already)
                                              + (IF m <= mode THEN 1 ELSE 0)
        BY <1>0, <2>1 DEF LoopsAgree, Testing, Measuring, Rounds, Modes
    <2>3. CASE mode = 1
        <3>1. mode' = 2 /\ pc' = "bind" /\ left' = left /\ already' = already
            BY <1>5, <2>3 DEF Restore
        <3> QED BY <1>0, <2>1, <2>2, <2>3, <3>1 DEF LoopsAgree, Testing, Measuring, Rounds, Modes
    <2>4. CASE mode = 2 /\ left > 1
        <3>1. mode' = 1 /\ pc' = "bind" /\ left' = left - 1 /\ already' = already
            BY <1>5, <2>4 DEF Restore
        <3>2. k = 0 /\ left - 1 \in 1..CycleTimes
            BY <1>0, <2>1, <2>4
        <3> QED BY <1>0, <2>1, <2>2, <2>4, <3>1, <3>2 DEF LoopsAgree, Testing, Measuring, Rounds, Modes
    <2>5. CASE mode = 2 /\ ~(left > 1)
        <3>1. mode' = 1 /\ pc' = "check" /\ left' = left - 1 /\ already' = Counted
            BY <1>5, <2>5 DEF Restore
        <3>2. left = 1
            BY <1>0, <2>1, <2>5
        <3> QED BY <1>0, <2>1, <2>2, <2>5, <3>1, <3>2
                DEF LoopsAgree, Testing, Measuring, Rounds, Modes, Counted
    <2> QED BY <1>0, <2>3, <2>4, <2>5
<1>6. CASE Stable
    <2>1. CASE file = 1
        BY <1>0, <1>6, <2>1 DEF Stable, LoopsAgree, Testing, Measuring, Rounds
    <2>2. CASE file # 1
        BY <1>6, <2>2, NextTypeLoops DEF Stable
    <2> QED BY <2>1, <2>2
<1>7. CASE Unstable
    <2>1. CASE LastWindow
        BY <1>7, <2>1, NextTypeLoops DEF Unstable, Rejected
    <2>2. CASE ~LastWindow
        <3>1. pc = "check" /\ pc' = "bind" /\ k' = k + 1 /\ file' = 1 /\ left' = 1
              /\ UNCHANGED <<type, mode, already, data, errors>>
            BY <1>7, <2>2 DEF Unstable, Rejected, MoreSamples
        <3> QED BY <1>0, <3>1 DEF LoopsAgree, Testing, Measuring, Rounds
    <2> QED BY <2>1, <2>2
<1>8. CASE HelperFails
    <2>1. CASE k = LastCheck
        BY <1>8, <2>1, NextTypeLoops DEF HelperFails
    <2>2. CASE k # LastCheck
        <3>1. pc = "check" /\ pc' = "check" /\ k' = k + 1 /\ type' \in errors'
              /\ UNCHANGED <<type, mode, left, already, data>>
            BY <1>8, <2>2 DEF HelperFails
        <3> QED BY <1>0, <3>1 DEF LoopsAgree, Testing, Measuring, Rounds
    <2> QED BY <2>1, <2>2
<1>9. CASE Abort
    BY <1>9 DEF Abort, LoopsAgree, Testing, Measuring
<1>10. CASE UNCHANGED vars
    BY <1>0, <1>10 DEF vars, LoopsAgree, Testing, Measuring, Rounds
<1> QED BY <1>1, <1>2, <1>3, <1>4, <1>5, <1>6, <1>7, <1>8, <1>9, <1>10 DEF Next, Progress

(* The types to come stay empty: one case per kind of step.                  *)
LEMMA NotYetStep == IInv /\ [Next]_vars => NotYetEmpty'
<1> SUFFICES ASSUME IInv, [Next]_vars
             PROVE  NotYetEmpty'
    OBVIOUS
<1>0. type \in Types /\ NotYetEmpty /\ Types \subseteq Nat
    BY TypesFacts DEF IInv, TypeOK
<1>1. ASSUME NEW a \in {"all", "warmup", "test"}, NEW d \in Disks, Launch(a, d)
      PROVE  NotYetEmpty'
    BY <1>1 DEF Launch, NotYetEmpty
<1>2. CASE Warmup \/ Abort
    BY <1>2 DEF Warmup, Abort, NotYetEmpty
<1>3. CASE Bind \/ Restore
    <2>1. pc \in {"bind", "restore"} /\ pc' \in {"bind", "fio", "check"}
          /\ UNCHANGED <<type, data, final>>
        BY <1>3 DEF Bind, Restore
    <2> QED BY <1>0, <2>1 DEF NotYetEmpty
<1>4. CASE Fio
    <2>1. pc = "fio" /\ pc' = "restore" /\ UNCHANGED <<type, final>>
        BY <1>4 DEF Fio
    <2>2. \A t \in Types : t # type => data'[t] = data[t]
        BY <1>4, FioData
    <2>3. ASSUME NEW t \in Types, t > type
          PROVE  data'[t] = NoSamples /\ final'[t] = <<>>
        <3>1. t # type /\ data[t] = NoSamples /\ final[t] = <<>>
            BY <1>0, <2>1, <2>3 DEF NotYetEmpty
        <3> QED BY <2>1, <2>2, <3>1
    <2> QED BY <2>1, <2>3 DEF NotYetEmpty
<1>5. ASSUME pc = "check", NextType, data' = data,
             \A t \in Types : t # type => final'[t] = final[t]
      PROVE  NotYetEmpty'
    <2>1. CASE pc' = "ended"
        BY <2>1 DEF NotYetEmpty
    <2>2. CASE pc' # "ended"
        <3>1. type' = type + 1
            BY <1>5, <2>2, NextTypeTypes DEF IInv, Begin
        <3> QED BY <1>0, <1>5, <3>1 DEF NotYetEmpty
    <2> QED BY <2>1, <2>2
<1>6. CASE Stable
    <2>1. pc = "check" /\ data' = data /\ \A t \in Types : t # type => final'[t] = final[t]
        BY <1>6 DEF IInv, TypeOK, Stable
    <2>2. CASE file = 1
        BY <1>0, <1>6, <2>1, <2>2 DEF Stable, NotYetEmpty
    <2>3. CASE file # 1
        BY <1>5, <1>6, <2>1, <2>3 DEF Stable
    <2> QED BY <2>2, <2>3
<1>7. CASE Unstable
    <2>1. pc = "check" /\ data' = data /\ \A t \in Types : t # type => final'[t] = final[t]
        BY <1>7 DEF IInv, TypeOK, Unstable, Rejected
    <2>2. CASE LastWindow
        BY <1>5, <1>7, <2>1, <2>2 DEF Unstable
    <2>3. CASE ~LastWindow
        BY <1>0, <1>7, <2>1, <2>3 DEF Unstable, MoreSamples, NotYetEmpty
    <2> QED BY <2>2, <2>3
<1>8. CASE HelperFails
    <2>1. pc = "check" /\ data' = data /\ final' = final
        BY <1>8 DEF HelperFails
    <2>2. CASE k = LastCheck
        BY <1>5, <1>8, <2>1, <2>2 DEF HelperFails
    <2>3. CASE k # LastCheck
        BY <1>0, <1>8, <2>1, <2>3 DEF HelperFails, NotYetEmpty
    <2> QED BY <2>2, <2>3
<1>9. CASE UNCHANGED vars
    BY <1>0, <1>9 DEF vars, NotYetEmpty
<1> QED BY <1>1, <1>2, <1>3, <1>4, <1>6, <1>7, <1>8, <1>9 DEF Next, Progress

-----------------------------------------------------------------------------
(* A clean template is bound and restored as the seds say.                   *)
LEMMA CleanStep == IInv /\ [Next]_vars => CleanStaysClean'
<1> SUFFICES ASSUME IInv, [Next]_vars
             PROVE  CleanStaysClean'
    OBVIOUS
<1>0. /\ type \in Types /\ mode \in Modes /\ disk \in Disks /\ CleanStaysClean
      /\ rw \in [Types -> Modes \cup {Placeholder}] /\ dev \in [Types -> Disks \cup {Placeholder}]
      /\ Placeholder \notin Disks /\ Placeholder \notin Modes
    BY SedFacts DEF IInv, TypeOK
<1>1. ASSUME NEW a \in {"all", "warmup", "test"}, NEW d \in Disks, Launch(a, d)
      PROVE  CleanStaysClean'
    <2>1. pc' \in {"warm", "bind"} /\ rw' = rw /\ dev' = dev
          /\ \A t \in Types \ stale' : rw[t] = Placeholder /\ dev[t] = Placeholder
        BY <1>1 DEF Launch, Begin
    <2> QED BY <2>1 DEF CleanStaysClean
<1>2. CASE Warmup \/ Abort
    BY <1>2 DEF Warmup, Abort, CleanStaysClean
<1>3. CASE Bind
    BY <1>0, <1>3 DEF Bind, BoundMode, Sed, CleanStaysClean
<1>4. CASE Fio
    BY <1>0, <1>4 DEF Fio, CleanStaysClean
<1>5. CASE Restore
    <2>1. /\ pc = "restore" /\ pc' \in {"bind", "check"} /\ UNCHANGED <<type, disk, stale>>
          /\ rw' = [rw EXCEPT ![type] = Sed(@, mode, Placeholder)]
          /\ pc' = "bind" => dev' = dev
          /\ pc' = "check" => dev' = [dev EXCEPT ![type] = Sed(@, disk, Placeholder)]
        BY <1>5 DEF Restore, RestoredMode, RestoredDisk
    <2> QED BY <1>0, <2>1 DEF Sed, CleanStaysClean
<1>6. ASSUME pc = "check", pc' \in {"warm", "bind", "check", "ended"},
             UNCHANGED <<rw, dev, disk, stale>>
      PROVE  CleanStaysClean'
    BY <1>0, <1>6 DEF CleanStaysClean
<1>7. CASE Stable \/ Unstable \/ HelperFails
    <2>1. pc = "check" /\ UNCHANGED <<rw, dev, stale>>
        BY <1>7 DEF Stable, Unstable, Rejected, HelperFails
    <2>2. NextType \/ (pc' \in {"bind", "check"} /\ disk' = disk)
        BY <1>7, <2>1 DEF Stable, Unstable, MoreSamples, HelperFails
    <2>3. pc' \in {"warm", "bind", "check", "ended"} /\ disk' = disk
        BY <2>2, NextTypeTypes DEF IInv
    <2> QED BY <1>6, <2>1, <2>3
<1>8. CASE UNCHANGED vars
    BY <1>0, <1>8 DEF vars, CleanStaysClean
<1> QED BY <1>1, <1>2, <1>3, <1>4, <1>5, <1>7, <1>8 DEF Next, Progress

(* A template found bound to a mode misleads fio once.                       *)
LEMMA MisreadStep == IInv /\ [Next]_vars => MisreadOnce'
<1> SUFFICES ASSUME IInv, [Next]_vars
             PROVE  MisreadOnce'
    OBVIOUS
<1> DEFINE Early(d) == \A t \in Types, m \in Modes : \A j \in DOMAIN d[t][m] :
                           d[t][m][j].rw # m => m = 1 /\ j = 1
<1>0. /\ type \in Types /\ mode \in {1, 2} /\ Modes = {1, 2} /\ disk \in Disks
      /\ rw \in [Types -> Modes \cup {Placeholder}] /\ dev \in [Types -> Disks \cup {Placeholder}]
      /\ Placeholder \notin Disks /\ Placeholder \notin Modes
      /\ MisreadOnce /\ Early(data)
    BY SedFacts DEF IInv, TypeOK, Modes, MisreadOnce
<1>1. ASSUME NEW t \in Types, Begin(t), data'[t] = NoSamples, Early(data')
      PROVE  MisreadOnce'
    <2>1. pc' \in {"warm", "bind"} /\ type' = t /\ mode' = 1 /\ data'[t][1] = <<>>
        BY <1>0, <1>1 DEF Begin, NoSamples
    <2> QED BY <1>1, <2>1 DEF MisreadOnce
<1>2. ASSUME NEW a \in {"all", "warmup", "test"}, NEW d \in Disks, Launch(a, d)
      PROVE  MisreadOnce'
    <2>1. Begin(1) /\ 1 \in Types /\ data'[1] = NoSamples
        BY <1>2, TypesFacts DEF Launch
    <2>2. Early(data')
        BY <1>2 DEF Launch, NoSamples
    <2> QED BY <1>1, <2>1, <2>2
<1>3. CASE Warmup \/ Abort
    BY <1>0, <1>3 DEF Warmup, Abort, MisreadOnce
<1>4. CASE Bind
    <2>1. pc = "bind" /\ pc' = "fio" /\ UNCHANGED <<type, mode, data>>
          /\ rw'[type] = Sed(rw[type], Placeholder, mode)
          /\ dev'[type] = Sed(dev[type], Placeholder, disk)
        BY <1>0, <1>4 DEF Bind, BoundMode
    <2> QED BY <1>0, <2>1 DEF Sed, MisreadOnce
<1>5. CASE Fio
    <2>1. /\ pc = "fio" /\ pc' = "restore" /\ UNCHANGED <<type, mode, rw, dev>>
          /\ rw[type] # Placeholder /\ dev[type] # Placeholder
          /\ rw[type] = mode \/ (mode = 1 /\ data[type][1] = <<>>)
        BY <1>0, <1>5 DEF Fio, MisreadOnce
    <2>2. Early(data')
        <3> SUFFICES ASSUME NEW t \in Types, NEW m \in Modes, NEW j \in DOMAIN data'[t][m],
                            data'[t][m][j].rw # m
                     PROVE  m = 1 /\ j = 1
            OBVIOUS
        <3>1. CASE t # type \/ m # mode
            <4>1. data'[t][m] = data[t][m]
                BY <1>5, <3>1, FioData
            <4> QED BY <1>0, <4>1
        <3>2. CASE t = type /\ m = mode
            <4>1. data'[t][m] = Append(data[type][mode], Sample) /\ data[type][mode] \in Seq(Samples)
                  /\ Sample \in Samples /\ Sample.rw = rw[type]
                BY <1>5, <3>2, FioData DEF IInv, TypeOK
            <4>2. CASE j \in DOMAIN data[type][mode]
                <5>1. data'[t][m][j] = data[type][mode][j]
                    BY <4>1, <4>2
                <5> QED BY <1>0, <3>2, <4>2, <5>1
            <4>3. CASE j \notin DOMAIN data[type][mode]
                <5>1. j = Len(data[type][mode]) + 1 /\ data'[t][m][j] = Sample
                    BY <4>1, <4>3
                <5>2. mode = 1 /\ data[type][1] = <<>>
                    BY <2>1, <3>2, <4>1, <5>1
                <5> QED BY <3>2, <5>1, <5>2
            <4> QED BY <4>2, <4>3
        <3> QED BY <3>1, <3>2
    <2> QED BY <2>1, <2>2 DEF MisreadOnce
<1>6. CASE Restore
    <2>1. /\ pc = "restore" /\ pc' \in {"bind", "check"} /\ UNCHANGED <<type, data>>
          /\ mode = 1 => mode' = 2 /\ pc' = "bind"
          /\ rw'[type] = Sed(rw[type], mode, Placeholder)
          /\ rw[type] \in Modes /\ (rw[type] = mode \/ mode = 1)
        BY <1>0, <1>6 DEF Restore, RestoredMode, MisreadOnce
    <2> QED BY <1>0, <2>1 DEF Sed, MisreadOnce
<1>7. ASSUME pc = "check", NextType, data' = data
      PROVE  MisreadOnce'
    <2>1. CASE pc' = "ended"
        BY <1>0, <1>7, <2>1 DEF MisreadOnce
    <2>2. CASE pc' # "ended"
        <3>1. type < NumTypes /\ Begin(type + 1)
            BY <1>7, <2>2, NextTypeTypes DEF IInv
        <3>2. type + 1 \in Types /\ type + 1 > type
            BY <1>0, <3>1, TypesFacts
        <3>3. data'[type + 1] = NoSamples
            BY <1>7, <3>2 DEF IInv, NotYetEmpty
        <3> QED BY <1>0, <1>1, <1>7, <3>1, <3>2, <3>3
    <2> QED BY <2>1, <2>2
<1>8. CASE Stable \/ Unstable \/ HelperFails
    <2>1. pc = "check" /\ UNCHANGED <<rw, data>>
        BY <1>8 DEF Stable, Unstable, Rejected, HelperFails
    <2>2. NextType \/ (pc' \in {"bind", "check"} /\ type' = type)
        BY <1>8, <2>1 DEF Stable, Unstable, MoreSamples, HelperFails
    <2> QED BY <1>0, <1>7, <2>1, <2>2 DEF MisreadOnce
<1>9. CASE UNCHANGED vars
    BY <1>0, <1>9 DEF vars, MisreadOnce
<1> QED BY <1>2, <1>3, <1>4, <1>5, <1>6, <1>8, <1>9 DEF Next, Progress

(* The samples of a clean template carry the right mode, disk and number.    *)
LEMMA LabelledStep == IInv /\ [Next]_vars => SamplesLabelled'
<1> SUFFICES ASSUME IInv, [Next]_vars
             PROVE  SamplesLabelled'
    OBVIOUS
<1>0. SamplesLabelled /\ TypeOK
    BY DEF IInv
<1>1. ASSUME NEW a \in {"all", "warmup", "test"}, NEW d \in Disks, Launch(a, d)
      PROVE  SamplesLabelled'
    BY <1>1 DEF Launch, NoSamples, SamplesLabelled
<1>2. CASE Fio
    <2> SUFFICES ASSUME NEW t \in Types \ stale, NEW m \in Modes, NEW j \in DOMAIN data'[t][m]
                 PROVE  data'[t][m][j] = [rw |-> m, dev |-> disk, seq |-> j]
        BY <1>2 DEF Fio, SamplesLabelled
    <2>1. CASE t # type \/ m # mode
        <3>1. data'[t][m] = data[t][m]
            BY <1>2, <2>1, FioData
        <3> QED BY <1>0, <3>1 DEF SamplesLabelled
    <2>2. CASE t = type /\ m = mode
        <3>1. /\ data'[t][m] = Append(data[t][m], Sample) /\ data[t][m] \in Seq(Samples)
              /\ Sample \in Samples /\ Sample.seq = Len(data[t][m]) + 1
              /\ Sample.rw = rw[type] /\ Sample.dev = dev[type]
            BY <1>0, <1>2, <2>2, FioData DEF TypeOK
        <3>2. rw[type] = mode /\ dev[type] = disk
            BY <1>0, <1>2, <2>2 DEF IInv, CleanStaysClean, Fio, TypeOK
        <3>3. CASE j \in DOMAIN data[t][m]
            <4>1. data'[t][m][j] = data[t][m][j]
                BY <3>1, <3>3
            <4> QED BY <1>0, <3>3, <4>1 DEF SamplesLabelled
        <3>4. CASE j \notin DOMAIN data[t][m]
            <4>1. j = Len(data[t][m]) + 1 /\ data'[t][m][j] = Sample
                BY <3>1, <3>4
            <4> QED BY <2>2, <3>1, <3>2, <4>1 DEF Samples
        <3> QED BY <3>3, <3>4
    <2> QED BY <2>1, <2>2
<1>3. CASE Warmup \/ Bind \/ Restore \/ Abort
    BY <1>0, <1>3 DEF Warmup, Bind, Restore, Abort, SamplesLabelled
<1>4. CASE Stable \/ Unstable \/ HelperFails
    <2>1. UNCHANGED <<data, stale>> /\ (NextType \/ disk' = disk)
        BY <1>4 DEF Stable, Unstable, Rejected, MoreSamples, HelperFails
    <2> QED BY <1>0, <2>1, NextTypeTypes DEF SamplesLabelled
<1>5. CASE UNCHANGED vars
    BY <1>0, <1>5 DEF vars, SamplesLabelled
<1> QED BY <1>1, <1>2, <1>3, <1>4, <1>5 DEF Next, Progress

-----------------------------------------------------------------------------
(* While help.py has not failed, the window it looks at is full, and both    *)
(* files end with it.                                                        *)
LEMMA WindowFull ==
    ASSUME IInv, pc = "check", type \notin errors
    PROVE  Points = CycleTimes /\ \A m \in Modes : Len(data[type][m]) = CycleTimes + k
<1>1. CycleTimes \in Nat /\ k \in Nat /\ file \in Modes /\ Modes = {1, 2} /\ already \in Nat
    BY CycleTimesAssumption, LastCheckAssumption DEF IInv, TypeOK, Modes
<1>2. already = CycleTimes + k /\ mode = 1
    BY <1>1 DEF IInv, LoopsAgree, Testing, Measuring
<1>3. \A m \in Modes : Len(data[type][m]) = already
    BY <1>1, <1>2 DEF IInv, LoopsAgree, Testing, Measuring, Rounds
<1> QED BY <1>1, <1>2, <1>3 DEF Points

(* The lines of a closed result.                                             *)
LEMMA ThreeLines ==
    ASSUME NEW a, NEW b, NEW c
    PROVE  <<a>> \o <<b, c>> = <<a, b, c>>
<1> DEFINE S == {a, b, c}
<1>1. <<a>> \in Seq(S) /\ <<b, c>> \in Seq(S) /\ <<a, b, c>> \in Seq(S)
    OBVIOUS
<1>2. Len(<<a>>) = 1 /\ Len(<<b, c>>) = 2 /\ Len(<<a, b, c>>) = 3
    OBVIOUS
<1> HIDE DEF S
<1>3. /\ <<a>> \o <<b, c>> \in Seq(S) /\ Len(<<a>> \o <<b, c>>) = 3
      /\ \A i \in 1..3 : (<<a>> \o <<b, c>>)[i] = IF i <= 1 THEN <<a>>[i] ELSE <<b, c>>[i - 1]
    BY <1>1, <1>2, ConcatProperties
<1>4. \A i \in 1..3 : (<<a>> \o <<b, c>>)[i] = <<a, b, c>>[i]
    BY <1>3
<1> QED BY <1>1, <1>2, <1>3, <1>4, SeqEqual

(* final-result grows line by line, and starts anew with each window.        *)
LEMMA ResultsStep == IInv /\ [Next]_vars => ResultsGrow'
<1> SUFFICES ASSUME IInv, [Next]_vars
             PROVE  ResultsGrow'
    OBVIOUS
<1> DEFINE Shape(line) == \/ line = <<>>
                          \/ \E from \in 0..LastCheck :
                                line \in {<<WindowLine(1, from, CycleTimes)>>, OneWindow(from)}
<1>0. /\ type \in Types /\ file \in {1, 2} /\ k \in 0..LastCheck /\ ResultsGrow
      /\ final \in [Types -> Seq(Lines)] /\ \A t \in Types \ errors : Shape(final[t])
    BY DEF IInv, TypeOK, Modes, ResultsGrow
<1>1. ASSUME NEW a \in {"all", "warmup", "test"}, NEW d \in Disks, Launch(a, d)
      PROVE  ResultsGrow'
    <2>1. \A t \in Types : final'[t] = <<>>
        BY <1>1 DEF Launch
    <2>2. type' \in Types /\ pc' \in {"warm", "bind"}
        BY <1>1, TypesFacts, BeginTypes DEF Launch
    <2> QED BY <2>1, <2>2 DEF ResultsGrow, Measuring
<1>2. CASE Warmup \/ Bind \/ Fio \/ Restore \/ Abort
    <2>1. /\ UNCHANGED <<type, file, final, errors>>
          /\ pc' \in {"bind", "fio", "restore", "check", "aborted"}
          /\ Measuring \/ pc' = "aborted"
        BY <1>2 DEF Warmup, Bind, Fio, Restore, Abort, Measuring
    <2>2. Measuring => file = 1
        BY DEF IInv, LoopsAgree
    <2> QED BY <1>0, <2>1, <2>2 DEF ResultsGrow, Measuring
<1>3. ASSUME pc = "check", NextType, \A t \in Types \ errors' : Shape(final'[t]),
             \A t \in Types : t # type => final'[t] = final[t]
      PROVE  ResultsGrow'
    <2>1. CASE pc' = "ended"
        BY <1>3, <2>1 DEF ResultsGrow, Measuring
    <2>2. CASE pc' # "ended"
        <3>1. type' = type + 1 /\ type < NumTypes /\ pc' \in {"warm", "bind"}
            BY <1>3, <2>2, NextTypeTypes DEF IInv, Begin
        <3>2. type + 1 \in Types /\ type + 1 > type /\ type + 1 # type
            BY <1>0, <3>1, TypesFacts
        <3>3. final'[type'] = <<>>
            BY <1>3, <3>1, <3>2 DEF IInv, NotYetEmpty
        <3> QED BY <1>3, <3>1, <3>3 DEF ResultsGrow, Measuring
    <2> QED BY <2>1, <2>2
<1>4. CASE Stable
    <2>1. pc = "check" /\ errors' = errors
        BY <1>4 DEF Stable
    <2>2. CASE file = 1
        <3>1. /\ UNCHANGED <<pc, type, k>> /\ file' = 2
              /\ final' = [final EXCEPT ![type] = Append(@, WindowLine(1, k, Points))]
            BY <1>4, <2>2 DEF Stable
        <3>2. ASSUME type \notin errors
              PROVE  final'[type] = <<WindowLine(1, k, CycleTimes)>>
            <4>1. final[type] = <<>> /\ Points = CycleTimes
                BY <1>0, <2>1, <2>2, <3>2, WindowFull DEF ResultsGrow
            <4> QED BY <1>0, <3>1, <4>1
        <3>3. \A t \in Types \ errors : Shape(final'[t])
            BY <1>0, <3>1, <3>2
        <3> QED BY <2>1, <3>1, <3>2, <3>3 DEF ResultsGrow, Measuring
    <2>3. CASE file # 1
        <3>1. /\ NextType /\ file = 2
              /\ final' = [final EXCEPT ![type] = @ \o <<WindowLine(2, k, Points), StartFrom(k)>>]
            BY <1>0, <1>4, <2>3 DEF Stable
        <3>2. ASSUME type \notin errors
              PROVE  final'[type] = OneWindow(k)
            <4>1. final[type] = <<WindowLine(1, k, CycleTimes)>> /\ Points = CycleTimes
                BY <1>0, <2>1, <3>1, <3>2, WindowFull DEF ResultsGrow
            <4>2. final'[type] = <<WindowLine(1, k, CycleTimes)>>
                                     \o <<WindowLine(2, k, CycleTimes), StartFrom(k)>>
                BY <1>0, <3>1, <4>1
            <4> QED BY <4>2, ThreeLines DEF OneWindow
        <3>3. \A t \in Types \ errors : Shape(final'[t])
            BY <1>0, <3>1, <3>2
        <3>4. \A t \in Types : t # type => final'[t] = final[t]
            BY <1>0, <3>1
        <3> QED BY <1>3, <2>1, <3>1, <3>3, <3>4
    <2> QED BY <2>2, <2>3
<1>5. CASE Unstable
    <2>1. /\ pc = "check" /\ errors' = errors /\ final'[type] = <<>>
          /\ \A t \in Types : t # type => final'[t] = final[t]
        BY <1>0, <1>5 DEF Unstable, Rejected
    <2>2. \A t \in Types \ errors' : Shape(final'[t])
        BY <1>0, <2>1
    <2>3. CASE LastWindow
        BY <1>3, <1>5, <2>1, <2>2, <2>3 DEF Unstable
    <2>4. CASE ~LastWindow
        <3>1. pc' = "bind" /\ type' = type
            BY <1>5, <2>4 DEF Unstable, MoreSamples
        <3> QED BY <2>1, <2>2, <3>1 DEF ResultsGrow, Measuring
    <2> QED BY <2>3, <2>4
<1>6. CASE HelperFails
    <2>1. pc = "check" /\ errors' = errors \cup {type} /\ final' = final
        BY <1>6 DEF HelperFails
    <2>2. \A t \in Types \ errors' : Shape(final'[t])
        BY <1>0, <2>1
    <2>3. CASE k = LastCheck
        BY <1>3, <1>6, <2>1, <2>2, <2>3 DEF HelperFails
    <2>4. CASE k # LastCheck
        <3>1. type' = type
            BY <1>6, <2>4 DEF HelperFails
        <3> QED BY <2>1, <2>2, <3>1 DEF ResultsGrow
    <2> QED BY <2>3, <2>4
<1>7. CASE UNCHANGED vars
    BY <1>0, <1>7 DEF vars, ResultsGrow, Measuring
<1> QED BY <1>1, <1>2, <1>4, <1>5, <1>6, <1>7 DEF Next, Progress

(* A type is left when its result is closed or the windows are used up.      *)
LEMMA LeftStep == IInv /\ [Next]_vars => LeftForAReason'
<1> SUFFICES ASSUME IInv, [Next]_vars
             PROVE  LeftForAReason'
    OBVIOUS
<1> DEFINE Reason(t, f, d) == \/ f[t] # <<>> /\ f[t][Len(f[t])].mode = 0
                              \/ f[t] = <<>> /\ \A m \in Modes : Len(d[t][m]) = CycleTimes + LastCheck
<1>0. /\ type \in Types /\ LeftForAReason /\ file \in {1, 2} /\ Types \subseteq Nat
      /\ final \in [Types -> Seq(Lines)]
      /\ pc \notin {"idle", "aborted", "ended"} =>
             \A t \in Types \ errors : t < type => Reason(t, final, data)
      /\ pc = "ended" => \A t \in Types \ errors : Reason(t, final, data)
    BY TypesFacts DEF IInv, TypeOK, Modes, LeftForAReason, Closed
<1>1. ASSUME pc' \notin {"idle", "aborted", "ended"},
             \A t \in Types \ errors' : t < type' => Reason(t, final', data')
      PROVE  LeftForAReason'
    BY <1>1 DEF LeftForAReason, Closed
<1>2. ASSUME NEW a \in {"all", "warmup", "test"}, NEW d \in Disks, Launch(a, d)
      PROVE  LeftForAReason'
    <2>1. type' = 1 /\ pc' \in {"warm", "bind"} /\ \A t \in Types : ~(t < 1)
        BY <1>2, TypesFacts DEF Launch, Begin
    <2> QED BY <1>1, <2>1
<1>3. CASE Warmup \/ Abort
    BY <1>3 DEF Warmup, Abort, LeftForAReason
<1>4. CASE Bind \/ Restore
    <2>1. UNCHANGED <<type, final, errors, data>> /\ pc \in {"bind", "restore"}
          /\ pc' \in {"bind", "fio", "check"}
        BY <1>4 DEF Bind, Restore
    <2> QED BY <1>0, <1>1, <2>1
<1>5. CASE Fio
    <2>1. UNCHANGED <<type, final, errors>> /\ pc = "fio" /\ pc' = "restore"
        BY <1>5 DEF Fio
    <2>2. \A t \in Types : t < type => data'[t] = data[t]
        BY <1>0, <1>5, FioData
    <2> QED BY <1>0, <1>1, <2>1, <2>2
<1>6. ASSUME pc = "check", NextType, data' = data, errors \subseteq errors',
             type \notin errors' => Reason(type, final', data),
             \A t \in Types : t # type => final'[t] = final[t]
      PROVE  LeftForAReason'
    <2>1. \A t \in Types \ errors' : t < type => Reason(t, final', data')
        BY <1>0, <1>6
    <2>2. CASE pc' = "ended"
        <3>1. \A t \in Types : t < type \/ t = type
            BY <1>0, <1>6, <2>2, NextTypeTypes, TypesFacts DEF IInv
        <3>2. \A t \in Types \ errors' : Reason(t, final', data')
            BY <1>6, <2>1, <3>1
        <3> QED BY <2>2, <3>2 DEF LeftForAReason, Closed
    <2>3. CASE pc' # "ended"
        <3>1. type' = type + 1 /\ pc' \in {"warm", "bind"}
            BY <1>6, <2>3, NextTypeTypes DEF IInv, Begin
        <3>2. \A t \in Types : t < type' => t < type \/ t = type
            BY <1>0, <3>1
        <3>3. \A t \in Types \ errors' : t < type' => Reason(t, final', data')
            BY <1>6, <2>1, <3>2
        <3> QED BY <1>1, <3>1, <3>3
    <2> QED BY <2>2, <2>3
<1>7. CASE Stable
    <2>1. pc = "check" /\ errors' = errors /\ data' = data
        BY <1>7 DEF Stable
    <2>2. \A t \in Types : t # type => final'[t] = final[t]
        BY <1>0, <1>7 DEF Stable
    <2>3. CASE file = 1
        <3>1. pc' = "check" /\ type' = type
            BY <1>7, <2>1, <2>3 DEF Stable
        <3>2. \A t \in Types : t < type => final'[t] = final[t]
            BY <1>0, <2>2
        <3> QED BY <1>0, <1>1, <2>1, <3>1, <3>2
    <2>4. CASE file # 1
        <3>1. NextType /\ final'[type] = final[type] \o <<WindowLine(file, k, Points), StartFrom(k)>>
            BY <1>0, <1>7, <2>4 DEF Stable
        <3>2. type \notin errors => final'[type] = OneWindow(k)
            <4>1. type \notin errors => final[type] = <<WindowLine(1, k, CycleTimes)>> /\ Points = CycleTimes
                BY <1>0, <2>1, <2>4, WindowFull DEF IInv, ResultsGrow
            <4>2. type \notin errors =>
                      final'[type] = <<WindowLine(1, k, CycleTimes)>>
                                         \o <<WindowLine(2, k, CycleTimes), StartFrom(k)>>
                BY <1>0, <2>4, <3>1, <4>1
            <4> QED BY <4>2, ThreeLines DEF OneWindow
        <3>3. OneWindow(k) # <<>> /\ OneWindow(k)[Len(OneWindow(k))].mode = 0
            BY DEF OneWindow, StartFrom, WindowLine
        <3> QED BY <1>6, <2>1, <2>2, <3>1, <3>2, <3>3
    <2> QED BY <2>3, <2>4
<1>8. CASE Unstable
    <2>1. /\ pc = "check" /\ errors' = errors /\ data' = data /\ final'[type] = <<>>
          /\ \A t \in Types : t # type => final'[t] = final[t]
        BY <1>0, <1>8 DEF Unstable, Rejected
    <2>2. CASE LastWindow
        <3>1. type \notin errors => Reason(type, final', data)
            BY <2>1, <2>2, WindowFull DEF LastWindow
        <3> QED BY <1>6, <1>8, <2>1, <2>2, <3>1 DEF Unstable
    <2>3. CASE ~LastWindow
        <3>1. pc' = "bind" /\ type' = type
            BY <1>8, <2>3 DEF Unstable, MoreSamples
        <3>2. \A t \in Types : t < type => final'[t] = final[t]
            <4>1. \A t \in Types : t < type => t # type
                BY <1>0
            <4> QED BY <2>1, <4>1
        <3> QED BY <1>0, <1>1, <2>1, <3>1, <3>2
    <2> QED BY <2>2, <2>3
<1>9. CASE HelperFails
    <2>1. pc = "check" /\ errors' = errors \cup {type} /\ data' = data /\ final' = final
        BY <1>9 DEF HelperFails
    <2>2. CASE k = LastCheck
        BY <1>6, <1>9, <2>1, <2>2 DEF HelperFails
    <2>3. CASE k # LastCheck
        <3>1. pc' = "check" /\ type' = type
            BY <1>9, <2>1, <2>3 DEF HelperFails
        <3> QED BY <1>0, <1>1, <2>1, <3>1
    <2> QED BY <2>2, <2>3
<1>10. CASE UNCHANGED vars
    BY <1>0, <1>10 DEF vars, LeftForAReason, Closed
<1> QED BY <1>2, <1>3, <1>4, <1>5, <1>7, <1>8, <1>9, <1>10 DEF Next, Progress

-----------------------------------------------------------------------------
(* The first run finds clean templates and no files.                         *)
LEMMA InvInit == Init => IInv
<1> SUFFICES ASSUME Init
             PROVE  IInv
    OBVIOUS
<1>1. 1 \in Types /\ CycleTimes \in Nat /\ LastCheck \in Nat /\ disk \in Disks
    BY TypesFacts, CycleTimesAssumption, LastCheckAssumption DEF Init
<1>2. /\ \A t \in Types : data[t] = NoSamples /\ final[t] = <<>>
      /\ data \in [Types -> [Modes -> Seq(Samples)]] /\ final \in [Types -> Seq(Lines)]
    BY DEF Init, NoSamples
<1>3. TypeOK
    BY <1>1, <1>2 DEF Init, TypeOK, Modes
<1>4. LoopsAgree /\ NotYetEmpty /\ CleanStaysClean /\ LeftForAReason
    BY <1>2 DEF Init, LoopsAgree, Testing, Measuring, NotYetEmpty, CleanStaysClean, LeftForAReason
<1>5. MisreadOnce /\ SamplesLabelled
    BY <1>2 DEF Init, MisreadOnce, SamplesLabelled, NoSamples
<1>6. ResultsGrow
    BY <1>2 DEF Init, ResultsGrow, Measuring
<1> QED BY <1>3, <1>4, <1>5, <1>6 DEF IInv

(* Every step of the script, and every start and abort, keeps the invariant. *)
LEMMA InvStep == IInv /\ [Next]_vars => IInv'
BY TypeStep, LoopsStep, NotYetStep, CleanStep, MisreadStep, LabelledStep, ResultsStep, LeftStep
DEF IInv

(* The samples that were misread are at most the first of the first mode.    *)
LEMMA SpoiledAtMostOne == IInv => OneSampleSpoiled
<1> SUFFICES ASSUME IInv, NEW t \in Types
             PROVE  Cardinality({p \in Modes \X (1..CycleTimes + LastCheck) :
                                    Misread(t, p[1], p[2])}) <= 1
    BY DEF OneSampleSpoiled
<1> DEFINE S == {p \in Modes \X (1..CycleTimes + LastCheck) : Misread(t, p[1], p[2])}
<1>1. \A p \in S : p = <<1, 1>>
    BY DEF IInv, MisreadOnce, Misread
<1>2. S \subseteq {<<1, 1>>}
    BY <1>1
<1>3. IsFiniteSet({<<1, 1>>}) /\ Cardinality({<<1, 1>>}) = 1
    BY FS_Singleton
<1>4. Cardinality(S) <= Cardinality({<<1, 1>>})
    BY <1>2, <1>3, FS_Subset
<1> QED BY <1>3, <1>4

(* What a sample file says of its measurement is true: types, labels, and    *)
(* templates of performance_test, through any number of runs and aborts.     *)
THEOREM SamplesSoundHolds == Spec => []SamplesSound
<1>1. IInv => TemplatesRestored
    BY DEF IInv, CleanStaysClean, TemplatesRestored, TypeOK
<1>2. IInv => SamplesSound
    BY <1>1, SpoiledAtMostOne DEF IInv, SamplesSound
<1> QED BY InvInit, InvStep, <1>2, PTL DEF Spec

(* The verdict of periodic_test is over one whole window of both modes, or   *)
(* the type was left for one of the script's reasons.                        *)
THEOREM VerdictSoundHolds == Spec => []VerdictSound
<1>1. IInv => FinalIsOneWindow
    <2> SUFFICES ASSUME IInv, NEW t \in Types \ errors, Closed(t)
                 PROVE  final[t] = OneWindow(final[t][Len(final[t])].from)
        BY DEF FinalIsOneWindow, OneWindow
    <2>1. PICK from \in 0..LastCheck : final[t] \in {<<WindowLine(1, from, CycleTimes)>>, OneWindow(from)}
        BY DEF IInv, ResultsGrow, Closed
    <2>2. final[t] # <<WindowLine(1, from, CycleTimes)>>
        BY DEF Closed, WindowLine
    <2>3. final[t] = OneWindow(from) /\ final[t][Len(final[t])].from = from
        BY <2>1, <2>2 DEF OneWindow, StartFrom, WindowLine
    <2> QED BY <2>3
<1>2. IInv => VerdictSound
    BY <1>1 DEF IInv, VerdictSound
<1> QED BY InvInit, InvStep, <1>2, PTL DEF Spec
=============================================================================

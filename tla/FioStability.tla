---------------------------- MODULE FioStability ----------------------------
(***************************************************************************)
(* fio-test.sh: for each test type (iops, bw) measure the disk             *)
(* TIMES_A_CYCLE times in each of two read/write modes, then slide a       *)
(* window over the samples until help.py calls the window of every mode    *)
(* stable, taking one more sample per step.                                *)
(*                                                                         *)
(* The parameters of a measurement travel through a file: sed writes the   *)
(* disk and the mode over the placeholders of <type>.fio, and back after   *)
(* the run.  The script runs under "set -e": a command that fails ends it  *)
(* there and then, and the file stays as it is for the next run.           *)
(***************************************************************************)
EXTENDS Integers, Sequences, FiniteSets

CONSTANTS
    NumTypes,    \* length of FIO_TEST_TYPE_ARRAY
    Disks,       \* the disks FIO_TEST_DISK may name
    CycleTimes,  \* TIMES_A_CYCLE
    LastCheck,   \* the last value of k (20 in the script)
    MaxRuns,     \* bound: how often the script is started
    MaxErrors,   \* bound: how often help.py fails on a window it could read
    MaxAborts    \* bound: how often a run is cut short by another command

ASSUME NumTypesAssumption == NumTypes \in Nat \ {0}
ASSUME DisksAssumption == Disks \subseteq Nat \ {0} /\ Disks # {}
ASSUME CycleTimesAssumption == CycleTimes \in Nat \ {0}
ASSUME LastCheckAssumption == LastCheck \in Nat

Types == 1..NumTypes
Modes == {1, 2}          \* TEST_ARRAY, in the order of "ls" as well
Placeholder == 0         \* DEVICE or RWMODE in a template

VARIABLES
    pc, action, disk,    \* where the script is, its third argument, FIO_TEST_DISK
    type, mode, left,    \* loops of periodic_test and performance_test
    k, file, already,    \* window, file being checked, ALREADY_EXE_TIMES
    rw, dev, warmdev,    \* lines 3 and 2 of <type>.fio, line 2 of <type>-warm.fio
    data,                \* <mode>.data: the samples and how they were taken
    final,               \* final-result: one line per mode, then "start from"
    stale,               \* types whose template was not clean at the start
    errors,              \* types for which help.py failed in this run
    runs, failures, aborts   \* how much of the bounds is used

vars == <<pc, action, disk, type, mode, left, k, file, already, rw, dev, warmdev,
          data, final, stale, errors, runs, failures, aborts>>

NoSamples == [m \in Modes |-> <<>>]

(* A window's line, and the line that closes final-result.                   *)
WindowLine(m, from, points) == [mode |-> m, from |-> from, points |-> points]
StartFrom(from) == WindowLine(0, from, 0)

Init ==
    /\ pc = "idle" /\ action = "none" /\ disk \in Disks
    /\ type = 1 /\ mode = 1 /\ left = 0 /\ k = 0 /\ file = 1 /\ already = 0
    /\ rw = [t \in Types |-> Placeholder]
    /\ dev = [t \in Types |-> Placeholder]
    /\ warmdev \in [Types -> Disks \cup {Placeholder}]  \* the repository has one of each
    /\ data = [t \in Types |-> NoSamples]
    /\ final = [t \in Types |-> <<>>]
    /\ stale = {} /\ errors = {} /\ runs = 0 /\ failures = 0 /\ aborts = 0

-----------------------------------------------------------------------------
(* sed s/what/by/ on a line that holds nothing else.                         *)
Sed(line, what, by) == IF line = what THEN by ELSE line

(* The first step of a type: warm up, or straight to the tests.              *)
Begin(t) ==
    /\ type' = t /\ mode' = 1 /\ left' = CycleTimes /\ k' = 0 /\ file' = 1 /\ already' = 0
    /\ pc' = IF action' = "test" THEN "bind" ELSE "warm"

(* A new run has a directory of its own (DATE, to the minute, which is less  *)
(* than one sample takes) and finds the templates as the last one left them. *)
Launch(a, d) ==
    /\ pc \in {"idle", "ended", "aborted"} /\ runs < MaxRuns
    /\ action' = a /\ disk' = d
    /\ Begin(1)
    /\ data' = [t \in Types |-> NoSamples]
    /\ final' = [t \in Types |-> <<>>]
    /\ stale' = {t \in Types : rw[t] # Placeholder \/ dev[t] # Placeholder}
    /\ errors' = {}
    /\ runs' = runs + 1
    /\ UNCHANGED <<rw, dev, warmdev, failures, aborts>>

(* warmup(): sed binds the template, and the command of the next line is     *)
(* FIO_BIN and the file name run together in one word, which no file has.    *)
Warmup ==
    /\ pc = "warm"
    /\ warmdev' = [warmdev EXCEPT ![type] = Sed(@, Placeholder, disk)]
    /\ pc' = "aborted"
    /\ UNCHANGED <<action, disk, type, mode, left, k, file, already, rw, dev,
                   data, final, stale, errors, runs, failures, aborts>>

(* The template's lines 3 and 2 before and after a measurement; line 12, the *)
(* CPU list, goes with line 3.  The variant forgets a sed.                   *)
BoundMode == [rw EXCEPT ![type] = Sed(@, Placeholder, mode)]

RestoredMode_Skipped == rw
RestoredMode == [rw EXCEPT ![type] = Sed(@, mode, Placeholder)]

RestoredDisk == [dev EXCEPT ![type] = Sed(@, disk, Placeholder)]

(* performance_test, before fio.                                             *)
Bind ==
    /\ pc = "bind"
    /\ dev' = [dev EXCEPT ![type] = Sed(@, Placeholder, disk)]
    /\ rw' = BoundMode
    /\ pc' = "fio"
    /\ UNCHANGED <<action, disk, type, mode, left, k, file, already, warmdev,
                   data, final, stale, errors, runs, failures, aborts>>

(* fio reads the file, whatever it says; the sample goes to the file of the  *)
(* mode the loop is at, the log to one numbered i + ALREADY_EXE_TIMES.       *)
Sample ==
    [rw |-> rw[type], dev |-> dev[type],
     seq |-> already + (IF k = 0 THEN CycleTimes - left + 1 ELSE 1)]

Fio ==
    /\ pc = "fio"
    /\ data' = [data EXCEPT ![type][mode] = Append(@, Sample)]
    /\ pc' = "restore"
    /\ UNCHANGED <<action, disk, type, mode, left, k, file, already, rw, dev, warmdev,
                   final, stale, errors, runs, failures, aborts>>

(* ALREADY_EXE_TIMES after a call of performance_test.                       *)
Counted == IF k = 0 THEN CycleTimes ELSE already + 1

(* performance_test, after fio: the mode goes back at once, the disk when    *)
(* the call returns; then ALREADY_EXE_TIMES is brought up to date.           *)
Restore ==
    /\ pc = "restore"
    /\ rw' = RestoredMode
    /\ IF mode = 1
       THEN mode' = 2 /\ pc' = "bind" /\ UNCHANGED <<left, already, dev>>
       ELSE /\ mode' = 1
            /\ left' = left - 1
            /\ IF left > 1
               THEN pc' = "bind" /\ UNCHANGED <<already, dev>>
               ELSE /\ pc' = "check"
                    /\ already' = Counted
                    /\ dev' = RestoredDisk
    /\ UNCHANGED <<action, disk, type, k, file, warmdev, data, final, stale, errors,
                   runs, failures, aborts>>

-----------------------------------------------------------------------------
(* The loop over k.  help.py looks at data[k : k + TIMES_A_CYCLE], which must *)
(* not be empty.                                                             *)

Points == LET rest == Len(data[type][file]) - k
          IN  IF rest < CycleTimes THEN rest ELSE CycleTimes

(* The next type, or the end of the script.                                  *)
NextType ==
    IF type < NumTypes
    THEN UNCHANGED <<action, disk>> /\ Begin(type + 1)
    ELSE pc' = "ended" /\ UNCHANGED <<action, disk, type, mode, left, k, file, already>>

(* help.py printed "true".  After the last file the outer loop ends.         *)
Stable ==
    /\ pc = "check" /\ Points > 0
    /\ IF file = 1
       THEN /\ final' = [final EXCEPT ![type] = Append(@, WindowLine(file, k, Points))]
            /\ file' = 2
            /\ UNCHANGED <<pc, action, disk, type, mode, left, k, already>>
       ELSE /\ final' = [final EXCEPT ![type] =
                            @ \o <<WindowLine(file, k, Points), StartFrom(k)>>]
            /\ NextType
    /\ UNCHANGED <<rw, dev, warmdev, data, stale, errors, runs, failures, aborts>>

(* help.py printed "false": the result file goes; one more sample of each    *)
(* mode, until k is 20.  The variants give up one window early, or check     *)
(* the last window again.                                                    *)
MoreSamples ==
    /\ k' = k + 1 /\ file' = 1 /\ left' = 1 /\ pc' = "bind"
    /\ UNCHANGED <<action, disk, type, mode, already>>

LastWindow_Early == k + 1 >= LastCheck
LastWindow == k = LastCheck

Rejected(result) ==
    /\ pc = "check" /\ Points > 0
    /\ final' = [final EXCEPT ![type] = result]
    /\ UNCHANGED <<rw, dev, warmdev, data, stale, errors, runs, failures, aborts>>

Unstable_Rechecks ==
    /\ Rejected(<<>>)
    /\ IF LastWindow
       THEN file' = 1 /\ UNCHANGED <<pc, action, disk, type, mode, left, k, already>>
       ELSE MoreSamples

Unstable ==
    /\ Rejected(<<>>)
    /\ IF LastWindow THEN NextType ELSE MoreSamples

(* help.py failed and printed nothing ("local" hides its exit status from    *)
(* set -e): the window moves on without a new sample.  It has to fail on an  *)
(* empty window.                                                             *)
HelperFails ==
    /\ pc = "check"
    /\ Points > 0 => failures < MaxErrors
    /\ failures' = IF Points > 0 THEN failures + 1 ELSE failures
    /\ errors' = errors \cup {type}
    /\ IF k = LastCheck
       THEN NextType
       ELSE /\ k' = k + 1 /\ file' = 1
            /\ UNCHANGED <<pc, action, disk, type, mode, left, already>>
    /\ UNCHANGED <<rw, dev, warmdev, data, final, stale, runs, aborts>>

(* nvme, fio or one of the greps failed under set -e, or the operator gave   *)
(* up.                                                                       *)
Abort ==
    /\ pc \in {"warm", "bind", "fio", "restore", "check"} /\ aborts < MaxAborts
    /\ pc' = "aborted"
    /\ aborts' = aborts + 1
    /\ UNCHANGED <<action, disk, type, mode, left, k, file, already, rw, dev, warmdev,
                   data, final, stale, errors, runs, failures>>

Progress == Warmup \/ Bind \/ Fio \/ Restore \/ Stable \/ Unstable \/ HelperFails

Next == \/ \E a \in {"all", "warmup", "test"}, d \in Disks : Launch(a, d)
        \/ Progress \/ Abort

Spec == Init /\ [][Next]_vars

(* The script itself keeps running; it need not be started, nor aborted.     *)
FairSpec == Spec /\ WF_vars(Progress)

-----------------------------------------------------------------------------
(* Properties                                                                *)

Samples == [rw : Modes, dev : Disks, seq : Nat]
Lines == [mode : 0..2, from : Nat, points : Int]

(* Types of the loop variables, the templates and the files.                 *)
TypeOK ==
    /\ pc \in {"idle", "warm", "bind", "fio", "restore", "check", "ended", "aborted"}
    /\ action \in {"none", "all", "warmup", "test"} /\ disk \in Disks
    /\ type \in Types /\ mode \in Modes /\ left \in 0..CycleTimes
    /\ k \in 0..LastCheck /\ file \in Modes /\ already \in Nat
    /\ rw \in [Types -> Modes \cup {Placeholder}]
    /\ dev \in [Types -> Disks \cup {Placeholder}]
    /\ warmdev \in [Types -> Disks \cup {Placeholder}]
    /\ data \in [Types -> [Modes -> Seq(Samples)]]
    /\ final \in [Types -> Seq(Lines)]
    /\ stale \subseteq Types /\ errors \subseteq Types
    /\ runs \in Nat /\ failures \in Nat /\ aborts \in Nat

(* A run that found the template of a type clean measures what it says it    *)
(* measures: every sample in <mode>.data was taken in that mode, on the disk *)
(* of this run, and has a log file of its own (the seds of performance_test  *)
(* and the numbering by ALREADY_EXE_TIMES).                                  *)
SamplesLabelled ==
    \A t \in Types \ stale, m \in Modes : \A j \in DOMAIN data[t][m] :
        data[t][m][j] = [rw |-> m, dev |-> disk, seq |-> j]

Misread(t, m, j) == j \in DOMAIN data[t][m] /\ data[t][m][j].rw # m

(* A mode left behind in the template by an aborted run spoils one sample at *)
(* most: the run of the mode that is in the file puts the placeholder back.  *)
OneSampleSpoiled ==
    \A t \in Types :
        Cardinality({p \in Modes \X (1..CycleTimes + LastCheck) : Misread(t, p[1], p[2])}) <= 1

(* A run that ends leaves every template it found clean, clean.              *)
TemplatesRestored ==
    pc = "ended" => \A t \in Types \ stale : rw[t] = Placeholder /\ dev[t] = Placeholder

(* What a sample file says of its measurement is true, and stays so: files   *)
(* and variables hold what the code writes, clean templates give samples of  *)
(* the right mode, disk and number, a run restores them, and an aborted one  *)
(* spoils one sample.                                                        *)
SamplesSound == TypeOK /\ SamplesLabelled /\ OneSampleSpoiled /\ TemplatesRestored

Closed(t) == final[t] # <<>> /\ final[t][Len(final[t])].mode = 0

(* A closed final-result holds one line per mode, all for the window that    *)
(* the last line names, each over TIMES_A_CYCLE samples, unless help.py      *)
(* failed on the way.                                                        *)
FinalIsOneWindow ==
    \A t \in Types \ errors : Closed(t) =>
        LET from == final[t][Len(final[t])].from
        IN  final[t] = <<WindowLine(1, from, CycleTimes), WindowLine(2, from, CycleTimes),
                         StartFrom(from)>>

(* A type is left with a closed final-result, or after exactly as many       *)
(* samples as "already executed 25 times" means, or after a failed help.py.  *)
LeftForAReason ==
    \A t \in Types \ errors :
        (pc = "ended" \/ (pc \notin {"idle", "aborted"} /\ t < type)) =>
            \/ Closed(t)
            \/ final[t] = <<>> /\ \A m \in Modes : Len(data[t][m]) = CycleTimes + LastCheck

(* What a type is left with: a verdict over one whole window, or none for    *)
(* one of the reasons the script has.                                        *)
VerdictSound == FinalIsOneWindow /\ LeftForAReason

(* A run of the tests comes to an end.                                       *)
TestsEnd == (pc = "bind") ~> (pc \in {"ended", "aborted"})

(* TEST_ACTION_STR "all" means warm up and then test: a run of it gets to    *)
(* its first measurement, when nothing else cuts it short.                   *)
AllReachesTests == (pc = "warm" /\ action = "all") ~> (pc = "fio" \/ aborts > 0)

=============================================================================

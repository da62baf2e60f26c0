-------------------------- MODULE EnvPrepareProofs --------------------------
(***************************************************************************)
(* What env.sh keeps over any number of runs, reboots and aborts, and any  *)
(* number of units: the original command line, an honest gate, and honest  *)
(* last words.                                                             *)
(***************************************************************************)
EXTENDS EnvPrepare, SequenceTheorems, TLAPS

(* The command lines that env.sh asks for.                                   *)
Wants == {<<"args">>, <<"args", "isolation">>, <<"args", "blank">>}

(* They are sequences of words, and CMD_LINE_STR is always one of them.       *)
LEMMA WantTypes ==
    /\ Wants \subseteq Seq(Words)
    /\ Orig \in Seq(Words) /\ Empty \in Seq(Words) /\ Orig # Empty
    /\ \A mode \in Modes : CmdLine(mode) \in Wants
<1>1. <<"args">> \in Seq(Words) /\ <<"args", "isolation">> \in Seq(Words)
      /\ <<"args", "blank">> \in Seq(Words) /\ Orig \in Seq(Words) /\ Empty \in Seq(Words)
    BY DEF Words, Orig, Empty
<1>2. Orig # Empty
    BY DEF Orig, Empty
<1>3. \A mode \in Modes : CmdLine(mode) \in Wants
    BY DEF CmdLine, Modes, Wants
<1> QED BY <1>1, <1>2, <1>3 DEF Wants

(* What a boot makes of the line of grub.cfg is a line.                      *)
LEMMA TrimmedType ==
    ASSUME NEW line \in Seq(Words)
    PROVE  Trimmed(line) \in Seq(Words)
<1>1. Len(line) \in Nat /\ \A i \in 1 .. Len(line) - 1 : line[i] \in Words
    BY LenProperties
<1>2. SubSeq(line, 1, Len(line) - 1) \in Seq(Words)
    BY <1>1, SubSeqProperties
<1> QED BY <1>2 DEF Trimmed

(* What Step and Demand do to the script's own state.                        *)
LEMMA StepSh ==
    ASSUME TypeOK, NEW from, NEW to \in Ended \cup PastGate \cup Checks \cup {"virt", "gate"},
           Step(from, to), to \in Checks => from \in Checks
    PROVE  /\ sh.pc = from /\ sh'.pc = to
           /\ sh'.mode = sh.mode /\ sh'.want = sh.want /\ sh'.reboot = sh.reboot
           /\ sh'.unit = sh.unit /\ sh'.again = sh.again
           /\ sh' \in Scripts /\ (sh'.pc \in Checks => sh'.unit \in Units)
BY DEF TypeOK, Step, Scripts

(* The same of a check that may demand a reboot.                             *)
LEMMA DemandSh ==
    ASSUME TypeOK, NEW from \in Checks, NEW to \in Checks, NEW need \in BOOLEAN,
           Demand(from, to, need)
    PROVE  /\ sh.pc = from /\ sh'.pc = to
           /\ sh'.mode = sh.mode /\ sh'.want = sh.want /\ sh'.reboot = (sh.reboot \/ need)
           /\ sh'.unit = sh.unit /\ sh'.again = sh.again
           /\ sh' \in Scripts /\ (sh'.pc \in Checks => sh'.unit \in Units)
BY DEF TypeOK, Demand, Scripts

(* The same of one round of check_service.                                   *)
LEMMA NextUnitSh ==
    ASSUME TypeOK, NEW need \in BOOLEAN, sh.pc = "service", NextUnit(need)
    PROVE  /\ sh'.pc = IF sh.unit + 1 \in Units THEN "service" ELSE "virt"
           /\ sh'.mode = sh.mode /\ sh'.want = sh.want /\ sh'.reboot = (sh.reboot \/ need)
           /\ sh'.unit = sh.unit + 1 /\ sh'.again = sh.again
           /\ sh' \in Scripts /\ (sh'.pc \in Checks => sh'.unit \in Units)
<1>1. sh \in Scripts /\ sh.unit \in 1..NumUnits
    BY DEF TypeOK, Checks, Units
<1>2. sh.unit + 1 \in 1 .. NumUnits + 1
    BY <1>1, NumUnitsAssumption
<1> QED BY <1>1, <1>2 DEF NextUnit, Scripts, Checks

(* Every step keeps the types: one case per action.                          *)
LEMMA TypeStep == TypeOK /\ [Next]_vars => TypeOK'
<1> SUFFICES ASSUME TypeOK, [Next]_vars
             PROVE  TypeOK'
    OBVIOUS
<1>1. ASSUME NEW mode \in Modes, Launch(mode)
      PROVE  TypeOK'
    <2>1. sh' \in Scripts /\ (sh'.pc \in Checks => sh'.unit \in Units)
        BY <1>1, WantTypes, NumUnitsAssumption DEF Launch, Scripts, Checks, Units
    <2> QED BY <1>1, <2>1 DEF TypeOK, Launch
<1>2. CASE Reboot
    <2>1. sh' \in Scripts /\ (sh'.pc \in Checks => sh'.unit \in Units)
        BY <1>2 DEF TypeOK, Reboot, Scripts, Ended, Checks
    <2>2. boot' \in Systems
        BY <1>2, TrimmedType DEF TypeOK, Reboot, Systems, Disks
    <2> QED BY <1>2, <2>1, <2>2 DEF TypeOK, Reboot
<1>3. CASE ManualHandling
    BY <1>3 DEF TypeOK, ManualHandling
<1>4. CASE Settle
    <2>1. sh' \in Scripts /\ (sh'.pc \in Checks => sh'.unit \in Units)
        BY <1>4, StepSh DEF Settle, Ended, PastGate, Checks
    <2>2. kept' \in Markers
        BY <1>4 DEF TypeOK, Settle, Markers
    <2> QED BY <1>4, <2>1, <2>2 DEF TypeOK, Settle, rest
<1>5. CASE Clean
    <2>1. sh' \in Scripts /\ (sh'.pc \in Checks => sh'.unit \in Units)
        BY <1>5, StepSh DEF Clean, Ended, PastGate, Checks
    <2>2. kept' \in Markers
        BY <1>5 DEF TypeOK, Clean, Markers
    <2> QED BY <1>5, <2>1, <2>2 DEF TypeOK, Clean, rest
<1>6. CASE CheckKernel
    <2>1. sh' \in Scripts /\ (sh'.pc \in Checks => sh'.unit \in Units)
        BY <1>6, DemandSh DEF TypeOK, CheckKernel, Checks, Systems
    <2>2. disk' \in Disks
        BY <1>6 DEF TypeOK, CheckKernel, Disks
    <2> QED BY <1>6, <2>1, <2>2 DEF TypeOK, CheckKernel, rest
<1>7. CASE RecordCmdline
    <2>1. sh' \in Scripts /\ (sh'.pc \in Checks => sh'.unit \in Units)
        BY <1>7, StepSh DEF RecordCmdline, Ended, PastGate, Checks
    <2>2. kept' \in Markers
        BY <1>7 DEF TypeOK, RecordCmdline, Markers, Disks
    <2> QED BY <1>7, <2>1, <2>2 DEF TypeOK, RecordCmdline, rest
<1>8. CASE UpdateGrub
    <2>1. sh' \in Scripts /\ (sh'.pc \in Checks => sh'.unit \in Units)
        BY <1>8, StepSh DEF UpdateGrub, Ended, PastGate, Checks
    <2>2. disk' \in Disks
        BY <1>8, ConcatProperties DEF TypeOK, UpdateGrub, Disks, Scripts, Markers
    <2> QED BY <1>8, <2>1, <2>2 DEF TypeOK, UpdateGrub, rest
<1>9. CASE MakeConfig
    <2>1. sh' \in Scripts /\ (sh'.pc \in Checks => sh'.unit \in Units)
        BY <1>9, DemandSh DEF TypeOK, MakeConfig, Checks
    <2>2. disk' \in Disks
        BY <1>9 DEF TypeOK, MakeConfig, Disks
    <2> QED BY <1>9, <2>1, <2>2 DEF TypeOK, MakeConfig, rest
<1>10. CASE CheckEffective
    <2>1. sh' \in Scripts /\ (sh'.pc \in Checks => sh'.unit \in Units)
        BY <1>10, DemandSh DEF TypeOK, CheckEffective, Checks
    <2> QED BY <1>10, <2>1 DEF TypeOK, CheckEffective, rest
<1>11. CASE CheckSELinux
    <2>1. sh' \in Scripts /\ (sh'.pc \in Checks => sh'.unit \in Units)
        BY <1>11, DemandSh DEF TypeOK, CheckSELinux, Checks, Disks
    <2>2. disk' \in Disks
        BY <1>11 DEF TypeOK, CheckSELinux, Disks
    <2> QED BY <1>11, <2>1, <2>2 DEF TypeOK, CheckSELinux, rest
<1>12. CASE CheckService
    <2>1. sh.pc = "service" /\ sh.unit \in Units
        BY <1>12 DEF TypeOK, CheckService, Checks
    <2>2. CASE disk.unit[sh.unit] = "enabled"
        <3>1. disk' \in Disks
            BY <1>12, <2>1, <2>2 DEF TypeOK, CheckService, Disks
        <3>2. sh' \in Scripts /\ (sh'.pc \in Checks => sh'.unit \in Units)
            BY <1>12, <2>1, <2>2, NextUnitSh DEF CheckService
        <3> QED BY <1>12, <2>2, <3>1, <3>2 DEF TypeOK, CheckService, rest
    <2>3. CASE disk.unit[sh.unit] = "disabled"
        <3>1. boot' \in Systems
            BY <1>12, <2>3 DEF TypeOK, CheckService, Systems
        <3>2. sh' \in Scripts /\ (sh'.pc \in Checks => sh'.unit \in Units)
            <4>1. NextUnit(sh.unit \in boot.up) /\ (sh.unit \in boot.up) \in BOOLEAN
                BY <1>12, <2>3 DEF CheckService
            <4> QED BY <2>1, <4>1, NextUnitSh, Zenon
        <3> QED BY <1>12, <2>3, <3>1, <3>2 DEF TypeOK, CheckService, rest
    <2>4. CASE disk.unit[sh.unit] = "absent"
        <3>1. sh' \in Scripts /\ (sh'.pc \in Checks => sh'.unit \in Units)
            BY <1>12, <2>1, <2>4, NextUnitSh, StepSh DEF CheckService, Ended, Checks
        <3> QED BY <1>12, <2>4, <3>1 DEF TypeOK, CheckService, rest
    <2> QED BY <1>12, <2>2, <2>3, <2>4 DEF CheckService
<1>13. CASE CheckVirt
    <2>1. sh' \in Scripts /\ (sh'.pc \in Checks => sh'.unit \in Units)
        BY <1>13, StepSh DEF CheckVirt, Ended, PastGate, Checks
    <2>2. kept' \in Markers
        BY <1>13 DEF TypeOK, CheckVirt, Markers
    <2> QED BY <1>13, <2>1, <2>2 DEF TypeOK, CheckVirt, rest
<1>14. CASE Gate
    <2>1. sh' \in Scripts /\ (sh'.pc \in Checks => sh'.unit \in Units)
        BY <1>14, StepSh DEF Gate, Ended, PastGate, Checks
    <2>2. asked' \in Modes \cup {"none"}
        BY <1>14 DEF TypeOK, Gate, Scripts
    <2> QED BY <1>14, <2>1, <2>2 DEF TypeOK, Gate, rest
<1>15. CASE CpuList
    <2>1. sh' \in Scripts /\ (sh'.pc \in Checks => sh'.unit \in Units)
        BY <1>15, StepSh DEF CpuList, Ended, PastGate, Checks
    <2> QED BY <1>15, <2>1 DEF TypeOK, CpuList, rest
<1>16. CASE CpuListWritten
    <2>1. sh' \in Scripts /\ (sh'.pc \in Checks => sh'.unit \in Units)
        BY <1>16, StepSh DEF CpuListWritten, Ended, PastGate, Checks
    <2>2. kept' \in Markers
        BY <1>16 DEF TypeOK, CpuListWritten, Markers
    <2> QED BY <1>16, <2>1, <2>2 DEF TypeOK, CpuListWritten, rest
<1>17. CASE Spec2017
    <2>1. sh' \in Scripts /\ (sh'.pc \in Checks => sh'.unit \in Units)
        BY <1>17, StepSh DEF Spec2017, Ended, PastGate, Checks
    <2> QED BY <1>17, <2>1 DEF TypeOK, Spec2017, rest
<1>18. CASE Spec2017Built
    <2>1. sh' \in Scripts /\ (sh'.pc \in Checks => sh'.unit \in Units)
        BY <1>18, StepSh DEF Spec2017Built, Ended, PastGate, Checks
    <2>2. kept' \in Markers
        BY <1>18 DEF TypeOK, Spec2017Built, Markers
    <2> QED BY <1>18, <2>1, <2>2 DEF TypeOK, Spec2017Built, rest
<1>19. CASE Profile
    <2>1. sh' \in Scripts /\ (sh'.pc \in Checks => sh'.unit \in Units)
        BY <1>19, StepSh DEF Profile, Ended, PastGate, Checks
    <2>2. kept' \in Markers
        BY <1>19 DEF TypeOK, Profile, Markers
    <2> QED BY <1>19, <2>1, <2>2 DEF TypeOK, Profile, rest
<1>20. CASE DefineVm
    <2>1. sh' \in Scripts /\ (sh'.pc \in Checks => sh'.unit \in Units)
        BY <1>20, StepSh DEF DefineVm, Ended, PastGate, Checks
    <2> QED BY <1>20, <2>1 DEF TypeOK, DefineVm, rest
<1>21. CASE StartVm
    <2>1. sh' \in Scripts /\ (sh'.pc \in Checks => sh'.unit \in Units)
        BY <1>21, StepSh DEF StartVm, Ended, PastGate, Checks
    <2> QED BY <1>21, <2>1 DEF TypeOK, StartVm, Started, rest
<1>22. CASE Address
    <2>1. sh' \in Scripts /\ (sh'.pc \in Checks => sh'.unit \in Units)
        BY <1>22, StepSh DEF Address, Ended, PastGate, Checks
    <2>2. kept' \in Markers
        BY <1>22 DEF TypeOK, Address, Markers
    <2> QED BY <1>22, <2>1, <2>2 DEF TypeOK, Address, rest
<1>23. CASE Copy
    <2>1. sh' \in Scripts /\ (sh'.pc \in Checks => sh'.unit \in Units)
        BY <1>23, StepSh DEF Copy, Ended, PastGate, Checks
    <2>2. kept' \in Markers
        BY <1>23 DEF TypeOK, Copy, Markers
    <2> QED BY <1>23, <2>1, <2>2 DEF TypeOK, Copy, rest
<1>24. CASE CopyFails
    <2>1. sh' \in Scripts /\ (sh'.pc \in Checks => sh'.unit \in Units)
        BY <1>24, StepSh DEF CopyFails, Ended, PastGate, Checks
    <2> QED BY <1>24, <2>1 DEF TypeOK, CopyFails, rest
<1>25. CASE Ready
    <2>1. sh' \in Scripts /\ (sh'.pc \in Checks => sh'.unit \in Units)
        BY <1>25, StepSh DEF Ready, Ended, PastGate, Checks
    <2>2. kept' \in Markers
        BY <1>25 DEF TypeOK, Ready, Markers
    <2> QED BY <1>25, <2>1, <2>2 DEF TypeOK, Ready, rest
<1>26. CASE Final
    <2>1. sh' \in Scripts /\ (sh'.pc \in Checks => sh'.unit \in Units)
        BY <1>26, StepSh DEF Final, Ended, PastGate, Checks
    <2> QED BY <1>26, <2>1 DEF TypeOK, Final, Started, rest
<1>27. CASE VmStops
    BY <1>27 DEF TypeOK, VmStops, rest
<1>28. CASE Abort
    <2>1. sh' \in Scripts /\ (sh'.pc \in Checks => sh'.unit \in Units)
        BY <1>28 DEF TypeOK, Abort, Scripts, Ended, Checks
    <2>2. kept' \in Markers
        BY <1>28 DEF TypeOK, Abort, Markers
    <2>3. torn' \subseteq {"writing", "building", "copy"}
        BY <1>28 DEF TypeOK, Abort
    <2> QED BY <1>28, <2>1, <2>2, <2>3 DEF TypeOK, Abort
<1>29. CASE UNCHANGED vars
    BY <1>29 DEF TypeOK, vars
<1> QED BY <1>1, <1>2, <1>3, <1>4, <1>5, <1>6, <1>7, <1>8, <1>9, <1>10, <1>11,
           <1>12, <1>13, <1>14, <1>15, <1>16, <1>17, <1>18, <1>19, <1>20, <1>21,
           <1>22, <1>23, <1>24, <1>25, <1>26, <1>27, <1>28, <1>29 DEF Next,
           EnvStep

(* The script's variables, the machine's state and the markers have their    *)
(* types, for any number of units, runs and faults.                          *)
THEOREM TypeCorrect == Spec => []TypeOK
<1>1. Init => TypeOK
    <2> SUFFICES ASSUME Init
                 PROVE  TypeOK
        OBVIOUS
    <2>1. sh \in Scripts /\ (sh.pc \in Checks => sh.unit \in Units)
        BY NumUnitsAssumption DEF Init, Scripts, Ended, Modes, Checks
    <2>2. boot \in Systems /\ disk \in Disks
        BY WantTypes DEF Init, Systems, Disks
    <2>3. kept \in Markers
        BY WantTypes DEF Init, Markers
    <2> QED BY <2>1, <2>2, <2>3 DEF Init, TypeOK
<1> QED BY <1>1, TypeStep, PTL DEF Spec

-----------------------------------------------------------------------------
(* The original command line.                                                *)

(* OriginalKept, with what makes it inductive: the line is in vars.sh before *)
(* grub is touched, and a running script wants one of three command lines.   *)
LineInv ==
    /\ OriginalKept
    /\ sh.pc = "grub" => kept.cmdline = Orig
    /\ sh.pc \notin Ended => sh.want \in Wants

(* A step that changes neither the line in vars.sh nor the one of grub.      *)
LEMMA LineFrame ==
    ASSUME LineInv, UNCHANGED <<kept.cmdline, disk.grub>>,
           sh'.pc # "grub", sh'.pc \in Ended \/ sh'.want \in Wants
    PROVE  LineInv'
BY DEF LineInv, OriginalKept

(* The fields that a step of the script leaves alone.                        *)
LEMMA Framed ==
    ASSUME TypeOK
    PROVE  /\ Clean \/ CheckVirt \/ CpuListWritten \/ Spec2017Built \/ Profile \/ Address
                 \/ Copy \/ Ready \/ Settle \/ Abort => kept'.cmdline = kept.cmdline
           /\ CheckKernel \/ MakeConfig \/ CheckSELinux \/ CheckService =>
                 disk'.grub = disk.grub
<1>1. ASSUME Clean \/ CheckVirt \/ CpuListWritten \/ Spec2017Built \/ Profile \/ Address
                 \/ Copy \/ Ready \/ Settle \/ Abort
      PROVE  kept'.cmdline = kept.cmdline
    BY <1>1 DEF TypeOK, Markers, Clean, CheckVirt, CpuListWritten, Spec2017Built, Profile,
                Address, Copy, Ready, Settle, Abort
<1>2. ASSUME CheckKernel \/ MakeConfig \/ CheckSELinux \/ CheckService
      PROVE  disk'.grub = disk.grub
    BY <1>2 DEF TypeOK, Disks, CheckKernel, MakeConfig, CheckSELinux, CheckService
<1> QED BY <1>1, <1>2

(* Every step keeps the line: RecordCmdline and UpdateGrub touch it, the     *)
(* others leave it alone.                                                    *)
LEMMA LineStep == TypeOK /\ LineInv /\ [Next]_vars => LineInv'
<1> SUFFICES ASSUME TypeOK, LineInv, [Next]_vars
             PROVE  LineInv'
    OBVIOUS
<1>1. ASSUME NEW mode \in Modes, Launch(mode)
      PROVE  LineInv'
    BY <1>1, WantTypes, LineFrame DEF Launch
<1>2. CASE Reboot
    BY <1>2, LineFrame DEF Reboot, TypeOK, Scripts, Ended
<1>3. CASE ManualHandling
    BY <1>3 DEF ManualHandling, LineInv, OriginalKept
<1>4. CASE Settle
    <2>1. sh'.pc # "grub" /\ (sh'.pc \in Ended \/ sh'.want \in Wants)
        BY <1>4, StepSh DEF LineInv, Settle, Ended, PastGate, Checks
    <2> QED BY <1>4, <2>1, LineFrame, Framed DEF Settle
<1>5. CASE Clean
    <2>1. sh'.pc # "grub" /\ (sh'.pc \in Ended \/ sh'.want \in Wants)
        BY <1>5, StepSh DEF LineInv, Clean, Ended, PastGate, Checks
    <2> QED BY <1>5, <2>1, LineFrame, Framed DEF Clean
<1>6. CASE CheckKernel
    <2>1. sh'.pc # "grub" /\ (sh'.pc \in Ended \/ sh'.want \in Wants)
        BY <1>6, DemandSh DEF LineInv, CheckKernel, TypeOK, Systems, Ended, Checks
    <2> QED BY <1>6, <2>1, LineFrame, Framed DEF CheckKernel
<1>7. CASE RecordCmdline
    <2>1. sh.pc = "record" /\ sh'.pc = "grub" /\ sh'.want = sh.want
        BY <1>7, StepSh DEF RecordCmdline, Checks
    <2>2. kept'.cmdline = Orig /\ disk'.grub = disk.grub
        BY <1>7 DEF RecordCmdline, TypeOK, Markers, LineInv, OriginalKept
    <2> QED BY <2>1, <2>2, WantTypes DEF LineInv, OriginalKept, Ended
<1>8. CASE UpdateGrub
    <2>1. sh.pc = "grub" /\ sh'.pc # "grub" /\ sh'.want = sh.want
        <3>1. PICK to \in {"mkconfig", "effective"} : Step("grub", to)
            BY <1>8 DEF UpdateGrub
        <3> QED BY <3>1, StepSh DEF Checks
    <2>2. kept.cmdline = Orig /\ sh.want \in Wants
        BY <2>1 DEF LineInv, Ended
    <2>3. kept'.cmdline = Orig /\ disk'.grub = Orig \o sh.want
        BY <1>8, <2>2 DEF UpdateGrub, TypeOK, Disks
    <2> QED BY <2>1, <2>2, <2>3, WantTypes DEF LineInv, OriginalKept, Wants
<1>9. CASE MakeConfig
    <2>1. sh'.pc # "grub" /\ (sh'.pc \in Ended \/ sh'.want \in Wants)
        BY <1>9, DemandSh DEF LineInv, MakeConfig, Ended, Checks
    <2> QED BY <1>9, <2>1, LineFrame, Framed DEF MakeConfig
<1>10. CASE CheckEffective
    <2>1. sh'.pc # "grub" /\ (sh'.pc \in Ended \/ sh'.want \in Wants)
        BY <1>10, DemandSh DEF LineInv, CheckEffective, Ended, Checks
    <2> QED BY <1>10, <2>1, LineFrame, Framed DEF CheckEffective
<1>11. CASE CheckSELinux
    <2>1. sh'.pc # "grub" /\ (sh'.pc \in Ended \/ sh'.want \in Wants)
        BY <1>11, DemandSh DEF LineInv, CheckSELinux, TypeOK, Disks, Ended, Checks
    <2> QED BY <1>11, <2>1, LineFrame, Framed DEF CheckSELinux
<1>12. CASE CheckService
    <2>1. sh'.pc # "grub" /\ (sh'.pc \in Ended \/ sh'.want \in Wants)
        BY <1>12 DEF LineInv, CheckService, NextUnit, Step, TypeOK, Scripts, Ended
    <2> QED BY <1>12, <2>1, LineFrame, Framed DEF CheckService
<1>13. CASE CheckVirt
    <2>1. sh'.pc # "grub" /\ (sh'.pc \in Ended \/ sh'.want \in Wants)
        BY <1>13, StepSh DEF LineInv, CheckVirt, Ended, PastGate, Checks
    <2> QED BY <1>13, <2>1, LineFrame, Framed DEF CheckVirt
<1>14. CASE Gate
    <2>1. sh'.pc # "grub" /\ (sh'.pc \in Ended \/ sh'.want \in Wants)
        BY <1>14, StepSh DEF LineInv, Gate, Ended, PastGate, Checks
    <2> QED BY <1>14, <2>1, LineFrame, Framed DEF Gate
<1>15. CASE CpuList
    <2>1. sh'.pc # "grub" /\ (sh'.pc \in Ended \/ sh'.want \in Wants)
        BY <1>15, StepSh DEF LineInv, CpuList, Ended, PastGate, Checks
    <2> QED BY <1>15, <2>1, LineFrame, Framed DEF CpuList
<1>16. CASE CpuListWritten
    <2>1. sh'.pc # "grub" /\ (sh'.pc \in Ended \/ sh'.want \in Wants)
        BY <1>16, StepSh DEF LineInv, CpuListWritten, Ended, PastGate, Checks
    <2> QED BY <1>16, <2>1, LineFrame, Framed DEF CpuListWritten
<1>17. CASE Spec2017
    <2>1. sh'.pc # "grub" /\ (sh'.pc \in Ended \/ sh'.want \in Wants)
        BY <1>17, StepSh DEF LineInv, Spec2017, Ended, PastGate, Checks
    <2> QED BY <1>17, <2>1, LineFrame, Framed DEF Spec2017
<1>18. CASE Spec2017Built
    <2>1. sh'.pc # "grub" /\ (sh'.pc \in Ended \/ sh'.want \in Wants)
        BY <1>18, StepSh DEF LineInv, Spec2017Built, Ended, PastGate, Checks
    <2> QED BY <1>18, <2>1, LineFrame, Framed DEF Spec2017Built
<1>19. CASE Profile
    <2>1. sh'.pc # "grub" /\ (sh'.pc \in Ended \/ sh'.want \in Wants)
        BY <1>19, StepSh DEF LineInv, Profile, Ended, PastGate, Checks
    <2> QED BY <1>19, <2>1, LineFrame, Framed DEF Profile
<1>20. CASE DefineVm
    <2>1. sh'.pc # "grub" /\ (sh'.pc \in Ended \/ sh'.want \in Wants)
        BY <1>20, StepSh DEF LineInv, DefineVm, Ended, PastGate, Checks
    <2> QED BY <1>20, <2>1, LineFrame, Framed DEF DefineVm
<1>21. CASE StartVm
    <2>1. sh'.pc # "grub" /\ (sh'.pc \in Ended \/ sh'.want \in Wants)
        BY <1>21, StepSh DEF LineInv, StartVm, Ended, PastGate, Checks
    <2> QED BY <1>21, <2>1, LineFrame, Framed DEF StartVm
<1>22. CASE Address
    <2>1. sh'.pc # "grub" /\ (sh'.pc \in Ended \/ sh'.want \in Wants)
        BY <1>22, StepSh DEF LineInv, Address, Ended, PastGate, Checks
    <2> QED BY <1>22, <2>1, LineFrame, Framed DEF Address
<1>23. CASE Copy
    <2>1. sh'.pc # "grub" /\ (sh'.pc \in Ended \/ sh'.want \in Wants)
        BY <1>23, StepSh DEF LineInv, Copy, Ended, PastGate, Checks
    <2> QED BY <1>23, <2>1, LineFrame, Framed DEF Copy
<1>24. CASE CopyFails
    <2>1. sh'.pc # "grub" /\ (sh'.pc \in Ended \/ sh'.want \in Wants)
        BY <1>24, StepSh DEF LineInv, CopyFails, Ended, PastGate, Checks
    <2> QED BY <1>24, <2>1, LineFrame, Framed DEF CopyFails
<1>25. CASE Ready
    <2>1. sh'.pc # "grub" /\ (sh'.pc \in Ended \/ sh'.want \in Wants)
        BY <1>25, StepSh DEF LineInv, Ready, Ended, PastGate, Checks
    <2> QED BY <1>25, <2>1, LineFrame, Framed DEF Ready
<1>26. CASE Final
    <2>1. sh'.pc # "grub" /\ (sh'.pc \in Ended \/ sh'.want \in Wants)
        BY <1>26, StepSh DEF LineInv, Final, Ended, PastGate, Checks
    <2> QED BY <1>26, <2>1, LineFrame, Framed DEF Final
<1>27. CASE VmStops
    BY <1>27 DEF VmStops, LineInv, OriginalKept
<1>28. CASE Abort
    BY <1>28, LineFrame, Framed DEF Abort, TypeOK, Scripts, Ended
<1>29. CASE UNCHANGED vars
    BY <1>29 DEF LineInv, OriginalKept, vars
<1> QED BY <1>1, <1>2, <1>3, <1>4, <1>5, <1>6, <1>7, <1>8, <1>9, <1>10, <1>11,
           <1>12, <1>13, <1>14, <1>15, <1>16, <1>17, <1>18, <1>19, <1>20, <1>21,
           <1>22, <1>23, <1>24, <1>25, <1>26, <1>27, <1>28, <1>29 DEF Next,
           EnvStep

(* Over any number of runs for host and guest, reboots and aborts, the line  *)
(* of /etc/default/grub is the original or the original with the arguments   *)
(* of one run after it.                                                      *)
THEOREM OriginalKeptHolds == Spec => []OriginalKept
<1>1. Init => LineInv
    BY WantTypes DEF Init, LineInv, OriginalKept, Ended
<1>2. LineInv => OriginalKept
    BY DEF LineInv
<1> QED BY <1>1, <1>2, LineStep, TypeCorrect, PTL DEF Spec

-----------------------------------------------------------------------------
(* The gate.                                                                 *)

AfterService == PastGate \cup {"virt", "gate"}
AfterSELinux == AfterService \cup {"service"}
AfterEffective == AfterSELinux \cup {"selinux"}
AfterKernel == AfterEffective \cup {"record", "grub", "mkconfig", "effective"}

(* What a run has established of the machine once a check is behind it and   *)
(* no reboot is demanded.                                                    *)
Established ==
    /\ sh.pc \in Checks \ {"service"} => sh.unit = 1
    /\ sh.pc \in AfterKernel /\ ~sh.reboot => boot.kernel
    /\ sh.pc \in AfterEffective /\ ~sh.reboot => EndsWith(boot.cmdline, sh.want)
    /\ sh.pc = "service" /\ ~sh.reboot => \A u \in Units : u < sh.unit => u \notin boot.up
    /\ sh.pc \in AfterService /\ ~sh.reboot => boot.up = {}

(* Who remembers that SELinux is still on: the file, the run that changed    *)
(* it, or nobody any more.                                                   *)
Remembered ==
    /\ sh.pc \in AfterSELinux => ~disk.selinux
    /\ boot.selinux => \/ disk.selinux \/ ignored
                       \/ sh.reboot /\ sh.pc \notin PastGate \cup {"idle", "warned"}

GateInv ==
    /\ Established
    /\ Remembered
    /\ sh.pc \in PastGate \cup {"warned"} => ~sh.reboot
    /\ \A u \in Units : disk.unit[u] = "absent" => u \notin boot.up

(* The gate as the invariant shows it.                                       *)
LEMMA GateFromInv == GateInv => GateHonest
BY DEF GateInv, Established, Remembered, GateHonest, AfterKernel, AfterEffective, AfterSELinux,
       AfterService

(* A step past the gate, or one that only moves on from check to check.      *)
LEMMA GateFrame ==
    ASSUME GateInv, UNCHANGED <<boot, disk, ignored, sh.want, sh.reboot, sh.unit>>,
           \/ sh.pc \in PastGate /\ sh'.pc \in PastGate
           \/ sh.pc \in {"settle", "clean"} /\ sh'.pc \in {"clean", "kernel"}
           \/ sh.pc = "record" /\ sh'.pc = "grub"
           \/ sh.pc = "virt" /\ sh'.pc = "gate"
           \/ sh.pc \notin PastGate \cup {"idle", "warned"} /\ sh'.pc = "failed"
           \/ sh.pc \in PastGate /\ sh'.pc = "failed"
    PROVE  GateInv'
BY DEF GateInv, Established, Remembered, AfterKernel, AfterEffective, AfterSELinux,
       AfterService, PastGate, Checks

(* Every step keeps what the gate relies on: one case per action.            *)
LEMMA GateStep == TypeOK /\ GateInv /\ [Next]_vars => GateInv'
<1> SUFFICES ASSUME TypeOK, GateInv, [Next]_vars
             PROVE  GateInv'
    OBVIOUS
<1>1. ASSUME NEW mode \in Modes, Launch(mode)
      PROVE  GateInv'
    <2>1. sh'.pc = "settle" /\ ~sh'.reboot /\ sh'.unit = 1 /\ UNCHANGED <<boot, disk>>
        BY <1>1 DEF Launch
    <2>2. sh.pc \notin PastGate \cup {"idle", "warned"} => sh.pc \in {"reboot", "failed"}
        BY <1>1 DEF Launch, Ended, PastGate
    <2>3. ignored' = (ignored \/ (sh.pc \in {"reboot", "failed"} /\ sh.reboot))
        BY <1>1 DEF Launch
    <2>4. boot'.selinux => disk'.selinux \/ ignored'
        BY <2>1, <2>2, <2>3 DEF GateInv, Remembered
    <2> QED BY <2>1, <2>4 DEF GateInv, Established, Remembered, AfterKernel, AfterEffective,
           AfterSELinux, AfterService, PastGate, Checks
<1>2. CASE Reboot
    <2>1. sh'.pc = "idle" /\ UNCHANGED disk /\ boot'.selinux = disk.selinux
        BY <1>2 DEF Reboot, TypeOK, Scripts
    <2>2. \A u \in Units : u \in boot'.up => disk.unit[u] = "enabled"
        BY <1>2 DEF Reboot
    <2> QED BY <2>1, <2>2 DEF GateInv, Established, Remembered, AfterKernel, AfterEffective,
           AfterSELinux, AfterService, PastGate, Checks
<1>3. CASE ManualHandling
    BY <1>3 DEF ManualHandling, GateInv, Established, Remembered, AfterKernel, AfterEffective,
           AfterSELinux, AfterService, PastGate, Checks
<1>4. CASE Settle
    BY <1>4, StepSh, GateFrame DEF Settle, rest, Ended, PastGate, Checks
<1>5. CASE Clean
    BY <1>5, StepSh, GateFrame DEF Clean, rest, Ended, PastGate, Checks
<1>6. CASE CheckKernel
    <2>1. /\ sh.pc = "kernel" /\ sh'.pc = "record" /\ sh'.reboot = (sh.reboot \/ ~boot.kernel)
          /\ sh'.unit = sh.unit
        BY <1>6, DemandSh DEF CheckKernel, TypeOK, Systems, Checks
    <2>2. disk'.selinux = disk.selinux /\ disk'.unit = disk.unit /\ UNCHANGED <<boot, ignored>>
        BY <1>6 DEF CheckKernel, rest, TypeOK, Disks
    <2> QED BY <2>1, <2>2 DEF GateInv, Established, Remembered, AfterKernel, AfterEffective,
           AfterSELinux, AfterService, PastGate, Checks
<1>7. CASE RecordCmdline
    BY <1>7, StepSh, GateFrame DEF RecordCmdline, rest, Ended, PastGate, Checks
<1>8. CASE UpdateGrub
    <2>1. PICK to \in {"mkconfig", "effective"} : Step("grub", to)
        BY <1>8 DEF UpdateGrub
    <2>2. sh.pc = "grub" /\ sh'.pc \in {"mkconfig", "effective"} /\ sh'.reboot = sh.reboot
          /\ sh'.unit = sh.unit
        BY <2>1, StepSh DEF Checks
    <2>3. disk'.selinux = disk.selinux /\ disk'.unit = disk.unit /\ UNCHANGED <<boot, ignored>>
        BY <1>8 DEF UpdateGrub, rest, TypeOK, Disks
    <2> QED BY <2>2, <2>3 DEF GateInv, Established, Remembered, AfterKernel, AfterEffective,
           AfterSELinux, AfterService, PastGate, Checks
<1>9. CASE MakeConfig
    <2>1. sh.pc = "mkconfig" /\ sh'.pc = "effective" /\ sh'.reboot /\ sh'.unit = sh.unit
        BY <1>9, DemandSh DEF MakeConfig, Checks
    <2>2. disk'.selinux = disk.selinux /\ disk'.unit = disk.unit /\ UNCHANGED <<boot, ignored>>
        BY <1>9 DEF MakeConfig, rest, TypeOK, Disks
    <2> QED BY <2>1, <2>2 DEF GateInv, Established, Remembered, AfterKernel, AfterEffective,
           AfterSELinux, AfterService, PastGate, Checks
<1>10. CASE CheckEffective
    <2>1. /\ sh.pc = "effective" /\ sh'.pc = "selinux" /\ sh'.want = sh.want
          /\ sh'.reboot = (sh.reboot \/ ~EndsWith(boot.cmdline, sh.want)) /\ sh'.unit = sh.unit
        BY <1>10, DemandSh DEF CheckEffective, InEffect, Checks
    <2>2. UNCHANGED <<boot, disk, ignored>>
        BY <1>10 DEF CheckEffective, rest
    <2> QED BY <2>1, <2>2 DEF GateInv, Established, Remembered, AfterKernel, AfterEffective,
           AfterSELinux, AfterService, PastGate, Checks
<1>11. CASE CheckSELinux
    <2>1. /\ sh.pc = "selinux" /\ sh'.pc = "service" /\ sh'.want = sh.want
          /\ sh'.reboot = (sh.reboot \/ disk.selinux) /\ sh'.unit = sh.unit
        <3>1. disk.selinux \in BOOLEAN
            BY DEF TypeOK, Disks
        <3>2. Demand("selinux", "service", disk.selinux)
            BY <1>11 DEF CheckSELinux
        <3> QED BY <3>1, <3>2, DemandSh DEF Checks
    <2>2. ~disk'.selinux /\ disk'.unit = disk.unit /\ UNCHANGED <<boot, ignored>>
        BY <1>11 DEF CheckSELinux, rest, TypeOK, Disks
    <2>3. \A u \in Units : ~(u < 1)
        BY NumUnitsAssumption DEF Units
    <2> QED BY <2>1, <2>2, <2>3 DEF GateInv, Established, Remembered, AfterKernel,
           AfterEffective, AfterSELinux, AfterService, PastGate, Checks
<1>12. CASE CheckService
    <2>1. sh.pc = "service" /\ sh.unit \in Units /\ UNCHANGED ignored
        BY <1>12 DEF TypeOK, CheckService, Checks, rest
    <2>2. CASE disk.unit[sh.unit] = "enabled"
        <3>1. sh'.pc \in {"service", "virt"} /\ sh'.reboot
            BY <1>12, <2>1, <2>2, NextUnitSh DEF CheckService
        <3>2. /\ disk'.selinux = disk.selinux /\ UNCHANGED boot
              /\ \A u \in Units : disk'.unit[u] = "absent" => disk.unit[u] = "absent"
            BY <1>12, <2>1, <2>2 DEF CheckService, TypeOK, Disks
        <3> QED BY <2>1, <3>1, <3>2 DEF
                GateInv, Established, Remembered, AfterKernel,
                    AfterEffective, AfterSELinux, AfterService, PastGate, Checks
    <2>3. CASE disk.unit[sh.unit] = "disabled"
        <3>1. /\ sh'.pc = IF sh.unit + 1 \in Units THEN "service" ELSE "virt"
              /\ sh'.reboot = (sh.reboot \/ sh.unit \in boot.up)
              /\ sh'.unit = sh.unit + 1 /\ sh'.want = sh.want
            <4>1. NextUnit(sh.unit \in boot.up) /\ (sh.unit \in boot.up) \in BOOLEAN
                BY <1>12, <2>3 DEF CheckService
            <4> QED BY <2>1, <4>1, NextUnitSh, Zenon
        <3>2. /\ UNCHANGED disk /\ boot'.kernel = boot.kernel /\ boot'.cmdline = boot.cmdline
              /\ boot'.selinux = boot.selinux /\ boot'.up = boot.up \ {sh.unit}
            BY <1>12, <2>3 DEF CheckService, TypeOK, Systems
        <3>3. boot'.up \subseteq Units
            BY <3>2 DEF TypeOK, Systems
        <3>4. CASE sh'.pc = "service"
            <4>1. \A u \in Units : u < sh.unit + 1 <=> u < sh.unit \/ u = sh.unit
                BY <2>1, NumUnitsAssumption DEF Units
            <4> QED BY <2>1, <3>1, <3>2, <3>4, <4>1 DEF
                GateInv, Established, Remembered, AfterKernel,
                    AfterEffective, AfterSELinux, AfterService, PastGate, Checks
        <3>5. CASE sh'.pc = "virt"
            <4>1. \A u \in Units : u < sh.unit \/ u = sh.unit
                BY <2>1, <3>1, <3>5, NumUnitsAssumption DEF Units
            <4>2. ~sh'.reboot => boot'.up = {}
                BY <2>1, <3>1, <3>2, <3>3, <4>1 DEF GateInv, Established
            <4> QED BY <2>1, <3>1, <3>2, <3>5, <4>2 DEF
                GateInv, Established, Remembered, AfterKernel,
                    AfterEffective, AfterSELinux, AfterService, PastGate, Checks
        <3> QED BY <3>1, <3>4, <3>5
    <2>4. CASE disk.unit[sh.unit] = "absent" /\ sh.unit \in Optional
        <3>1. /\ sh'.pc = IF sh.unit + 1 \in Units THEN "service" ELSE "virt"
              /\ sh'.reboot = (sh.reboot \/ FALSE)
              /\ sh'.unit = sh.unit + 1 /\ sh'.want = sh.want
              /\ UNCHANGED <<boot, disk>>
            BY <1>12, <2>1, <2>4, NextUnitSh DEF CheckService
        <3>2. sh.unit \notin boot.up /\ boot.up \subseteq Units
            BY <2>1, <2>4 DEF GateInv, TypeOK, Systems
        <3>3. CASE sh'.pc = "service"
            <4>1. \A u \in Units : u < sh.unit + 1 <=> u < sh.unit \/ u = sh.unit
                BY <2>1, NumUnitsAssumption DEF Units
            <4> QED BY <2>1, <3>1, <3>2, <3>3, <4>1 DEF
                GateInv, Established, Remembered, AfterKernel,
                    AfterEffective, AfterSELinux, AfterService, PastGate, Checks
        <3>4. CASE sh'.pc = "virt"
            <4>1. \A u \in Units : u < sh.unit \/ u = sh.unit
                BY <2>1, <3>1, <3>4, NumUnitsAssumption DEF Units
            <4>2. ~sh'.reboot => boot'.up = {}
                BY <2>1, <3>1, <3>2, <4>1 DEF GateInv, Established
            <4> QED BY <2>1, <3>1, <3>2, <3>4, <4>2 DEF
                GateInv, Established, Remembered, AfterKernel,
                    AfterEffective, AfterSELinux, AfterService, PastGate, Checks
        <3> QED BY <3>1, <3>3, <3>4
    <2>5. CASE disk.unit[sh.unit] = "absent" /\ sh.unit \notin Optional
        <3>1. Step("service", "failed") /\ UNCHANGED <<boot, disk>>
            BY <1>12, <2>5 DEF CheckService
        <3> QED BY <2>1, <3>1, StepSh, GateFrame DEF Ended, PastGate, Checks
    <2> QED BY <1>12, <2>2, <2>3, <2>4, <2>5 DEF CheckService
<1>13. CASE CheckVirt
    BY <1>13, StepSh, GateFrame DEF CheckVirt, rest, Ended, PastGate, Checks
<1>14. CASE Gate
    <2>1. PICK to \in {"reboot", "warned", "cpulist"} :
             Step("gate", to) /\ (to # "reboot" => ~sh.reboot) /\ (to = "reboot" => sh.reboot)
        BY <1>14 DEF Gate, TypeOK, Scripts
    <2>2. /\ sh.pc = "gate" /\ sh'.pc = to /\ sh'.reboot = sh.reboot /\ sh'.want = sh.want
          /\ UNCHANGED <<boot, disk, ignored>>
        BY <1>14, <2>1, StepSh DEF Gate, rest, Ended, PastGate, Checks
    <2> QED BY <2>1, <2>2 DEF GateInv, Established, Remembered, AfterKernel, AfterEffective,
           AfterSELinux, AfterService, PastGate, Checks
<1>15. CASE CpuList
    BY <1>15, StepSh, GateFrame DEF CpuList, rest, Ended, PastGate, Checks
<1>16. CASE CpuListWritten
    BY <1>16, StepSh, GateFrame DEF CpuListWritten, rest, Ended, PastGate, Checks
<1>17. CASE Spec2017
    BY <1>17, StepSh, GateFrame DEF Spec2017, rest, Ended, PastGate, Checks
<1>18. CASE Spec2017Built
    BY <1>18, StepSh, GateFrame DEF Spec2017Built, rest, Ended, PastGate, Checks
<1>19. CASE Profile
    BY <1>19, StepSh, GateFrame DEF Profile, rest, Ended, PastGate, Checks
<1>20. CASE DefineVm
    BY <1>20, StepSh, GateFrame DEF DefineVm, rest, Ended, PastGate, Checks
<1>21. CASE StartVm
    BY <1>21, StepSh, GateFrame DEF StartVm, rest, Ended, PastGate, Checks
<1>22. CASE Address
    BY <1>22, StepSh, GateFrame DEF Address, rest, Ended, PastGate, Checks
<1>23. CASE Copy
    BY <1>23, StepSh, GateFrame DEF Copy, rest, Ended, PastGate, Checks
<1>24. CASE CopyFails
    BY <1>24, StepSh, GateFrame DEF CopyFails, rest, Ended, PastGate, Checks
<1>25. CASE Ready
    BY <1>25, StepSh, GateFrame DEF Ready, rest, Ended, PastGate, Checks
<1>26. CASE Final
    BY <1>26, StepSh, GateFrame DEF Final, rest, Ended, PastGate, Checks
<1>27. CASE VmStops
    BY <1>27 DEF VmStops, rest, GateInv, Established, Remembered, AfterKernel, AfterEffective,
           AfterSELinux, AfterService, PastGate, Checks
<1>28. CASE Abort
    <2>1. /\ sh.pc \notin {"idle", "warned"} /\ sh'.pc = "failed"
          /\ UNCHANGED <<boot, disk, ignored, sh.want, sh.reboot, sh.unit>>
        BY <1>28 DEF Abort, Ended, TypeOK, Scripts
    <2> QED BY <2>1, GateFrame
<1>29. CASE UNCHANGED vars
    BY <1>29 DEF vars, GateInv, Established, Remembered, AfterKernel, AfterEffective,
           AfterSELinux, AfterService, PastGate, Checks
<1> QED BY <1>1, <1>2, <1>3, <1>4, <1>5, <1>6, <1>7, <1>8, <1>9, <1>10, <1>11,
           <1>12, <1>13, <1>14, <1>15, <1>16, <1>17, <1>18, <1>19, <1>20, <1>21,
           <1>22, <1>23, <1>24, <1>25, <1>26, <1>27, <1>28, <1>29 DEF Next,
           EnvStep

(* Whatever the operator does, a run of env.sh that gets past the gate runs  *)
(* on the kernel and the command line it asked for, with none of the units,  *)
(* and with SELinux on only when a demand for a reboot was ignored or lost.  *)
THEOREM GateHonestHolds == Spec => []GateHonest
<1>1. Init => GateInv
    BY NumUnitsAssumption DEF Init, GateInv, Established, Remembered, AfterKernel,
           AfterEffective,
       AfterSELinux, AfterService, PastGate, Checks
<1> QED BY <1>1, GateFromInv, GateStep, TypeCorrect, PTL DEF Spec

-----------------------------------------------------------------------------
(* What "successfully" vouches for.                                          *)

FromReady == {"final", "prepared"}
FromStart == FromReady \cup {"start", "address", "copy", "ready"}
FromProfile == FromStart \cup {"define"}
FromSpec == FromProfile \cup {"profile"}
FromList == FromSpec \cup {"spec", "building"}

(* Every marker says what it stands for, or torn knows why it does not; and  *)
(* the steps behind a run have left theirs.                                  *)
MarkersTrue ==
    /\ sh.pc \in PastGate \cup {"gate"} => kept.qemu
    /\ kept.cpulist \in {"empty", "partial"} => "writing" \in torn
    /\ sh.pc \in FromList => kept.cpulist # "none"
    /\ kept.spec = "partial" => "building" \in torn
    /\ sh.pc \in FromSpec => kept.spec # "none"
    /\ sh.pc \in FromProfile => kept.profile
    /\ sh.pc \in FromStart => vm # "none"
    /\ sh.pc \in {"copy", "ready"} \/ kept.ready => kept.address
    /\ sh.pc = "ready" \/ kept.ready => kept.copied \/ "copy" \in torn
    /\ sh.pc \in FromReady => kept.ready

(* A VM that is shutting down was left by a host run on this very boot, and  *)
(* each mode has command lines of its own.                                   *)
ModesApart ==
    /\ sh.pc \notin Ended =>
          /\ sh.mode = "host" => sh.want = <<"args">>
          /\ sh.mode = "guest" => sh.want \in {<<"args", "isolation">>, <<"args", "blank">>}
    /\ vm = "stopping" => EndsWith(boot.cmdline, <<"args">>)
    /\ sh.pc = "prepared" /\ sh.mode = "guest" => vm = "running"

(* Every step keeps the markers true: one case per action.                   *)
LEMMA MarkersStep == TypeOK /\ MarkersTrue /\ [Next]_vars => MarkersTrue'
<1> SUFFICES ASSUME TypeOK, MarkersTrue, [Next]_vars
             PROVE  MarkersTrue'
    OBVIOUS
<1>1. ASSUME NEW mode \in Modes, Launch(mode)
      PROVE  MarkersTrue'
    BY <1>1 DEF Launch, TypeOK, Scripts, Markers, MarkersTrue, FromReady, FromStart,
           FromProfile, FromSpec, FromList, Ended, PastGate
<1>2. CASE Reboot
    BY <1>2 DEF Reboot, TypeOK, Scripts, Markers, MarkersTrue, FromReady, FromStart,
           FromProfile, FromSpec, FromList, Ended, PastGate
<1>3. CASE ManualHandling
    BY <1>3 DEF ManualHandling, rest, MarkersTrue
<1>4. CASE Settle
    <2>1. sh'.pc \in Checks \cup {"failed"}
        BY <1>4, StepSh DEF Settle, Ended, Checks
    <2>2. /\ UNCHANGED <<torn, vm, kept.qemu, kept.cpulist, kept.spec, kept.profile>>
          /\ UNCHANGED <<kept.address, kept.copied, kept.ready>>
        BY <1>4 DEF Settle, TypeOK, Markers
    <2> QED BY <2>1, <2>2 DEF MarkersTrue, FromReady, FromStart, FromProfile, FromSpec, FromList,
           PastGate, Checks
<1>5. CASE Clean
    <2>1. sh'.pc \in Checks \cup {"failed"}
        BY <1>5, StepSh DEF Clean, Ended, Checks
    <2>2. /\ UNCHANGED <<torn, vm, kept.qemu, kept.cpulist, kept.spec, kept.profile>>
          /\ UNCHANGED <<kept.address, kept.copied, kept.ready>>
        BY <1>5 DEF Clean, TypeOK, Markers
    <2> QED BY <2>1, <2>2 DEF MarkersTrue, FromReady, FromStart, FromProfile, FromSpec, FromList,
           PastGate, Checks
<1>6. CASE CheckKernel
    <2>1. sh'.pc \in Checks \cup {"virt", "failed"} /\ UNCHANGED <<kept, torn, vm>>
        BY <1>6 DEF CheckKernel, Demand, TypeOK, Scripts, Checks
    <2> QED BY <2>1 DEF MarkersTrue, FromReady, FromStart, FromProfile, FromSpec, FromList,
           PastGate, Checks
<1>7. CASE RecordCmdline
    <2>1. sh'.pc \in Checks \cup {"failed"}
        BY <1>7, StepSh DEF RecordCmdline, Ended, Checks
    <2>2. /\ UNCHANGED <<torn, vm, kept.qemu, kept.cpulist, kept.spec, kept.profile>>
          /\ UNCHANGED <<kept.address, kept.copied, kept.ready>>
        BY <1>7 DEF RecordCmdline, TypeOK, Markers
    <2> QED BY <2>1, <2>2 DEF MarkersTrue, FromReady, FromStart, FromProfile, FromSpec, FromList,
           PastGate, Checks
<1>8. CASE UpdateGrub
    <2>1. sh'.pc \in Checks \cup {"failed"}
        BY <1>8, StepSh DEF UpdateGrub, Ended, Checks
    <2>2. /\ UNCHANGED <<torn, vm, kept.qemu, kept.cpulist, kept.spec, kept.profile>>
          /\ UNCHANGED <<kept.address, kept.copied, kept.ready>>
        BY <1>8 DEF UpdateGrub, TypeOK, Markers
    <2> QED BY <2>1, <2>2 DEF MarkersTrue, FromReady, FromStart, FromProfile, FromSpec, FromList,
           PastGate, Checks
<1>9. CASE MakeConfig
    <2>1. sh'.pc \in Checks \cup {"virt", "failed"} /\ UNCHANGED <<kept, torn, vm>>
        BY <1>9 DEF MakeConfig, Demand, TypeOK, Scripts, Checks
    <2> QED BY <2>1 DEF MarkersTrue, FromReady, FromStart, FromProfile, FromSpec, FromList,
           PastGate, Checks
<1>10. CASE CheckEffective
    <2>1. sh'.pc \in Checks \cup {"virt", "failed"} /\ UNCHANGED <<kept, torn, vm>>
        BY <1>10 DEF CheckEffective, Demand, TypeOK, Scripts, Checks
    <2> QED BY <2>1 DEF MarkersTrue, FromReady, FromStart, FromProfile, FromSpec, FromList,
           PastGate, Checks
<1>11. CASE CheckSELinux
    <2>1. sh'.pc \in Checks \cup {"virt", "failed"} /\ UNCHANGED <<kept, torn, vm>>
        BY <1>11 DEF CheckSELinux, Demand, TypeOK, Scripts, Checks
    <2> QED BY <2>1 DEF MarkersTrue, FromReady, FromStart, FromProfile, FromSpec, FromList,
           PastGate, Checks
<1>12. CASE CheckService
    <2>1. sh'.pc \in Checks \cup {"virt", "failed"} /\ UNCHANGED <<kept, torn, vm>>
        BY <1>12 DEF CheckService, NextUnit, Step, TypeOK, Scripts, Checks
    <2> QED BY <2>1 DEF MarkersTrue, FromReady, FromStart, FromProfile, FromSpec, FromList,
           PastGate, Checks
<1>13. CASE CheckVirt
    BY <1>13, StepSh DEF CheckVirt, TypeOK, Scripts, Markers, MarkersTrue, FromReady,
           FromStart, FromProfile, FromSpec, FromList, Ended, PastGate, Checks
<1>14. CASE Gate
    BY <1>14, StepSh DEF Gate, TypeOK, Scripts, Markers, MarkersTrue, FromReady, FromStart,
           FromProfile, FromSpec, FromList, Ended, PastGate, Checks
<1>15. CASE CpuList
    BY <1>15, StepSh DEF CpuList, TypeOK, Scripts, Markers, MarkersTrue, FromReady,
           FromStart, FromProfile, FromSpec, FromList, Ended, PastGate, Checks
<1>16. CASE CpuListWritten
    <2>1. sh'.pc = "spec" /\ UNCHANGED <<torn, vm>>
        BY <1>16 DEF CpuListWritten, Step, TypeOK, Scripts
    <2>4. kept'.cpulist = "whole"
        BY <1>16 DEF CpuListWritten, TypeOK, Markers
    <2>2. UNCHANGED <<kept.qemu, kept.spec, kept.profile, kept.address, kept.copied, kept.ready>>
        BY <1>16 DEF CpuListWritten, TypeOK, Markers
    <2>3. kept.qemu
        BY <1>16 DEF CpuListWritten, Step, MarkersTrue, PastGate
    <2> QED BY <2>1, <2>2, <2>3, <2>4 DEF MarkersTrue, FromReady, FromStart, FromProfile,
           FromSpec, FromList
<1>17. CASE Spec2017
    BY <1>17, StepSh DEF Spec2017, TypeOK, Scripts, Markers, MarkersTrue, FromReady,
           FromStart, FromProfile, FromSpec, FromList, Ended, PastGate, Checks
<1>18. CASE Spec2017Built
    BY <1>18, StepSh DEF Spec2017Built, TypeOK, Scripts, Markers, MarkersTrue, FromReady,
           FromStart, FromProfile, FromSpec, FromList, Ended, PastGate, Checks
<1>19. CASE Profile
    BY <1>19, StepSh DEF Profile, TypeOK, Scripts, Markers, MarkersTrue, FromReady,
           FromStart, FromProfile, FromSpec, FromList, Ended, PastGate, Checks
<1>20. CASE DefineVm
    BY <1>20, StepSh DEF DefineVm, TypeOK, Scripts, Markers, MarkersTrue, FromReady,
           FromStart, FromProfile, FromSpec, FromList, Ended, PastGate, Checks
<1>21. CASE StartVm
    BY <1>21, StepSh DEF StartVm, Started, TypeOK, Scripts, Markers, MarkersTrue, FromReady,
           FromStart, FromProfile, FromSpec, FromList, Ended, PastGate, Checks
<1>22. CASE Address
    BY <1>22, StepSh DEF Address, TypeOK, Scripts, Markers, MarkersTrue, FromReady,
           FromStart, FromProfile, FromSpec, FromList, Ended, PastGate, Checks
<1>23. CASE Copy
    BY <1>23, StepSh DEF Copy, TypeOK, Scripts, Markers, MarkersTrue, FromReady, FromStart,
           FromProfile, FromSpec, FromList, Ended, PastGate, Checks
<1>24. CASE CopyFails
    BY <1>24, StepSh DEF CopyFails, TypeOK, Scripts, Markers, MarkersTrue, FromReady,
           FromStart, FromProfile, FromSpec, FromList, Ended, PastGate, Checks
<1>25. CASE Ready
    BY <1>25, StepSh DEF Ready, TypeOK, Scripts, Markers, MarkersTrue, FromReady, FromStart,
           FromProfile, FromSpec, FromList, Ended, PastGate, Checks
<1>26. CASE Final
    BY <1>26, StepSh DEF Final, Started, TypeOK, Scripts, Markers, MarkersTrue, FromReady,
           FromStart, FromProfile, FromSpec, FromList, Ended, PastGate, Checks
<1>27. CASE VmStops
    BY <1>27 DEF VmStops, rest, MarkersTrue
<1>28. CASE Abort
    <2>1. sh'.pc = "failed" /\ UNCHANGED vm
        BY <1>28 DEF Abort, TypeOK, Scripts
    <2>2. CASE kept' = kept
        BY <1>28, <2>1, <2>2 DEF Abort, MarkersTrue, FromReady, FromStart, FromProfile,
               FromSpec, FromList, PastGate
    <2>3. CASE sh.pc = "writing" /\ kept' # kept
        BY <1>28, <2>1, <2>3 DEF Abort, TypeOK, Markers, MarkersTrue, FromReady, FromStart,
               FromProfile, FromSpec, FromList, PastGate
    <2>4. CASE sh.pc = "building" /\ kept' # kept
        BY <1>28, <2>1, <2>4 DEF Abort, TypeOK, Markers, MarkersTrue, FromReady, FromStart,
               FromProfile, FromSpec, FromList, PastGate
    <2> QED BY <1>28, <2>2, <2>3, <2>4 DEF Abort
<1>29. CASE UNCHANGED vars
    BY <1>29 DEF vars, MarkersTrue
<1> QED BY <1>1, <1>2, <1>3, <1>4, <1>5, <1>6, <1>7, <1>8, <1>9, <1>10, <1>11,
           <1>12, <1>13, <1>14, <1>15, <1>16, <1>17, <1>18, <1>19, <1>20, <1>21,
           <1>22, <1>23, <1>24, <1>25, <1>26, <1>27, <1>28, <1>29 DEF Next,
           EnvStep

(* The two modes ask for lines that no command line can both end with.        *)
LEMMA LinesApart ==
    ASSUME NEW line \in Seq(Words), NEW want \in {<<"args", "isolation">>, <<"args", "blank">>},
           EndsWith(line, <<"args">>)
    PROVE  ~EndsWith(line, want)
<1>1. Len(line) \in Nat /\ Len(<<"args">>) = 1 /\ Len(want) = 2
    OBVIOUS
<1>2. line[Len(line)] = "args"
    <2>1. Len(line) >= 1 /\ SubSeq(line, Len(line), Len(line)) = <<"args">>
        BY <1>1 DEF EndsWith
    <2>2. PICK n \in Int : n = Len(line)
        BY <1>1
    <2>3. \A i \in n .. n : line[i] \in Words
        BY <1>1, <2>1, <2>2
    <2>4. \A i \in 1 .. n - n + 1 : SubSeq(line, n, n)[i] = line[n + i - 1]
        BY <2>3, SubSeqProperties
    <2>5. SubSeq(line, n, n)[1] = line[n]
        BY <2>4
    <2>6. SubSeq(line, n, n)[1] = <<"args">>[1]
        BY <2>1, <2>2, Zenon
    <2>7. <<"args">>[1] = "args"
        OBVIOUS
    <2> QED BY <2>2, <2>5, <2>6, <2>7, Zenon
<1>3. ASSUME EndsWith(line, want)
      PROVE  FALSE
    <2>1. Len(line) >= 2 /\ SubSeq(line, Len(line) - 1, Len(line)) = want
        BY <1>1, <1>3 DEF EndsWith
    <2>2. SubSeq(line, Len(line) - 1, Len(line))[2] = line[Len(line)]
        BY <1>1, <2>1
    <2> QED BY <1>2, <2>1, <2>2
<1> QED BY <1>3

(* Every step keeps the modes apart; Final is the one that leaves the VM.    *)
LEMMA ModesStep == TypeOK /\ GateInv /\ MarkersTrue /\ ModesApart /\ [Next]_vars => ModesApart'
<1> SUFFICES ASSUME TypeOK, GateInv, MarkersTrue, ModesApart, [Next]_vars
             PROVE  ModesApart'
    OBVIOUS
<1>1. ASSUME NEW mode \in Modes, Launch(mode)
      PROVE  ModesApart'
    BY <1>1 DEF Launch, CmdLine, Modes, ModesApart, Ended
<1>2. CASE Reboot
    BY <1>2 DEF Reboot, TypeOK, Scripts, ModesApart, Ended
<1>3. CASE ManualHandling
    BY <1>3 DEF ManualHandling, rest, ModesApart
<1>4. CASE Settle
    BY <1>4, StepSh DEF Settle, ModesApart, Ended, PastGate, Checks
<1>5. CASE Clean
    BY <1>5, StepSh DEF Clean, ModesApart, Ended, PastGate, Checks
<1>6. CASE CheckKernel
    <2>1. /\ sh'.pc \in Checks /\ sh.pc \in Checks /\ sh'.mode = sh.mode /\ sh'.want = sh.want
          /\ UNCHANGED <<boot, vm>>
        BY <1>6 DEF CheckKernel, Demand, TypeOK, Scripts, Checks
    <2> QED BY <2>1 DEF ModesApart, Ended, Checks
<1>7. CASE RecordCmdline
    BY <1>7, StepSh DEF RecordCmdline, ModesApart, Ended, PastGate, Checks
<1>8. CASE UpdateGrub
    <2>1. PICK to \in {"mkconfig", "effective"} : Step("grub", to)
        BY <1>8 DEF UpdateGrub
    <2>2. /\ sh.pc = "grub" /\ sh'.pc = to /\ sh'.mode = sh.mode /\ sh'.want = sh.want
          /\ UNCHANGED <<boot, vm>>
        BY <1>8, <2>1, StepSh DEF UpdateGrub, Checks
    <2> QED BY <2>2 DEF ModesApart, Ended
<1>9. CASE MakeConfig
    <2>1. /\ sh'.pc \in Checks /\ sh.pc \in Checks /\ sh'.mode = sh.mode /\ sh'.want = sh.want
          /\ UNCHANGED <<boot, vm>>
        BY <1>9 DEF MakeConfig, Demand, TypeOK, Scripts, Checks
    <2> QED BY <2>1 DEF ModesApart, Ended, Checks
<1>10. CASE CheckEffective
    <2>1. /\ sh'.pc \in Checks /\ sh.pc \in Checks /\ sh'.mode = sh.mode /\ sh'.want = sh.want
          /\ UNCHANGED <<boot, vm>>
        BY <1>10 DEF CheckEffective, Demand, TypeOK, Scripts, Checks
    <2> QED BY <2>1 DEF ModesApart, Ended, Checks
<1>11. CASE CheckSELinux
    <2>1. /\ sh'.pc \in Checks /\ sh.pc \in Checks /\ sh'.mode = sh.mode /\ sh'.want = sh.want
          /\ UNCHANGED <<boot, vm>>
        BY <1>11 DEF CheckSELinux, Demand, TypeOK, Scripts, Checks
    <2> QED BY <2>1 DEF ModesApart, Ended, Checks
<1>12. CASE CheckService
    <2>1. /\ sh'.pc \in {"service", "virt", "failed"} /\ sh'.mode = sh.mode /\ sh'.want = sh.want
          /\ sh.pc = "service"
        BY <1>12 DEF CheckService, NextUnit, Step, TypeOK, Scripts
    <2>2. boot'.cmdline = boot.cmdline /\ UNCHANGED vm
        BY <1>12 DEF CheckService, TypeOK, Systems
    <2> QED BY <2>1, <2>2 DEF ModesApart, Ended
<1>13. CASE CheckVirt
    BY <1>13, StepSh DEF CheckVirt, ModesApart, Ended, PastGate, Checks
<1>14. CASE Gate
    BY <1>14, StepSh DEF Gate, ModesApart, Ended, PastGate, Checks
<1>15. CASE CpuList
    BY <1>15, StepSh DEF CpuList, ModesApart, Ended, PastGate, Checks
<1>16. CASE CpuListWritten
    BY <1>16, StepSh DEF CpuListWritten, ModesApart, Ended, PastGate, Checks
<1>17. CASE Spec2017
    BY <1>17, StepSh DEF Spec2017, ModesApart, Ended, PastGate, Checks
<1>18. CASE Spec2017Built
    BY <1>18, StepSh DEF Spec2017Built, ModesApart, Ended, PastGate, Checks
<1>19. CASE Profile
    BY <1>19, StepSh DEF Profile, ModesApart, Ended, PastGate, Checks
<1>20. CASE DefineVm
    BY <1>20, StepSh DEF DefineVm, ModesApart, Ended, PastGate, Checks
<1>21. CASE StartVm
    BY <1>21, StepSh DEF StartVm, Started, ModesApart, Ended, PastGate, Checks
<1>22. CASE Address
    BY <1>22, StepSh DEF Address, ModesApart, Ended, PastGate, Checks
<1>23. CASE Copy
    BY <1>23, StepSh DEF Copy, ModesApart, Ended, PastGate, Checks
<1>24. CASE CopyFails
    BY <1>24, StepSh DEF CopyFails, ModesApart, Ended, PastGate, Checks
<1>25. CASE Ready
    BY <1>25, StepSh DEF Ready, ModesApart, Ended, PastGate, Checks
<1>26. CASE Final
    <2>1. sh.pc = "final" /\ sh'.pc = "prepared" /\ sh'.mode = sh.mode /\ UNCHANGED boot
        BY <1>26, StepSh DEF Final, Ended, PastGate, Checks
    <2>2. EndsWith(boot.cmdline, sh.want) /\ boot.cmdline \in Seq(Words)
        BY <2>1, GateFromInv DEF GateHonest, PastGate, TypeOK, Systems
    <2>3. sh.mode = "host" => sh.want = <<"args">>
        BY <2>1 DEF ModesApart, Ended
    <2>4. sh.mode = "guest" => vm # "stopping"
        BY <2>1, <2>2, LinesApart DEF ModesApart, Ended
    <2>5. vm # "none"
        BY <2>1 DEF MarkersTrue, FromStart, FromReady
    <2> QED BY <1>26, <2>1, <2>2, <2>3, <2>4, <2>5 DEF Final, Started, ModesApart, Ended,
           TypeOK, Scripts, Modes
<1>27. CASE VmStops
    BY <1>27 DEF VmStops, rest, ModesApart
<1>28. CASE Abort
    BY <1>28 DEF Abort, TypeOK, Scripts, ModesApart, Ended
<1>29. CASE UNCHANGED vars
    BY <1>29 DEF vars, ModesApart
<1> QED BY <1>1, <1>2, <1>3, <1>4, <1>5, <1>6, <1>7, <1>8, <1>9, <1>10, <1>11,
           <1>12, <1>13, <1>14, <1>15, <1>16, <1>17, <1>18, <1>19, <1>20, <1>21,
           <1>22, <1>23, <1>24, <1>25, <1>26, <1>27, <1>28, <1>29 DEF Next,
           EnvStep

-----------------------------------------------------------------------------
(* One reboot is enough.                                                     *)

BeforeGate == Checks \cup {"virt", "gate"}
AfterGrub == {"mkconfig", "effective", "selinux", "service", "virt", "gate"}
AfterRecord == AfterGrub \cup {"record", "grub"}

(* What a run has written for the next boot once a check is behind it.       *)
Written ==
    /\ sh.pc \in BeforeGate => sh.want = CmdLine(sh.mode)
    /\ sh.pc \in AfterRecord => disk.kernel
    /\ sh.pc \in AfterGrub => disk.grub = Orig \o sh.want
    /\ sh.pc \in {"service", "virt", "gate"} => ~disk.selinux
    /\ sh.pc = "service" => \A u \in Units : u < sh.unit => disk.unit[u] # "enabled"
    /\ sh.pc \in {"virt", "gate"} => \A u \in Units : disk.unit[u] # "enabled"

(* The machine is set up to boot with a command line, and it was booted so.  *)
SetUp(want) ==
    /\ disk.kernel /\ ~disk.selinux /\ disk.grub = Orig \o want
    /\ \A u \in Units : disk.unit[u] # "enabled"
Booted == boot.kernel /\ boot.up = {} /\ boot.cmdline = Trimmed(disk.cfg)

(* The two cases in which a reboot is asked for again.                       *)
Excused == sh.want = <<"args", "blank">> \/ disk.cfg # disk.grub

(* From the demand over the reboot to the gate of the next run.              *)
Converging ==
    /\ asked # "none" => sh.pc \in {"reboot", "idle"} /\ SetUp(CmdLine(asked))
    /\ asked # "none" /\ sh.pc = "idle" => Booted
    /\ sh.again /\ sh.pc \in BeforeGate =>
          SetUp(sh.want) /\ Booted /\ sh.pc # "mkconfig" /\ (sh.reboot => Excused)
    /\ sh.again /\ sh.pc = "reboot" => Excused

(* A run keeps its command line up to the gate.                              *)
LEMMA WantKept ==
    ASSUME Written, sh.pc \in BeforeGate, UNCHANGED <<sh.mode, sh.want, kept.cpulist>>
    PROVE  sh'.want = CmdLine(sh.mode)'
BY DEF Written, CmdLine

(* Past the gate and between runs nothing is being written.                  *)
LEMMA WrittenAway ==
    ASSUME sh'.pc \in PastGate \cup Ended
    PROVE  Written'
BY DEF Written, BeforeGate, AfterRecord, AfterGrub, PastGate, Ended, Checks

(* Every check leaves what it has to write behind it.                        *)
LEMMA WrittenStep == TypeOK /\ LineInv /\ GateInv /\ Written /\ [Next]_vars => Written'
<1> SUFFICES ASSUME TypeOK, LineInv, GateInv, Written, [Next]_vars
             PROVE  Written'
    OBVIOUS
<1>1. ASSUME NEW mode \in Modes, Launch(mode)
      PROVE  Written'
    BY <1>1 DEF Launch, CmdLine, Written, BeforeGate, AfterRecord, AfterGrub, Checks
<1>2. CASE Reboot
    BY <1>2, WrittenAway DEF Reboot, TypeOK, Scripts, Ended
<1>3. CASE ManualHandling
    BY <1>3 DEF ManualHandling, rest, Written, CmdLine
<1>4. CASE Settle
    <2>1. /\ sh.pc \in BeforeGate /\ UNCHANGED <<disk, sh.mode, sh.want, sh.unit, kept.cpulist>>
          /\ sh.pc \in {"settle", "clean"} => sh'.pc \in {"clean", "kernel", "failed"}
          /\ sh.pc = "record" => sh'.pc = "grub"
          /\ sh.pc = "virt" => sh'.pc = "gate"
          /\ sh.pc \in {"settle", "clean", "record", "virt"}
        BY <1>4, StepSh DEF Settle, BeforeGate, Ended, PastGate, Checks, TypeOK, Markers
    <2>2. sh'.want = CmdLine(sh.mode)'
        BY <2>1, WantKept
    <2> QED BY <2>1, <2>2 DEF Written, BeforeGate, AfterRecord, AfterGrub, Checks
<1>5. CASE Clean
    <2>1. /\ sh.pc \in BeforeGate /\ UNCHANGED <<disk, sh.mode, sh.want, sh.unit, kept.cpulist>>
          /\ sh.pc \in {"settle", "clean"} => sh'.pc \in {"clean", "kernel", "failed"}
          /\ sh.pc = "record" => sh'.pc = "grub"
          /\ sh.pc = "virt" => sh'.pc = "gate"
          /\ sh.pc \in {"settle", "clean", "record", "virt"}
        BY <1>5, StepSh DEF Clean, BeforeGate, Ended, PastGate, Checks, TypeOK, Markers
    <2>2. sh'.want = CmdLine(sh.mode)'
        BY <2>1, WantKept
    <2> QED BY <2>1, <2>2 DEF Written, BeforeGate, AfterRecord, AfterGrub, Checks
<1>6. CASE CheckKernel
    <2>1. /\ sh.pc = "kernel" /\ UNCHANGED <<sh.mode, sh.want, sh.unit, kept.cpulist>>
          /\ sh'.pc = "record"
        BY <1>6 DEF CheckKernel, Demand, TypeOK, Scripts
    <2>2. disk'.kernel
        BY <1>6 DEF CheckKernel, TypeOK, Disks
    <2>3. sh'.want = CmdLine(sh.mode)'
        BY <2>1, WantKept DEF BeforeGate, Checks
    <2> QED BY <2>1, <2>2, <2>3 DEF Written, BeforeGate, AfterRecord, AfterGrub, Checks
<1>7. CASE RecordCmdline
    <2>1. /\ sh.pc \in BeforeGate /\ UNCHANGED <<disk, sh.mode, sh.want, sh.unit, kept.cpulist>>
          /\ sh.pc \in {"settle", "clean"} => sh'.pc \in {"clean", "kernel", "failed"}
          /\ sh.pc = "record" => sh'.pc = "grub"
          /\ sh.pc = "virt" => sh'.pc = "gate"
          /\ sh.pc \in {"settle", "clean", "record", "virt"}
        BY <1>7, StepSh DEF RecordCmdline, BeforeGate, Ended, PastGate, Checks, TypeOK, Markers
    <2>2. sh'.want = CmdLine(sh.mode)'
        BY <2>1, WantKept
    <2> QED BY <2>1, <2>2 DEF Written, BeforeGate, AfterRecord, AfterGrub, Checks
<1>8. CASE UpdateGrub
    <2>1. /\ sh.pc = "grub" /\ UNCHANGED <<sh.mode, sh.want, sh.unit, kept.cpulist>>
          /\ sh'.pc = IF disk.grub # kept.cmdline \o sh.want THEN "mkconfig" ELSE "effective"
        BY <1>8 DEF UpdateGrub, Step, TypeOK, Scripts
    <2>2. disk'.kernel = disk.kernel /\ disk'.grub = kept.cmdline \o sh.want
        BY <1>8 DEF UpdateGrub, TypeOK, Disks
    <2>3. sh'.want = CmdLine(sh.mode)'
        BY <2>1, WantKept DEF BeforeGate, Checks
    <2>4. kept.cmdline = Orig
        BY <2>1 DEF LineInv
    <2> QED BY <2>1, <2>2, <2>3, <2>4 DEF Written, BeforeGate, AfterRecord, AfterGrub, Checks
<1>9. CASE MakeConfig
    <2>1. /\ sh.pc = "mkconfig" /\ UNCHANGED <<sh.mode, sh.want, sh.unit, kept.cpulist>>
          /\ sh'.pc = "effective"
        BY <1>9 DEF MakeConfig, Demand, TypeOK, Scripts
    <2>2. disk'.kernel = disk.kernel /\ disk'.grub = disk.grub
        BY <1>9 DEF MakeConfig, TypeOK, Disks
    <2>3. sh'.want = CmdLine(sh.mode)'
        BY <2>1, WantKept DEF BeforeGate, Checks
    <2> QED BY <2>1, <2>2, <2>3 DEF Written, BeforeGate, AfterRecord, AfterGrub, Checks
<1>10. CASE CheckEffective
    <2>1. /\ sh.pc = "effective" /\ UNCHANGED <<sh.mode, sh.want, sh.unit, kept.cpulist>>
          /\ sh'.pc = "selinux"
        BY <1>10 DEF CheckEffective, Demand, TypeOK, Scripts
    <2>2. UNCHANGED disk
        BY <1>10 DEF CheckEffective, TypeOK, Disks
    <2>3. sh'.want = CmdLine(sh.mode)'
        BY <2>1, WantKept DEF BeforeGate, Checks
    <2> QED BY <2>1, <2>2, <2>3 DEF Written, BeforeGate, AfterRecord, AfterGrub, Checks
<1>11. CASE CheckSELinux
    <2>1. /\ sh.pc = "selinux" /\ UNCHANGED <<sh.mode, sh.want, sh.unit, kept.cpulist>>
          /\ sh'.pc = "service"
        BY <1>11 DEF CheckSELinux, Demand, TypeOK, Scripts
    <2>2. disk'.kernel = disk.kernel /\ disk'.grub = disk.grub /\ ~disk'.selinux
        BY <1>11 DEF CheckSELinux, TypeOK, Disks
    <2>3. sh'.want = CmdLine(sh.mode)'
        BY <2>1, WantKept DEF BeforeGate, Checks
    <2>4. sh.unit = 1 /\ \A u \in Units : ~(u < 1)
        BY <2>1, NumUnitsAssumption DEF GateInv, Established, Checks, Units
    <2> QED BY <2>1, <2>2, <2>3, <2>4 DEF Written, BeforeGate, AfterRecord, AfterGrub, Checks
<1>12. CASE CheckService
    <2>1. sh.pc = "service" /\ sh.unit \in Units
        BY <1>12 DEF TypeOK, CheckService, Checks
    <2>2. CASE sh'.pc = "failed"
        BY <2>2, WrittenAway DEF Ended
    <2>3. CASE sh'.pc # "failed"
        <3>1. /\ UNCHANGED <<sh.mode, sh.want, kept.cpulist>> /\ sh'.unit = sh.unit + 1
              /\ sh'.pc = IF sh.unit + 1 \in Units THEN "service" ELSE "virt"
            BY <1>12, <2>3 DEF CheckService, NextUnit, Step, TypeOK, Scripts
        <3>2. /\ disk'.kernel = disk.kernel /\ disk'.grub = disk.grub
              /\ disk'.selinux = disk.selinux /\ disk'.unit[sh.unit] # "enabled"
              /\ \A u \in Units : disk.unit[u] # "enabled" => disk'.unit[u] # "enabled"
            <4>1. CASE disk.unit[sh.unit] = "enabled"
                BY <1>12, <2>1, <4>1 DEF CheckService, TypeOK, Disks
            <4>2. CASE disk.unit[sh.unit] # "enabled"
                BY <1>12, <2>1, <4>2 DEF CheckService
            <4> QED BY <4>1, <4>2
        <3>3. sh'.want = CmdLine(sh.mode)'
            BY <2>1, <3>1, WantKept DEF BeforeGate, Checks
        <3>4. \A u \in Units : u < sh.unit + 1 => u < sh.unit \/ u = sh.unit
            BY <2>1, NumUnitsAssumption DEF Units
        <3>5. sh'.pc = "virt" => \A u \in Units : u < sh.unit \/ u = sh.unit
            BY <2>1, <3>1, NumUnitsAssumption DEF Units
        <3> QED BY <2>1, <3>1, <3>2, <3>3, <3>4, <3>5 DEF Written, BeforeGate, AfterRecord,
               AfterGrub, Checks
    <2> QED BY <2>2, <2>3
<1>13. CASE CheckVirt
    <2>1. /\ sh.pc \in BeforeGate /\ UNCHANGED <<disk, sh.mode, sh.want, sh.unit, kept.cpulist>>
          /\ sh.pc \in {"settle", "clean"} => sh'.pc \in {"clean", "kernel", "failed"}
          /\ sh.pc = "record" => sh'.pc = "grub"
          /\ sh.pc = "virt" => sh'.pc = "gate"
          /\ sh.pc \in {"settle", "clean", "record", "virt"}
        BY <1>13, StepSh DEF CheckVirt, BeforeGate, Ended, PastGate, Checks, TypeOK, Markers
    <2>2. sh'.want = CmdLine(sh.mode)'
        BY <2>1, WantKept
    <2> QED BY <2>1, <2>2 DEF Written, BeforeGate, AfterRecord, AfterGrub, Checks
<1>14. CASE Gate
    BY <1>14, StepSh, WrittenAway DEF Gate, Ended, PastGate, Checks
<1>15. CASE CpuList
    BY <1>15, StepSh, WrittenAway DEF CpuList, Ended, PastGate, Checks
<1>16. CASE CpuListWritten
    BY <1>16, StepSh, WrittenAway DEF CpuListWritten, Ended, PastGate, Checks
<1>17. CASE Spec2017
    BY <1>17, StepSh, WrittenAway DEF Spec2017, Ended, PastGate, Checks
<1>18. CASE Spec2017Built
    BY <1>18, StepSh, WrittenAway DEF Spec2017Built, Ended, PastGate, Checks
<1>19. CASE Profile
    BY <1>19, StepSh, WrittenAway DEF Profile, Ended, PastGate, Checks
<1>20. CASE DefineVm
    BY <1>20, StepSh, WrittenAway DEF DefineVm, Ended, PastGate, Checks
<1>21. CASE StartVm
    BY <1>21, StepSh, WrittenAway DEF StartVm, Ended, PastGate, Checks
<1>22. CASE Address
    BY <1>22, StepSh, WrittenAway DEF Address, Ended, PastGate, Checks
<1>23. CASE Copy
    BY <1>23, StepSh, WrittenAway DEF Copy, Ended, PastGate, Checks
<1>24. CASE CopyFails
    BY <1>24, StepSh, WrittenAway DEF CopyFails, Ended, PastGate, Checks
<1>25. CASE Ready
    BY <1>25, StepSh, WrittenAway DEF Ready, Ended, PastGate, Checks
<1>26. CASE Final
    BY <1>26, StepSh, WrittenAway DEF Final, Ended, PastGate, Checks
<1>27. CASE VmStops
    BY <1>27 DEF VmStops, rest, Written, CmdLine
<1>28. CASE Abort
    BY <1>28, WrittenAway DEF Abort, TypeOK, Scripts, Ended
<1>29. CASE UNCHANGED vars
    BY <1>29 DEF vars, Written, CmdLine
<1> QED BY <1>1, <1>2, <1>3, <1>4, <1>5, <1>6, <1>7, <1>8, <1>9, <1>10, <1>11,
           <1>12, <1>13, <1>14, <1>15, <1>16, <1>17, <1>18, <1>19, <1>20, <1>21,
           <1>22, <1>23, <1>24, <1>25, <1>26, <1>27, <1>28, <1>29 DEF Next,
           EnvStep

(* Without a blank at its end a command line survives the boot.              *)
LEMMA BootKeeps ==
    ASSUME NEW want \in {<<"args">>, <<"args", "isolation">>}
    PROVE  EndsWith(Trimmed(Orig \o want), want)
<1> DEFINE line == Orig \o want
<1>1. want \in Seq(Words) /\ Len(want) \in 1..2 /\ want[Len(want)] # "blank"
    <2>1. CASE want = <<"args">>
        BY <2>1 DEF Words
    <2>2. CASE want = <<"args", "isolation">>
        BY <2>2 DEF Words
    <2> QED BY <2>1, <2>2
<1>2. Orig \in Seq(Words) /\ Len(Orig) = 1
    BY DEF Orig, Words
<1>3. /\ line \in Seq(Words) /\ Len(line) = 1 + Len(want)
      /\ \A i \in 1 .. 1 + Len(want) : line[i] = IF i <= 1 THEN Orig[i] ELSE want[i - 1]
    <2>1. /\ line \in Seq(Words) /\ Len(line) = Len(Orig) + Len(want)
          /\ \A i \in 1 .. Len(Orig) + Len(want) :
                line[i] = IF i <= Len(Orig) THEN Orig[i] ELSE want[i - Len(Orig)]
        BY <1>1, <1>2, ConcatProperties, Zenon
    <2> HIDE DEF line
    <2> QED BY <1>2, <2>1
<1>4. line[Len(line)] = want[Len(want)]
    BY <1>1, <1>3
<1>5. Trimmed(line) = line
    BY <1>1, <1>4 DEF Trimmed
<1>6. PICK k \in 1..2 : k = Len(want)
    BY <1>1
<1>7. Len(line) = k + 1 /\ \A i \in 2 .. k + 1 : line[i] \in Words /\ line[i] = want[i - 1]
    BY <1>1, <1>3, <1>6
<1>8. /\ SubSeq(line, 2, k + 1) \in Seq(Words)
      /\ Len(SubSeq(line, 2, k + 1)) = IF 2 <= k + 1 THEN k + 1 - 2 + 1 ELSE 0
      /\ \A i \in 1 .. k + 1 - 2 + 1 : SubSeq(line, 2, k + 1)[i] = line[2 + i - 1]
    BY <1>6, <1>7, SubSeqProperties
<1>9. Len(SubSeq(line, 2, k + 1)) = Len(want)
      /\ \A i \in 1 .. Len(want) : SubSeq(line, 2, k + 1)[i] = want[i]
    BY <1>6, <1>7, <1>8
<1>10. SubSeq(line, 2, k + 1) = want
    <2> HIDE DEF line
    <2>1. \A i \in 1 .. Len(SubSeq(line, 2, k + 1)) : SubSeq(line, 2, k + 1)[i] = want[i]
        BY <1>9
    <2> QED BY <1>1, <1>8, <1>9, <2>1, SeqEqual
<1>11. Len(line) - Len(want) + 1 = 2 /\ Len(want) <= Len(line)
    BY <1>6, <1>7
<1> QED BY <1>5, <1>6, <1>7, <1>10, <1>11 DEF EndsWith

(* A run that asks for nothing and is past its checks, or over.              *)
LEMMA ConvergingAway ==
    ASSUME asked' = "none", sh'.pc \in PastGate \cup {"failed", "warned", "idle"}
    PROVE  Converging'
BY DEF Converging, BeforeGate, Checks, PastGate

(* A check that changes nothing, for a run that follows its reboot, and asks *)
(* for another one only in the two cases.                                    *)
LEMMA ConvergingKept ==
    ASSUME Converging, UNCHANGED <<asked, sh.again, sh.want>>,
           sh.pc \in BeforeGate, sh'.pc \in BeforeGate \ {"mkconfig"},
           sh.again => /\ UNCHANGED <<disk.kernel, disk.selinux, disk.grub, disk.cfg, disk.unit>>
                       /\ UNCHANGED <<boot.kernel, boot.up, boot.cmdline>>
                       /\ sh'.reboot => sh.reboot \/ Excused
    PROVE  Converging'
<1>1. asked' = "none" /\ sh'.pc # "reboot"
    BY DEF Converging, BeforeGate, Checks
<1>2. CASE sh.again
    BY <1>1, <1>2 DEF Converging, SetUp, Booted, Excused
<1>3. CASE ~sh.again
    BY <1>1, <1>3 DEF Converging
<1> QED BY <1>2, <1>3

(* Every step leads on towards a gate that asks for no other reboot.         *)
LEMMA ConvergingStep == TypeOK /\ LineInv /\ Written /\ Converging /\ [Next]_vars => Converging'
<1> SUFFICES ASSUME TypeOK, LineInv, Written, Converging, [Next]_vars
             PROVE  Converging'
    OBVIOUS
<1>1. ASSUME NEW mode \in Modes, Launch(mode)
      PROVE  Converging'
    <2>1. /\ asked' = "none" /\ sh'.pc = "settle" /\ sh'.want = CmdLine(mode) /\ ~sh'.reboot
          /\ sh'.again => asked = mode /\ sh.pc = "idle"
          /\ UNCHANGED <<boot, disk>> /\ mode # "none"
        BY <1>1 DEF Launch, Modes
    <2>2. sh'.again => SetUp(CmdLine(mode)) /\ Booted
        BY <2>1 DEF Converging
    <2> QED BY <2>1, <2>2 DEF Converging, SetUp, Booted
<1>2. CASE Reboot
    <2>1. sh'.pc = "idle" /\ UNCHANGED <<disk, kept, asked>>
        BY <1>2 DEF Reboot, TypeOK, Scripts
    <2>2. asked # "none" => SetUp(CmdLine(asked))
        BY DEF Converging
    <2>3. asked # "none" => SetUp(CmdLine(asked))'
        BY <2>1, <2>2 DEF SetUp, CmdLine
    <2>4. asked # "none" => Booted'
        <3>1. /\ boot'.kernel = disk.kernel /\ boot'.cmdline = Trimmed(disk.cfg)
              /\ boot'.up = {u \in Units : disk.unit[u] = "enabled"}
            BY <1>2 DEF Reboot
        <3> QED BY <2>1, <2>2, <3>1 DEF SetUp, Booted
    <2> QED BY <2>1, <2>3, <2>4 DEF Converging, BeforeGate, Checks
<1>3. CASE ManualHandling
    BY <1>3 DEF ManualHandling, rest, Converging, SetUp, Booted, Excused, CmdLine
<1>4. CASE Settle
    <2>1. sh.pc \in BeforeGate /\ UNCHANGED <<asked, boot, disk, sh.again, sh.want, sh.reboot>>
        BY <1>4, StepSh DEF Settle, BeforeGate, Ended, PastGate, Checks
    <2>2. asked = "none"
        BY <2>1 DEF Converging, BeforeGate, Checks
    <2>3. sh'.pc \in {"clean", "kernel", "failed"}
        BY <1>4, StepSh DEF Settle, Ended, PastGate, Checks
    <2> QED BY <2>1, <2>2, <2>3, ConvergingAway, ConvergingKept DEF BeforeGate, Checks
<1>5. CASE Clean
    <2>1. sh.pc \in BeforeGate /\ UNCHANGED <<asked, boot, disk, sh.again, sh.want, sh.reboot>>
        BY <1>5, StepSh DEF Clean, BeforeGate, Ended, PastGate, Checks
    <2>2. sh'.pc \in BeforeGate \ {"mkconfig"}
        BY <1>5, StepSh DEF Clean, BeforeGate, Ended, PastGate, Checks
    <2> QED BY <2>1, <2>2, ConvergingKept
<1>6. CASE CheckKernel
    <2>1. /\ sh.pc = "kernel" /\ sh'.pc = "record" /\ UNCHANGED <<asked, boot, sh.again, sh.want>>
          /\ sh'.reboot = (sh.reboot \/ ~boot.kernel)
        BY <1>6, DemandSh DEF CheckKernel, TypeOK, Systems, Checks
    <2>2. disk'.kernel /\ UNCHANGED <<disk.selinux, disk.grub, disk.cfg, disk.unit>>
        BY <1>6 DEF CheckKernel, TypeOK, Disks
    <2>3. sh.again => disk.kernel /\ boot.kernel
        BY <2>1 DEF Converging, SetUp, Booted, BeforeGate, Checks
    <2>4. sh.again => disk'.kernel = disk.kernel
        BY <2>2, <2>3 DEF TypeOK, Disks, CheckKernel
    <2> QED BY <2>1, <2>2, <2>3, <2>4, ConvergingKept DEF BeforeGate, Checks
<1>7. CASE RecordCmdline
    <2>1. sh.pc \in BeforeGate /\ UNCHANGED <<asked, boot, disk, sh.again, sh.want, sh.reboot>>
        BY <1>7, StepSh DEF RecordCmdline, BeforeGate, Ended, PastGate, Checks
    <2>2. sh'.pc \in BeforeGate \ {"mkconfig"}
        BY <1>7, StepSh DEF RecordCmdline, BeforeGate, Ended, PastGate, Checks
    <2> QED BY <2>1, <2>2, ConvergingKept
<1>8. CASE UpdateGrub
    <2>1. PICK to \in {"mkconfig", "effective"} :
             Step("grub", to) /\ (to = "mkconfig" => disk.grub # kept.cmdline \o sh.want)
        BY <1>8 DEF UpdateGrub
    <2>2. /\ sh.pc = "grub" /\ sh'.pc = to /\ UNCHANGED <<asked, boot, sh.again, sh.want, sh.reboot>>
        BY <1>8, <2>1, StepSh DEF UpdateGrub, Checks
    <2>3. /\ disk'.grub = kept.cmdline \o sh.want
          /\ UNCHANGED <<disk.kernel, disk.selinux, disk.cfg, disk.unit>>
        BY <1>8 DEF UpdateGrub, TypeOK, Disks
    <2>4. kept.cmdline = Orig
        BY <2>2 DEF LineInv
    <2>5. sh.again => disk.grub = Orig \o sh.want
        BY <2>2 DEF Converging, SetUp, BeforeGate, Checks
    <2>6. CASE sh'.pc = "mkconfig"
        <3>1. ~sh.again /\ asked = "none"
            BY <2>1, <2>2, <2>4, <2>5, <2>6 DEF Converging
        <3> QED BY <2>2, <2>6, <3>1 DEF Converging
    <2>7. CASE sh'.pc = "effective"
        BY <2>2, <2>3, <2>4, <2>5, <2>7, ConvergingKept DEF BeforeGate, Checks
    <2> QED BY <2>2, <2>6, <2>7
<1>9. CASE MakeConfig
    <2>1. sh.pc = "mkconfig" /\ sh'.pc = "effective" /\ UNCHANGED <<asked, sh.again, sh.want>>
        BY <1>9, DemandSh DEF MakeConfig, Checks
    <2>2. ~sh.again
        BY <2>1 DEF Converging, BeforeGate, Checks
    <2> QED BY <2>1, <2>2, ConvergingKept DEF BeforeGate, Checks
<1>10. CASE CheckEffective
    <2>1. /\ sh.pc = "effective" /\ sh'.pc = "selinux"
          /\ UNCHANGED <<asked, boot, disk, sh.again, sh.want>>
          /\ sh'.reboot = (sh.reboot \/ ~EndsWith(boot.cmdline, sh.want))
        BY <1>10, DemandSh DEF CheckEffective, InEffect, Checks
    <2>2. sh.want \in Wants
        BY <2>1 DEF LineInv, Ended
    <2>3. sh.again => disk.grub = Orig \o sh.want /\ boot.cmdline = Trimmed(disk.cfg)
        BY <2>1 DEF Converging, SetUp, Booted, BeforeGate, Checks
    <2>4. sh.again => EndsWith(boot.cmdline, sh.want) \/ Excused
        BY <2>2, <2>3, BootKeeps DEF Wants, Excused
    <2> QED BY <2>1, <2>4, ConvergingKept DEF BeforeGate, Checks
<1>11. CASE CheckSELinux
    <2>1. /\ sh.pc = "selinux" /\ sh'.pc = "service"
          /\ UNCHANGED <<asked, boot, sh.again, sh.want>>
          /\ sh'.reboot = (sh.reboot \/ disk.selinux)
        BY <1>11, DemandSh DEF CheckSELinux, TypeOK, Disks, Checks
    <2>2. /\ disk'.selinux = FALSE
          /\ UNCHANGED <<disk.kernel, disk.grub, disk.cfg, disk.unit>>
        BY <1>11 DEF CheckSELinux, TypeOK, Disks
    <2>3. sh.again => ~disk.selinux
        BY <2>1 DEF Converging, SetUp, BeforeGate, Checks
    <2>4. sh.again => disk.selinux = FALSE
        BY <2>3 DEF TypeOK, Disks
    <2> QED BY <2>1, <2>2, <2>4, ConvergingKept DEF BeforeGate, Checks
<1>12. CASE CheckService
    <2>1. sh.pc = "service" /\ sh.unit \in Units /\ UNCHANGED asked
        BY <1>12 DEF TypeOK, CheckService, Checks
    <2>2. asked = "none"
        BY <2>1 DEF Converging
    <2>3. CASE sh'.pc = "failed"
        BY <2>1, <2>2, <2>3, ConvergingAway
    <2>4. CASE sh'.pc # "failed"
        <3>1. /\ UNCHANGED <<sh.want, sh.again>> /\ sh'.pc \in {"service", "virt"}
              /\ sh'.reboot => sh.reboot \/ disk.unit[sh.unit] = "enabled" \/ sh.unit \in boot.up
            BY <1>12, <2>4 DEF CheckService, NextUnit, Step, TypeOK, Scripts
        <3>2. sh.again => disk.unit[sh.unit] # "enabled" /\ boot.up = {}
            BY <2>1 DEF Converging, SetUp, Booted, BeforeGate, Checks
        <3>3. sh.again => UNCHANGED disk
            BY <1>12, <3>2 DEF CheckService
        <3>4. sh.again => UNCHANGED <<boot.kernel, boot.up, boot.cmdline>>
            BY <1>12, <3>2 DEF CheckService, TypeOK, Systems
        <3> QED BY <2>1, <3>1, <3>2, <3>3, <3>4, ConvergingKept DEF BeforeGate, Checks
    <2> QED BY <2>3, <2>4
<1>13. CASE CheckVirt
    <2>1. sh.pc \in BeforeGate /\ UNCHANGED <<asked, boot, disk, sh.again, sh.want, sh.reboot>>
        BY <1>13, StepSh DEF CheckVirt, BeforeGate, Ended, PastGate, Checks
    <2>2. sh'.pc \in BeforeGate \ {"mkconfig"}
        BY <1>13, StepSh DEF CheckVirt, BeforeGate, Ended, PastGate, Checks
    <2> QED BY <2>1, <2>2, ConvergingKept
<1>14. CASE Gate
    <2>1. PICK to \in {"reboot", "warned", "cpulist"} :
             Step("gate", to) /\ (to # "reboot" => ~sh.reboot) /\ (to = "reboot" => sh.reboot)
        BY <1>14 DEF Gate, TypeOK, Scripts
    <2>2. /\ sh.pc = "gate" /\ sh'.pc = to /\ UNCHANGED <<boot, disk, kept>>
          /\ UNCHANGED <<sh.want, sh.again, sh.mode>>
        BY <1>14, <2>1, StepSh DEF Gate, Ended, PastGate, Checks
    <2>3. CASE sh'.pc = "reboot"
        <3>1. asked' = sh.mode /\ sh.reboot
            BY <1>14, <2>1, <2>2, <2>3 DEF Gate
        <3>2. SetUp(CmdLine(sh.mode))
            BY <2>2 DEF Written, SetUp, BeforeGate, AfterRecord, AfterGrub
        <3>3. SetUp(CmdLine(asked))'
            BY <2>2, <3>1, <3>2 DEF SetUp, CmdLine
        <3>4. sh.again => Excused
            BY <2>2, <3>1 DEF Converging, BeforeGate
        <3> QED BY <2>2, <2>3, <3>3, <3>4 DEF Converging, Excused, BeforeGate, Checks
    <2>4. CASE sh'.pc # "reboot"
        <3>1. asked' = "none" /\ sh'.pc \in {"warned", "cpulist"}
            BY <1>14, <2>1, <2>2, <2>4 DEF Gate
        <3> QED BY <3>1, ConvergingAway DEF PastGate
    <2> QED BY <2>3, <2>4
<1>15. CASE CpuList
    <2>1. sh.pc \in PastGate \ {"prepared"} /\ UNCHANGED asked
        BY <1>15, StepSh DEF CpuList, Ended, PastGate, Checks
    <2>2. sh'.pc \in PastGate \cup {"failed"}
        BY <1>15, StepSh DEF CpuList, Ended, PastGate, Checks
    <2> QED BY <2>1, <2>2, ConvergingAway DEF Converging, PastGate
<1>16. CASE CpuListWritten
    <2>1. sh.pc \in PastGate \ {"prepared"} /\ UNCHANGED asked
        BY <1>16, StepSh DEF CpuListWritten, Ended, PastGate, Checks
    <2>2. sh'.pc \in PastGate \cup {"failed"}
        BY <1>16, StepSh DEF CpuListWritten, Ended, PastGate, Checks
    <2> QED BY <2>1, <2>2, ConvergingAway DEF Converging, PastGate
<1>17. CASE Spec2017
    <2>1. sh.pc \in PastGate \ {"prepared"} /\ UNCHANGED asked
        BY <1>17, StepSh DEF Spec2017, Ended, PastGate, Checks
    <2>2. sh'.pc \in PastGate \cup {"failed"}
        BY <1>17, StepSh DEF Spec2017, Ended, PastGate, Checks
    <2> QED BY <2>1, <2>2, ConvergingAway DEF Converging, PastGate
<1>18. CASE Spec2017Built
    <2>1. sh.pc \in PastGate \ {"prepared"} /\ UNCHANGED asked
        BY <1>18, StepSh DEF Spec2017Built, Ended, PastGate, Checks
    <2>2. sh'.pc \in PastGate \cup {"failed"}
        BY <1>18, StepSh DEF Spec2017Built, Ended, PastGate, Checks
    <2> QED BY <2>1, <2>2, ConvergingAway DEF Converging, PastGate
<1>19. CASE Profile
    <2>1. sh.pc \in PastGate \ {"prepared"} /\ UNCHANGED asked
        BY <1>19, StepSh DEF Profile, Ended, PastGate, Checks
    <2>2. sh'.pc \in PastGate \cup {"failed"}
        BY <1>19, StepSh DEF Profile, Ended, PastGate, Checks
    <2> QED BY <2>1, <2>2, ConvergingAway DEF Converging, PastGate
<1>20. CASE DefineVm
    <2>1. sh.pc \in PastGate \ {"prepared"} /\ UNCHANGED asked
        BY <1>20, StepSh DEF DefineVm, Ended, PastGate, Checks
    <2>2. sh'.pc \in PastGate \cup {"failed"}
        BY <1>20, StepSh DEF DefineVm, Ended, PastGate, Checks
    <2> QED BY <2>1, <2>2, ConvergingAway DEF Converging, PastGate
<1>21. CASE StartVm
    <2>1. sh.pc \in PastGate \ {"prepared"} /\ UNCHANGED asked
        BY <1>21, StepSh DEF StartVm, Ended, PastGate, Checks
    <2>2. sh'.pc \in PastGate \cup {"failed"}
        BY <1>21, StepSh DEF StartVm, Ended, PastGate, Checks
    <2> QED BY <2>1, <2>2, ConvergingAway DEF Converging, PastGate
<1>22. CASE Address
    <2>1. sh.pc \in PastGate \ {"prepared"} /\ UNCHANGED asked
        BY <1>22, StepSh DEF Address, Ended, PastGate, Checks
    <2>2. sh'.pc \in PastGate \cup {"failed"}
        BY <1>22, StepSh DEF Address, Ended, PastGate, Checks
    <2> QED BY <2>1, <2>2, ConvergingAway DEF Converging, PastGate
<1>23. CASE Copy
    <2>1. sh.pc \in PastGate \ {"prepared"} /\ UNCHANGED asked
        BY <1>23, StepSh DEF Copy, Ended, PastGate, Checks
    <2>2. sh'.pc \in PastGate \cup {"failed"}
        BY <1>23, StepSh DEF Copy, Ended, PastGate, Checks
    <2> QED BY <2>1, <2>2, ConvergingAway DEF Converging, PastGate
<1>24. CASE CopyFails
    <2>1. sh.pc \in PastGate \ {"prepared"} /\ UNCHANGED asked
        BY <1>24, StepSh DEF CopyFails, Ended, PastGate, Checks
    <2>2. sh'.pc \in PastGate \cup {"failed"}
        BY <1>24, StepSh DEF CopyFails, Ended, PastGate, Checks
    <2> QED BY <2>1, <2>2, ConvergingAway DEF Converging, PastGate
<1>25. CASE Ready
    <2>1. sh.pc \in PastGate \ {"prepared"} /\ UNCHANGED asked
        BY <1>25, StepSh DEF Ready, Ended, PastGate, Checks
    <2>2. sh'.pc \in PastGate \cup {"failed"}
        BY <1>25, StepSh DEF Ready, Ended, PastGate, Checks
    <2> QED BY <2>1, <2>2, ConvergingAway DEF Converging, PastGate
<1>26. CASE Final
    <2>1. sh.pc \in PastGate \ {"prepared"} /\ UNCHANGED asked
        BY <1>26, StepSh DEF Final, Ended, PastGate, Checks
    <2>2. sh'.pc \in PastGate \cup {"failed"}
        BY <1>26, StepSh DEF Final, Ended, PastGate, Checks
    <2> QED BY <2>1, <2>2, ConvergingAway DEF Converging, PastGate
<1>27. CASE VmStops
    BY <1>27 DEF VmStops, rest, Converging, SetUp, Booted, Excused, CmdLine
<1>28. CASE Abort
    <2>1. asked' = "none" /\ sh'.pc = "failed"
        BY <1>28 DEF Abort, Ended, Converging, TypeOK, Scripts
    <2> QED BY <2>1, ConvergingAway
<1>29. CASE UNCHANGED vars
    BY <1>29 DEF vars, Converging, SetUp, Booted, Excused, CmdLine, Trimmed
<1> QED BY <1>1, <1>2, <1>3, <1>4, <1>5, <1>6, <1>7, <1>8, <1>9, <1>10, <1>11,
           <1>12, <1>13, <1>14, <1>15, <1>16, <1>17, <1>18, <1>19, <1>20, <1>21,
           <1>22, <1>23, <1>24, <1>25, <1>26, <1>27, <1>28, <1>29 DEF Next,
           EnvStep

(* What env.sh says last is true, over any number of runs, reboots and       *)
(* aborts: "successfully" of a complete environment, and "reboot" never      *)
(* twice in a row for one mode, but for the exceptions that the property     *)
(* names.                                                                    *)
THEOREM OutcomeHonestHolds == Spec => []OutcomeHonest
<1>1. Init => GateInv
    BY NumUnitsAssumption DEF Init, GateInv, Established, Remembered, AfterKernel,
           AfterEffective, AfterSELinux, AfterService, PastGate, Checks
<1>2. Init => LineInv
    BY WantTypes DEF Init, LineInv, OriginalKept, Ended
<1>3. Init => MarkersTrue /\ ModesApart
    BY DEF Init, MarkersTrue, ModesApart, FromReady, FromStart, FromProfile, FromSpec, FromList,
           PastGate, Ended
<1>4. Init => Written /\ Converging
    BY DEF Init, Written, Converging, BeforeGate, AfterRecord, AfterGrub, Checks
<1>5. TypeOK /\ MarkersTrue /\ ModesApart => PreparedComplete
    BY DEF TypeOK, Markers, MarkersTrue, ModesApart, PreparedComplete, FromReady, FromStart,
           FromProfile, FromSpec, FromList, PastGate
<1>6. Converging => OneRebootEnough
    BY DEF Converging, OneRebootEnough, Excused
<1>7. TypeOK /\ MarkersTrue /\ ModesApart /\ Converging => OutcomeHonest
    BY <1>5, <1>6 DEF OutcomeHonest
<1> QED BY <1>1, <1>2, <1>3, <1>4, <1>7, TypeCorrect, LineStep, GateStep, MarkersStep,
           ModesStep, WrittenStep, ConvergingStep, PTL DEF Spec

=============================================================================

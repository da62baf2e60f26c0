----------------------------- MODULE EnvPrepare -----------------------------
(***************************************************************************)
(* env.sh: check and repair the boot configuration of a machine, ask for a *)
(* reboot, and after it install the benchmarks, create the test VM and     *)
(* copy the benchmarks into it.  The operator runs it again and again,     *)
(* for "host" or for "guest", and reboots in between.                      *)
(*                                                                         *)
(* The script runs under "set -e" and may end anywhere.  What it has done  *)
(* is found again from markers: files, the state of units and of the VM,   *)
(* and variables that sed writes into vars.sh.  NEED_REBOOT is not one of  *)
(* them: it lives as long as the process.                                  *)
(***************************************************************************)
EXTENDS Integers, Sequences

CONSTANTS
    NumUnits,    \* how many units check_service looks at
    Optional,    \* those that need not exist (docker)
    MaxLaunches, \* bound: how often env.sh is started
    MaxFaults    \* bound: how often it is cut short, or a copy fails

Units == 1..NumUnits

ASSUME NumUnitsAssumption == NumUnits \in Nat \ {0}
ASSUME OptionalAssumption == Optional \subseteq Units

Modes == {"host", "guest"}

(* Kernel command lines, as sequences of what they are made of.  "blank" is  *)
(* a space at the end.                                                       *)
Orig == <<"orig">>
Empty == <<>>            \* "host_original_cmdline_empty" in vars.sh

VARIABLES
    sh,      \* env.sh: where it is, PREPARE_ENV, CMD_LINE_STR, NEED_REBOOT ...
    boot,    \* the running system
    disk,    \* what the next boot will use
    kept,    \* markers: vars.sh, vm-cpu-list, what is installed
    vm,      \* the test VM, once defined
    healthy, \* what only manual handling can change (page size, NUMA, KVM)
    asked,   \* the mode of the last run, if it ended by asking for a reboot
    ignored, \* since the last boot a demand for a reboot was lost or ignored
    torn,    \* what a run that was cut short left half done
    launches, faults

vars == <<sh, boot, disk, kept, vm, healthy, asked, ignored, torn, launches, faults>>
rest == <<healthy, ignored, launches, faults>>

Ended == {"idle", "reboot", "warned", "failed", "prepared"}
PastGate == {"cpulist", "writing", "spec", "building", "profile", "define", "start",
             "address", "copy", "ready", "final", "prepared"}

Init ==
    /\ sh = [pc |-> "idle", mode |-> "host", want |-> <<>>, reboot |-> FALSE,
             unit |-> 1, again |-> FALSE]
    /\ boot \in [kernel : BOOLEAN, cmdline : {Orig}, selinux : BOOLEAN, up : SUBSET Units]
    /\ disk \in [kernel : {boot.kernel}, grub : {Orig}, cfg : {Orig},
                 selinux : {boot.selinux},
                 unit : [Units -> {"enabled", "disabled", "absent"}]]
    /\ \A u \in Units : /\ disk.unit[u] = "absent" => u \notin boot.up
                        /\ disk.unit[u] = "enabled" => u \in boot.up
    /\ kept = [settled |-> "no", cmdline |-> Empty, cpulist |-> "none", qemu |-> FALSE,
               spec |-> "none", profile |-> FALSE, address |-> FALSE, copied |-> FALSE,
               ready |-> FALSE]
    /\ vm = "none"
    /\ healthy \in BOOLEAN
    /\ asked = "none" /\ ignored = FALSE /\ torn = {}
    /\ launches = 0 /\ faults = 0

-----------------------------------------------------------------------------
(* The operator.                                                             *)

(* CMD_LINE_STR, from what vars.sh finds in vm-cpu-list.  Without a list the *)
(* guest's ends in the space before an empty ISOLATION_CPU_CMDLINE.          *)
CmdLine(mode) ==
    CASE mode = "host" -> <<"args">>
      [] mode = "guest" /\ kept.cpulist \in {"partial", "whole"} -> <<"args", "isolation">>
      [] OTHER -> <<"args", "blank">>

Launch(mode) ==
    /\ sh.pc \in Ended /\ launches < MaxLaunches
    /\ launches' = launches + 1
    /\ sh' = [pc |-> "settle", mode |-> mode, want |-> CmdLine(mode), reboot |-> FALSE,
              unit |-> 1, again |-> asked = mode /\ sh.pc = "idle"]
    /\ ignored' = (ignored \/ (sh.pc \in {"reboot", "failed"} /\ sh.reboot))
    /\ asked' = "none"
    /\ UNCHANGED <<boot, disk, kept, vm, healthy, torn, faults>>

(* grub passes no trailing space on; the VM does not come up by itself.      *)
Trimmed(line) ==
    IF line # <<>> /\ line[Len(line)] = "blank" THEN SubSeq(line, 1, Len(line) - 1) ELSE line

Reboot ==
    /\ sh.pc \in Ended
    /\ sh' = [sh EXCEPT !.pc = "idle"]
    /\ boot' = [kernel  |-> disk.kernel,
                cmdline |-> Trimmed(disk.cfg),
                selinux |-> disk.selinux,
                up      |-> {u \in Units : disk.unit[u] = "enabled"}]
    /\ vm' = IF vm = "none" THEN "none" ELSE "off"
    /\ ignored' = FALSE
    /\ UNCHANGED <<disk, kept, healthy, asked, torn, launches, faults>>

(* The operator sees to what the script warned of.                           *)
ManualHandling ==
    /\ sh.pc \in Ended /\ ~healthy
    /\ healthy' = TRUE
    /\ UNCHANGED <<sh, boot, disk, kept, vm, asked, ignored, torn, launches, faults>>

-----------------------------------------------------------------------------
(* env_check_and_build, up to the gate.                                      *)

Step(from, to) == sh.pc = from /\ sh' = [sh EXCEPT !.pc = to]
Demand(from, to, need) ==
    sh.pc = from /\ sh' = [sh EXCEPT !.pc = to, !.reboot = @ \/ need]

(* settle_workdir: the second "mv dir/*" of a directory already emptied      *)
(* finds nothing and fails.                                                  *)
Settle ==
    /\ \/ kept.settled = "no" /\ Step("settle", "clean")
          /\ kept' = [kept EXCEPT !.settled = "moved"]
       \/ kept.settled = "moved" /\ Step("settle", "failed") /\ UNCHANGED kept
       \/ kept.settled = "yes" /\ Step("settle", "kernel") /\ UNCHANGED kept
    /\ UNCHANGED <<boot, disk, vm, asked, torn, rest>>

Clean ==
    /\ Step("clean", "kernel")
    /\ kept' = [kept EXCEPT !.settled = "yes"]
    /\ UNCHANGED <<boot, disk, vm, asked, torn, rest>>

CheckKernel ==
    /\ Demand("kernel", "record", ~boot.kernel)
    /\ disk' = [disk EXCEPT !.kernel = TRUE]
    /\ UNCHANGED <<boot, kept, vm, asked, torn, rest>>

(* check_cmdline: the original goes to vars.sh once; the variant writes what *)
(* it finds every time.                                                      *)
RecordCmdline_Always ==
    /\ Step("record", "grub")
    /\ kept' = [kept EXCEPT !.cmdline = disk.grub]
    /\ UNCHANGED <<boot, disk, vm, asked, torn, rest>>

RecordCmdline ==
    /\ Step("record", "grub")
    /\ kept' = [kept EXCEPT !.cmdline = IF @ = Empty THEN disk.grub ELSE @]
    /\ UNCHANGED <<boot, disk, vm, asked, torn, rest>>

UpdateGrub ==
    LET grub == kept.cmdline \o sh.want
    IN  /\ Step("grub", IF disk.grub # grub THEN "mkconfig" ELSE "effective")
        /\ disk' = [disk EXCEPT !.grub = grub]
        /\ UNCHANGED <<boot, kept, vm, asked, torn, rest>>

MakeConfig ==
    /\ Demand("mkconfig", "effective", TRUE)
    /\ disk' = [disk EXCEPT !.cfg = disk.grub]
    /\ UNCHANGED <<boot, kept, vm, asked, torn, rest>>

(* grep "${CMD_LINE_STR}$" /proc/cmdline; the variant has no "$".            *)
Holds(line, want) ==
    \E i \in 0..Len(line) : Len(want) + i <= Len(line) /\ SubSeq(line, i + 1, i + Len(want)) = want

EndsWith(line, want) ==
    Len(want) <= Len(line) /\ SubSeq(line, Len(line) - Len(want) + 1, Len(line)) = want

InEffect_Anywhere == Holds(boot.cmdline, sh.want)
InEffect == EndsWith(boot.cmdline, sh.want)

CheckEffective ==
    /\ Demand("effective", "selinux", ~InEffect)
    /\ UNCHANGED <<boot, disk, kept, vm, asked, torn, rest>>

(* check_SELinux looks at the file only.                                     *)
CheckSELinux ==
    /\ Demand("selinux", "service", disk.selinux)
    /\ disk' = [disk EXCEPT !.selinux = FALSE]
    /\ UNCHANGED <<boot, kept, vm, asked, torn, rest>>

(* check_service, one unit after the other: disable it, or stop it when that *)
(* was done before.  The variants go one unit too far, and stop a unit that  *)
(* is enabled without disabling it.                                          *)
NextUnit_PastEnd(need) ==
    sh' = [sh EXCEPT !.pc = IF sh.unit \in Units THEN "service" ELSE "virt",
                     !.unit = sh.unit + 1, !.reboot = @ \/ need]

NextUnit(need) ==
    sh' = [sh EXCEPT !.pc = IF sh.unit + 1 \in Units THEN "service" ELSE "virt",
                     !.unit = sh.unit + 1, !.reboot = @ \/ need]

CheckService_StopOnly ==
    /\ sh.pc = "service"
    /\ boot' = [boot EXCEPT !.up = @ \ {sh.unit}]
    /\ NextUnit(sh.unit \in boot.up)
    /\ UNCHANGED <<disk, kept, vm, asked, torn, rest>>

CheckService ==
    /\ sh.pc = "service"
    /\ \/ /\ disk.unit[sh.unit] = "enabled"
          /\ disk' = [disk EXCEPT !.unit[sh.unit] = "disabled"]
          /\ NextUnit(TRUE)
          /\ UNCHANGED boot
       \/ /\ disk.unit[sh.unit] = "disabled"
          /\ boot' = [boot EXCEPT !.up = @ \ {sh.unit}]
          /\ NextUnit(sh.unit \in boot.up)
          /\ UNCHANGED disk
       \/ /\ disk.unit[sh.unit] = "absent"
          /\ IF sh.unit \in Optional THEN NextUnit(FALSE) ELSE Step("service", "failed")
          /\ UNCHANGED <<boot, disk>>
    /\ UNCHANGED <<kept, vm, asked, torn, rest>>

(* check_qemu and check_libvirt: the link is made when all else is done.     *)
CheckVirt ==
    /\ Step("virt", "gate")
    /\ kept' = [kept EXCEPT !.qemu = TRUE]
    /\ UNCHANGED <<boot, disk, vm, asked, torn, rest>>

(* The profile checks and the two exits.                                     *)
Gate ==
    /\ Step("gate", CASE sh.reboot -> "reboot"
                      [] ~sh.reboot /\ ~healthy -> "warned"
                      [] OTHER -> "cpulist")
    /\ asked' = IF sh.reboot THEN sh.mode ELSE "none"
    /\ UNCHANGED <<boot, disk, kept, vm, torn, rest>>

-----------------------------------------------------------------------------
(* env_check_and_build, past the gate.                                       *)

(* help.py opens vm-cpu-list and then writes it; a list that exists is taken *)
(* as it is.                                                                 *)
CpuList ==
    /\ Step("cpulist", IF kept.cpulist = "none" THEN "writing" ELSE "spec")
    /\ UNCHANGED <<boot, disk, kept, vm, asked, torn, rest>>

(* Left out: for a node of more than two ranges of CPUs help.py returns 0    *)
(* without the file.                                                         *)
CpuListWritten ==
    /\ Step("writing", "spec")
    /\ kept' = [kept EXCEPT !.cpulist = "whole"]
    /\ UNCHANGED <<boot, disk, vm, asked, torn, rest>>

(* install_spec_cpu: the directory check_benchmark looks for appears with    *)
(* the first benchmark that is built.                                        *)
Spec2017 ==
    /\ Step("spec", IF kept.spec = "none" THEN "building" ELSE "profile")
    /\ UNCHANGED <<boot, disk, kept, vm, asked, torn, rest>>

Spec2017Built ==
    /\ Step("building", "profile")
    /\ kept' = [kept EXCEPT !.spec = "whole"]
    /\ UNCHANGED <<boot, disk, vm, asked, torn, rest>>

(* create_basic_vm_profile edits the original in place and renames it last.  *)
Profile ==
    /\ Step("profile", "define")
    /\ kept' = [kept EXCEPT !.profile = TRUE]
    /\ UNCHANGED <<boot, disk, vm, asked, torn, rest>>

DefineVm ==
    /\ Step("define", IF kept.ready THEN "final" ELSE "start")
    /\ vm' = IF vm = "none" THEN "off" ELSE vm
    /\ UNCHANGED <<boot, disk, kept, asked, torn, rest>>

(* start_vm: a VM that is shutting down still calls itself running.          *)
Started == IF vm = "off" THEN "running" ELSE vm

StartVm ==
    /\ Step("start", "address")
    /\ vm' = Started
    /\ UNCHANGED <<boot, disk, kept, asked, torn, rest>>

(* The address is kept; a VM without one, or not yet, ends the run.          *)
Address ==
    /\ \/ Step("address", "copy") /\ kept' = [kept EXCEPT !.address = TRUE]
       \/ ~kept.address /\ Step("address", "failed") /\ UNCHANGED kept
    /\ UNCHANGED <<boot, disk, vm, asked, torn, rest>>

(* The three scp of prepare_benchmark_for_vm.                                *)
Copy ==
    /\ Step("copy", "ready")
    /\ kept' = [kept EXCEPT !.copied = TRUE]
    /\ UNCHANGED <<boot, disk, vm, asked, torn, rest>>

(* expect exits 0 whatever scp did, and gives up on it after two minutes.    *)
CopyFails ==
    /\ Step("copy", "ready") /\ faults < MaxFaults
    /\ faults' = faults + 1
    /\ torn' = IF kept.copied THEN torn ELSE torn \cup {"copy"}
    /\ UNCHANGED <<boot, disk, kept, vm, healthy, asked, ignored, launches>>

Ready ==
    /\ Step("ready", "final")
    /\ kept' = [kept EXCEPT !.ready = TRUE]
    /\ UNCHANGED <<boot, disk, vm, asked, torn, rest>>

(* stop_vm asks for a shutdown and does not wait for it.                     *)
Final ==
    /\ Step("final", "prepared")
    /\ vm' = CASE sh.mode = "guest" -> Started
               [] sh.mode = "host" /\ vm = "running" -> "stopping"
               [] OTHER -> vm
    /\ UNCHANGED <<boot, disk, kept, asked, torn, rest>>

VmStops ==
    /\ vm = "stopping" /\ vm' = "off"
    /\ UNCHANGED <<sh, boot, disk, kept, asked, torn, rest>>

(* The run ends anywhere.  What it was writing may be half there.            *)
Abort ==
    /\ sh.pc \notin Ended /\ faults < MaxFaults
    /\ faults' = faults + 1
    /\ sh' = [sh EXCEPT !.pc = "failed"]
    /\ kept' \in {kept}
           \cup {[kept EXCEPT !.cpulist = c] : c \in IF sh.pc = "writing"
                                                     THEN {"empty", "partial"} ELSE {}}
           \cup {[kept EXCEPT !.spec = c] : c \in IF sh.pc = "building"
                                                  THEN {"partial"} ELSE {}}
    /\ torn' = torn \cup (IF kept' = kept THEN {} ELSE {sh.pc})
    /\ UNCHANGED <<boot, disk, vm, healthy, asked, ignored, launches>>

EnvStep == \/ Settle \/ Clean \/ CheckKernel \/ RecordCmdline \/ UpdateGrub \/ MakeConfig
           \/ CheckEffective \/ CheckSELinux \/ CheckService \/ CheckVirt \/ Gate
           \/ CpuList \/ CpuListWritten \/ Spec2017 \/ Spec2017Built \/ Profile \/ DefineVm
           \/ StartVm \/ Address \/ Copy \/ CopyFails \/ Ready \/ Final

Next == \/ \E mode \in Modes : Launch(mode)
        \/ Reboot \/ ManualHandling \/ EnvStep \/ VmStops \/ Abort

Spec == Init /\ [][Next]_vars

-----------------------------------------------------------------------------
(* Properties                                                                *)

Words == {"orig", "args", "isolation", "blank"}
Checks == {"settle", "clean", "kernel", "record", "grub", "mkconfig", "effective", "selinux",
           "service"}
Scripts == [pc : Ended \cup PastGate \cup Checks \cup {"virt", "gate"}, mode : Modes,
            want : Seq(Words), reboot : BOOLEAN, unit : 1..NumUnits + 1, again : BOOLEAN]
Systems == [kernel : BOOLEAN, cmdline : Seq(Words), selinux : BOOLEAN, up : SUBSET Units]
Disks == [kernel : BOOLEAN, grub : Seq(Words), cfg : Seq(Words), selinux : BOOLEAN,
          unit : [Units -> {"enabled", "disabled", "absent"}]]
Markers == [settled : {"no", "moved", "yes"}, cmdline : Seq(Words),
            cpulist : {"none", "empty", "partial", "whole"}, qemu : BOOLEAN,
            spec : {"none", "partial", "whole"}, profile : BOOLEAN, address : BOOLEAN,
            copied : BOOLEAN, ready : BOOLEAN]

(* Types of the script's variables, the machine's state and the markers; up  *)
(* to the end of check_service the script's unit is one of the list.         *)
TypeOK ==
    /\ sh \in Scripts /\ (sh.pc \in Checks => sh.unit \in Units)
    /\ boot \in Systems /\ disk \in Disks /\ kept \in Markers
    /\ vm \in {"none", "off", "running", "stopping"}
    /\ healthy \in BOOLEAN /\ asked \in Modes \cup {"none"} /\ ignored \in BOOLEAN
    /\ torn \subseteq {"writing", "building", "copy"}
    /\ launches \in Nat /\ faults \in Nat

(* Past the gate of env_check_and_build the machine really runs what the     *)
(* checks are about: the kernel, the command line of this mode and no other, *)
(* none of the units.  SELinux, whose check looks at the file, may be on     *)
(* only when a demand for a reboot was ignored, or lost with the run that    *)
(* made it.                                                                  *)
GateHonest ==
    sh.pc \in PastGate =>
        /\ boot.kernel /\ boot.up = {}
        /\ EndsWith(boot.cmdline, sh.want)
        /\ ~disk.selinux /\ (boot.selinux => ignored)

(* The arguments of env.sh never pile up in the grub line, and the original  *)
(* is never lost, over switches between host and guest and over aborts.      *)
OriginalKept ==
    /\ kept.cmdline = Empty => disk.grub = Orig
    /\ kept.cmdline # Empty => kept.cmdline = Orig
    /\ disk.grub = Orig \/ \E w \in {<<"args">>, <<"args", "isolation">>, <<"args", "blank">>} :
                              disk.grub = Orig \o w

(* One reboot is enough: a run that follows the reboot its predecessor asked *)
(* for does not ask again, except in two cases: a guest run without a CPU    *)
(* list (its command line ends in a space that no boot preserves), and a     *)
(* grub.cfg that an abort left behind /etc/default/grub.                     *)
OneRebootEnough ==
    sh.pc = "reboot" /\ sh.again =>
        sh.want = <<"args", "blank">> \/ disk.cfg # disk.grub

(* "prepare env for ... successfully": everything is there and whole, unless *)
(* a run was cut short while it wrote the CPU list or built the benchmarks,  *)
(* or a copy failed unseen.  After a guest run the VM runs: the shutdown     *)
(* that stop_vm does not wait for is over, because a guest run cannot pass   *)
(* the gate without a reboot after a host run.                               *)
PreparedComplete ==
    sh.pc = "prepared" =>
        /\ kept.qemu /\ kept.profile /\ kept.address /\ kept.ready /\ vm # "none"
        /\ kept.cpulist = "whole" \/ "writing" \in torn
        /\ kept.spec = "whole" \/ "building" \in torn
        /\ kept.copied \/ "copy" \in torn
        /\ sh.mode = "guest" => vm = "running"

(* Both things a run may end by saying, "reboot" and "successfully", are     *)
(* true of the machine it says them about.                                   *)
OutcomeHonest == OneRebootEnough /\ PreparedComplete

=============================================================================

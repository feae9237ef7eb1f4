----------------------------- MODULE VbootStages -----------------------------
(***************************************************************************)
(* The verified-boot stage sequence of the read-only firmware:             *)
(* module_main (src/module/cb/readonly.c) calling vboot_init,              *)
(* vboot_select_firmware and vboot_select_and_load_kernel                  *)
(* (src/vboot/stages.c), halting whenever one of them returns non-zero.    *)
(*                                                                         *)
(* The verified-boot engine (VbInit, VbSelectFirmware,                     *)
(* VbSelectAndLoadKernel), the board flag queries, storage and the         *)
(* platform primitives are the environment: every result they may give is *)
(* a nondeterministic choice.  `trace' records, in order, the engine calls *)
(* (with their results) and the platform primitives the sequence invokes.  *)
(*                                                                         *)
(* cold_reboot() and power_off() do not return when they succeed on real   *)
(* hardware; the mocks a host test links in return 0 instead.  The         *)
(* constant PrimitiveReturnsOnSuccess chooses which of the two is linked.  *)
(***************************************************************************)
EXTENDS Integers, Sequences, SequencesExt

CONSTANTS
  CONFIG_OPROM_MATTERS,       \* build option: query the option ROM flag
  EngineResults,              \* results the engine may return
  SUCCESS, EC_REBOOT_TO_RO, SHUTDOWN_REQUESTED,
  PrimitiveReturnsOnSuccess   \* cold_reboot/power_off return 0 when they succeed

ASSUME {SUCCESS, EC_REBOOT_TO_RO, SHUTDOWN_REQUESTED} \subseteq EngineResults
ASSUME CONFIG_OPROM_MATTERS \in BOOLEAN /\ PrimitiveReturnsOnSuccess \in BOOLEAN

VARIABLES
  pc,        \* where the single thread of control is
  outFlags,  \* iparams.out_flags returned by VbInit
  vblocks,   \* live verification-block buffers of vboot_select_firmware
  kres,      \* the result of VbSelectAndLoadKernel
  trace      \* engine calls and platform primitives, in order

vars == <<pc, outFlags, vblocks, kres, trace>>

\* Where the firmware ends: halt(), a reset or power-off that did not return,
\* a jump into an RW firmware module, or the kernel hand-off.
Terminal == {"halted", "rebooted", "powered_off", "rw_started", "booted"}

Engine(name, res) == [ev |-> name, res |-> res]
Prim(name) == [ev |-> name, res |-> SUCCESS]

\* The switch values the board flag queries may return: 0, 1 or an error.
FlagValues == {-1, 0, 1}

\* A call of cold_reboot() or power_off() that succeeded: on hardware the
\* machine is gone; a mock returns 0 and the caller carries on at `cont'.
AfterPrimitive(gone, cont) == IF PrimitiveReturnsOnSuccess THEN cont ELSE gone

\* `if (cold_reboot()) return 1;' followed by the code at `cont'.
ColdReboot(cont) ==
  \/ pc' = "halted"
  \/ pc' = AfterPrimitive("rebooted", cont)

-----------------------------------------------------------------------------
(* vboot_init.                                                             *)

\* The flag queries and the abort on a negative one.  The input flag word
\* built from them (lines 75-97) only informs the engine, whose answers are
\* chosen freely, so it is not kept.
QueryFlags ==
  /\ pc = "init"
  /\ \E dev, rec, wp, lid \in FlagValues,
        oprom \in IF CONFIG_OPROM_MATTERS THEN FlagValues ELSE {0} :
       pc' = IF dev < 0 \/ rec < 0 \/ lid < 0 \/ wp < 0 \/ oprom < 0
             THEN "halted" ELSE "vbinit"
  /\ UNCHANGED <<outFlags, vblocks, kres, trace>>

\* common_params_init, VbInit and the cold reboot on its failure.
CallVbInit ==
  /\ pc = "vbinit"
  /\ \/ /\ pc' = "halted"
        /\ UNCHANGED <<outFlags, trace>>
     \/ \E res \in EngineResults, of \in SUBSET {"CLEAR_RAM", "ENABLE_DEVELOPER",
                                                  "ENABLE_RECOVERY"} :
          /\ outFlags' = of
          /\ IF res = SUCCESS
             THEN /\ trace' = Append(trace, Engine("VbInit", res))
                  /\ pc' = "out_flags"
             ELSE /\ trace' = trace \o <<Engine("VbInit", res), Prim("cold_reboot")>>
                  /\ ColdReboot("out_flags")
  /\ UNCHANGED <<vblocks, kres>>

\* vboot_do_init_out_flags: wipe unused memory, prepare the keyboard.
InitOutFlags ==
  /\ pc = "out_flags"
  /\ LET kb == IF outFlags \cap {"ENABLE_DEVELOPER", "ENABLE_RECOVERY"} # {}
               THEN <<Prim("keyboard_prepare")>> ELSE <<>>
     IN IF "CLEAR_RAM" \in outFlags
        THEN \/ /\ trace' = Append(trace, Prim("memory_wipe_unused"))
                /\ pc' = "halted"
             \/ /\ trace' = Append(trace, Prim("memory_wipe_unused")) \o kb
                /\ pc' = "select"
        ELSE /\ trace' = trace \o kb
             /\ pc' = "select"
  /\ UNCHANGED <<outFlags, vblocks, kres>>

-----------------------------------------------------------------------------
(* vboot_select_firmware.                                                  *)

\* common_params_init, the two storage_size queries and the two xmallocs.
SelectAlloc ==
  /\ pc = "select"
  /\ \/ /\ pc' = "halted"
        /\ UNCHANGED vblocks
     \/ /\ pc' = "select_read"
        /\ vblocks' = {"vblock_a", "vblock_b"}
  /\ UNCHANGED <<outFlags, kres, trace>>

\* Mutant: a failed read releases only the first buffer.
SelectRead_LeaksB ==
  /\ pc = "select_read"
  /\ \/ /\ pc' = "halted"
        /\ vblocks' = vblocks \ {"vblock_a"}
     \/ /\ pc' = "select_engine"
        /\ UNCHANGED vblocks
  /\ UNCHANGED <<outFlags, kres, trace>>

\* Both storage_reads; on a failure of either, free both and return 1.
SelectRead ==
  /\ pc = "select_read"
  /\ \/ /\ pc' = "halted"
        /\ vblocks' = {}
     \/ /\ pc' = "select_engine"
        /\ UNCHANGED vblocks
  /\ UNCHANGED <<outFlags, kres, trace>>

\* start_module: a failed decompression, a bad ELF magic or class returns -1
\* (and module_main halts); otherwise control enters the trampoline.
StartModuleResults == {"halted", "rw_started"}

\* What follows the selection: dc_module_start of A or B, which does not
\* return unless start_module fails (decompression, ELF magic or class),
\* or return 0 to module_main, which goes on to the kernel.
StartSelected(sel) ==
  CASE sel \in {"A", "B"} -> pc' \in StartModuleResults
    [] OTHER -> pc' = "kernel"

\* VbSelectFirmware, the two frees, the cold reboot on failure and the start
\* of the selected firmware.
SelectEngine ==
  /\ pc = "select_engine"
  /\ vblocks' = {}
  /\ \E res \in EngineResults, sel \in {"A", "B", "none"} :
       IF res = SUCCESS
       THEN /\ trace' = Append(trace, Engine("VbSelectFirmware", res))
            /\ StartSelected(sel)
       ELSE /\ trace' = trace \o <<Engine("VbSelectFirmware", res), Prim("cold_reboot")>>
            /\ \/ pc' = "halted"
               \/ /\ PrimitiveReturnsOnSuccess
                  /\ StartSelected(sel)
               \/ /\ ~PrimitiveReturnsOnSuccess
                  /\ pc' = "rebooted"
  /\ UNCHANGED <<outFlags, kres>>

-----------------------------------------------------------------------------
(* vboot_select_and_load_kernel.                                          *)

\* common_params_init and VbSelectAndLoadKernel.
KernelCall ==
  /\ pc = "kernel"
  /\ \/ /\ pc' = "halted"
        /\ UNCHANGED <<kres, trace>>
     \/ \E res \in EngineResults :
          /\ kres' = res
          /\ trace' = Append(trace, Engine("VbSelectAndLoadKernel", res))
          /\ pc' = "kernel_result"
  /\ UNCHANGED <<outFlags, vblocks>>

\* The EC-reboot and shutdown requests: power_off(), halting if it fails.
KernelResult ==
  /\ pc = "kernel_result"
  /\ CASE kres = EC_REBOOT_TO_RO ->
            /\ trace' = trace \o <<Prim("reboot_ec_to_ro"), Prim("power_off")>>
            /\ \/ pc' = "halted"
               \/ pc' = AfterPrimitive("powered_off", "kernel_check")
       [] kres = SHUTDOWN_REQUESTED ->
            /\ trace' = Append(trace, Prim("power_off"))
            /\ \/ pc' = "halted"
               \/ pc' = AfterPrimitive("powered_off", "kernel_check")
       [] OTHER -> /\ pc' = "kernel_check"
                   /\ UNCHANGED trace
  /\ UNCHANGED <<outFlags, vblocks, kres>>

\* Mutant: a generic engine failure is not escalated.
KernelCheck_IgnoresFailure ==
  /\ pc = "kernel_check"
  /\ pc' = "handoff"
  /\ UNCHANGED trace
  /\ UNCHANGED <<outFlags, vblocks, kres>>

\* Mutant: a failed kernel result returns 1 instead of rebooting.
KernelCheck_HaltsOnFailure ==
  /\ pc = "kernel_check"
  /\ pc' = IF kres # SUCCESS THEN "halted" ELSE "handoff"
  /\ UNCHANGED trace
  /\ UNCHANGED <<outFlags, vblocks, kres>>

\* Any result but success: cold_reboot(), halting if it fails.
KernelCheck ==
  /\ pc = "kernel_check"
  /\ IF kres # SUCCESS
     THEN /\ trace' = Append(trace, Prim("cold_reboot"))
          /\ ColdReboot("handoff")
     ELSE /\ pc' = "handoff"
          /\ UNCHANGED trace
  /\ UNCHANGED <<outFlags, vblocks, kres>>

\* commandline_subst, crossystem_setup and boot(); each failure, and a boot()
\* that returns, ends in return 1 and module_main's halt().
Handoff ==
  /\ pc = "handoff"
  /\ \/ /\ pc' = "halted"
        /\ UNCHANGED trace
     \/ /\ trace' = Append(trace, Prim("boot"))
        /\ \/ pc' = "booted"
           \/ pc' = "halted"
  /\ UNCHANGED <<outFlags, vblocks, kres>>

-----------------------------------------------------------------------------

Init ==
  /\ pc = "init"
  /\ outFlags = {}
  /\ vblocks = {}
  /\ kres = SUCCESS
  /\ trace = <<>>

\* module_main: the three stages in order, halt() on a non-zero return.
Next ==
  \/ QueryFlags \/ CallVbInit \/ InitOutFlags
  \/ SelectAlloc \/ SelectRead \/ SelectEngine
  \/ KernelCall \/ KernelResult \/ KernelCheck \/ Handoff

Spec == Init /\ [][Next]_vars /\ WF_vars(Next)

-----------------------------------------------------------------------------
(* Properties.                                                             *)

IsEngineFailure(e) ==
  e.ev \in {"VbInit", "VbSelectFirmware", "VbSelectAndLoadKernel"} /\ e.res # SUCCESS

\* The platform primitives spec 4.2 prescribes for a failed engine call:
\* VbSelectAndLoadKernel may request an EC reboot or a shutdown; every other
\* failure, of any stage, is answered by a cold reboot.
Escalation(e) ==
  CASE e = Engine("VbSelectAndLoadKernel", EC_REBOOT_TO_RO) ->
            <<Prim("reboot_ec_to_ro"), Prim("power_off")>>
    [] e = Engine("VbSelectAndLoadKernel", SHUTDOWN_REQUESTED) -> <<Prim("power_off")>>
    [] OTHER -> <<Prim("cold_reboot")>>

(* Engine non-success is never retried in place: after a failed VbInit,   *)
(* VbSelectFirmware or VbSelectAndLoadKernel the firmware invokes the      *)
(* escalation spec 4.2 prescribes for that result (EC reboot then         *)
(* power_off; power_off; cold_reboot) and nothing else -- no later stage, *)
(* no second primitive -- and once it has stopped it has invoked exactly  *)
(* that escalation, and stopped by it: halted on a primitive's failure,   *)
(* rebooted or powered off, never in RW firmware or the kernel.           *)
EscalationPolicy ==
  \A i \in 1..Len(trace) :
    IsEngineFailure(trace[i]) =>
      LET after == SubSeq(trace, i + 1, Len(trace))
      IN /\ IsPrefix(after, Escalation(trace[i]))
         /\ pc \in Terminal =>
              /\ after = Escalation(trace[i])
              /\ pc \in {"halted", "rebooted", "powered_off"}

(* The kernel hand-off happens only after all three engine calls           *)
(* succeeded, in order, with no reboot or power-off attempted.             *)
BootOnlyVerified ==
  pc = "booted" =>
    SelectSeq(trace, LAMBDA e : e.ev \in {"VbInit", "VbSelectFirmware",
                                          "VbSelectAndLoadKernel",
                                          "cold_reboot", "power_off"})
      = <<Engine("VbInit", SUCCESS), Engine("VbSelectFirmware", SUCCESS),
          Engine("VbSelectAndLoadKernel", SUCCESS)>>

(* vboot_select_firmware releases both verification-block buffers on every *)
(* path out of it: a failed read, and after the engine call whatever it    *)
(* returned.                                                               *)
BuffersReleased ==
  pc \in Terminal \cup {"kernel"} => vblocks = {}

=============================================================================

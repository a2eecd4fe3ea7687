----------------------------- MODULE SerialBoot -----------------------------
(***************************************************************************)
(* One guest boot, as sut/run_guest.sh drives it: QEMU under a KILL        *)
(* timeout, a guest whose cloud-init script writes lines to the serial     *)
(* console and then powers off, and the transcript file the serial port is *)
(* redirected to.  The guest, its kernel and QEMU are not under src/: they *)
(* are modelled by what the scripts that the lanes render make them print. *)
(*                                                                         *)
(* The lane that extends this module says which lines its script writes    *)
(* and what a line may look like once the console has mangled it.          *)
(***************************************************************************)
EXTENDS Naturals, Sequences

CONSTANTS MaxNoise,     \* bound: noise lines and mangled lines of one boot
          DeathCodes    \* exit codes of a QEMU that died by itself

ASSUME BootAssumption == MaxNoise \in Nat /\ DeathCodes \subseteq Nat \ {0}

Killed == 137   \* 128 + SIGKILL

VARIABLES qemu,        \* "off", "refused", "running", "exited" or "unrecorded"
          guest,       \* "off", "script", "shutdown", "poweroff", "halted" or "reset"
          script,      \* the lines the guest's script writes
          sent,        \* how many of them it has written
          console,     \* the lines of boot-transcript.log
          noise,       \* noise and mangling so far
          exit_code,   \* what timeout(1) returned, once QEMU has exited
          run_result   \* run-result.json, or NoResult

bootVars == <<qemu, guest, script, sent, console, noise, exit_code, run_result>>

NoResult == [timed_out |-> FALSE, exit_code |-> 1000]

BootInit ==
  /\ qemu = "off" /\ guest = "off"
  /\ script = << >> /\ sent = 0 /\ console = << >> /\ noise = 0
  /\ exit_code = 0 /\ run_result = NoResult

(* rm -f of the previous transcript and result, then QEMU is launched. *)
StartBoot(s) ==
  /\ qemu # "running"
  /\ qemu' = "running" /\ guest' = "script"
  /\ script' = s /\ sent' = 0 /\ console' = << >> /\ noise' = 0
  /\ exit_code' = 0 /\ run_result' = NoResult

(* An argument or an input file is missing: the script exits 2 before it   *)
(* touches its output directory, which holds no transcript yet.            *)
RefuseBoot ==
  /\ qemu # "running"
  /\ qemu' = "refused" /\ guest' = "off"
  /\ script' = << >> /\ sent' = 0 /\ console' = << >> /\ noise' = 0
  /\ exit_code' = 0 /\ run_result' = NoResult

-----------------------------------------------------------------------------
(* The guest.  Nothing is assumed about its progress. *)

(* The script writes its next line, which the transcript shows as seen. *)
WriteLine(seen) ==
  /\ qemu = "running" /\ guest = "script" /\ sent < Len(script)
  /\ seen # script[sent + 1] => noise < MaxNoise
  /\ noise' = IF seen = script[sent + 1] THEN noise ELSE noise + 1
  /\ sent' = sent + 1
  /\ console' = Append(console, seen)
  /\ UNCHANGED <<qemu, guest, script, exit_code, run_result>>

(* The kernel, cloud-init or getty writes to the same console. *)
WriteNoise(line) ==
  /\ qemu = "running" /\ guest \notin {"halted", "reset"} /\ noise < MaxNoise
  /\ noise' = noise + 1
  /\ console' = Append(console, line)
  /\ UNCHANGED <<qemu, guest, script, sent, exit_code, run_result>>

(* The script has ended, or died half-way; cloud-init goes on to power_state. *)
ScriptEnds ==
  /\ qemu = "running" /\ guest = "script"
  /\ guest' = "shutdown"
  /\ UNCHANGED <<qemu, script, sent, console, noise, exit_code, run_result>>

(* The kernel writes its power-down message, *)
PowerDown(seen) ==
  /\ qemu = "running" /\ guest = "shutdown"
  /\ guest' = "poweroff"
  /\ console' = Append(console, seen)
  /\ UNCHANGED <<qemu, script, sent, noise, exit_code, run_result>>

(* and then calls PSCI SYSTEM_OFF. *)
SystemOff ==
  /\ qemu = "running" /\ guest = "poweroff"
  /\ guest' = "halted"
  /\ UNCHANGED <<qemu, script, sent, console, noise, exit_code, run_result>>

(* A panic or a watchdog resets the machine. *)
GuestResets ==
  /\ qemu = "running" /\ guest \in {"script", "shutdown", "poweroff"}
  /\ guest' = "reset"
  /\ UNCHANGED <<qemu, script, sent, console, noise, exit_code, run_result>>

-----------------------------------------------------------------------------
(* QEMU and timeout(1). *)

QemuEnds(code) ==
  /\ qemu = "running"
  /\ qemu' = "exited" /\ exit_code' = code
  /\ UNCHANGED <<guest, script, sent, console, noise, run_result>>

(* A halted machine ends QEMU, and with -no-reboot so does a reset one. *)
QemuExits == guest \in {"halted", "reset"} /\ QemuEnds(0)

(* QEMU aborts, or is killed by something else (the host is out of memory). *)
QemuDies == \E code \in DeathCodes : QemuEnds(code)

(* The time limit may pass at any moment of the run. *)
TimeoutKills == QemuEnds(Killed)

(* Mutant: the time limit is told by the exit code of a TERM timeout. *)
EmitTermResult ==
  /\ qemu = "exited" /\ run_result = NoResult
  /\ run_result' = [timed_out |-> exit_code = 124, exit_code |-> exit_code]
  /\ UNCHANGED <<qemu, guest, script, sent, console, noise, exit_code>>

EmitRunResult ==
  /\ qemu = "exited" /\ run_result = NoResult
  /\ run_result' = [timed_out |-> exit_code = Killed, exit_code |-> exit_code]
  /\ UNCHANGED <<qemu, guest, script, sent, console, noise, exit_code>>

(* emit_run_result.py fails, and under set -e run_guest.sh with it: there  *)
(* is no run-result.json, or half of one.                                  *)
EmitFails ==
  /\ qemu = "exited" /\ run_result = NoResult
  /\ qemu' = "unrecorded"
  /\ UNCHANGED <<guest, script, sent, console, noise, exit_code, run_result>>

(* run_guest.sh has returned; its exit status is zero when BootOK. *)
BootReturned == qemu \in {"refused", "unrecorded"} \/ run_result # NoResult
BootOK == ~ run_result.timed_out /\ run_result.exit_code = 0

(* Mutant: QEMU runs without a time limit. *)
UntimedHostStep == QemuExits \/ EmitRunResult

(* The steps of the host side, the only ones that may be assumed to happen. *)
HostStep == QemuExits \/ TimeoutKills \/ EmitRunResult \/ EmitFails

(* What holds of every boot, for the type invariants of the lanes. *)
BootTypeOK ==
  /\ qemu \in {"off", "refused", "running", "exited", "unrecorded"}
  /\ guest \in {"off", "script", "shutdown", "poweroff", "halted", "reset"}
  /\ sent \in 0 .. Len(script) /\ noise \in 0 .. MaxNoise
  /\ exit_code \in {0, Killed} \cup DeathCodes
  /\ \/ run_result = NoResult
     \/ /\ qemu = "exited"
        /\ run_result = [timed_out |-> exit_code = Killed, exit_code |-> exit_code]
=============================================================================

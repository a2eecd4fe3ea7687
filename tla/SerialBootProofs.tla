-------------------------- MODULE SerialBootProofs --------------------------
(***************************************************************************)
(* What holds of every guest boot, whatever the lane makes the guest write.*)
(* The proofs of the lanes rest on it.                                     *)
(***************************************************************************)
EXTENDS SerialBoot, TLAPS, SequenceTheorems, WellFoundedInduction

(* A set of numbers that is not empty has a least element. *)
LEMMA LeastIndex ==
  ASSUME NEW S, S \subseteq Nat, S # {}
  PROVE  \E x \in S : \A y \in S : x <= y
<1> DEFINE R == OpToRel(<, Nat)
<1>1. IsWellFoundedOn(R, Nat)
  BY NatLessThanWellFounded
<1>2. \A x, y \in Nat : x < y => <<x, y>> \in R
  BY DEF OpToRel
<1> HIDE DEF R
<1>3. PICK x \in S : \A y \in S : ~ (<<y, x>> \in R)
  BY <1>1, WFMin
<1>4. ASSUME NEW y \in S
      PROVE  x <= y
  <2>1. x \in Nat /\ y \in Nat
    OBVIOUS
  <2>2. ~ (y < x)
    BY <1>2, <1>3, <2>1
  <2> QED
    BY <2>1, <2>2
<1> QED
  BY <1>4

-----------------------------------------------------------------------------
(* The types of a boot, that no line is older than it, and that an exit    *)
(* code of zero is the machine's own: QEMU ended because the guest halted  *)
(* or was reset.                                                           *)
BootSound ==
  /\ BootTypeOK
  /\ qemu \in {"off", "refused"} => script = << >> /\ console = << >>
  /\ qemu = "running" => exit_code = 0 /\ run_result = NoResult
  /\ qemu \in {"exited", "unrecorded"} /\ exit_code = 0 => guest \in {"halted", "reset"}

(* The steps that write nothing to the console. *)
QuietStep == ScriptEnds \/ SystemOff \/ GuestResets \/ QemuDies \/ HostStep

LEMMA QuietKeepsLines ==
  ASSUME QuietStep
  PROVE  UNCHANGED <<script, sent, console, noise>>
  BY DEF QuietStep, ScriptEnds, SystemOff, GuestResets, QemuDies, HostStep, QemuExits,
         TimeoutKills, QemuEnds, EmitRunResult, EmitFails

(* Whichever way QEMU ends, only the machine's own end has exit code zero. *)
LEMMA QemuEndsStep ==
  ASSUME BootSound, QemuExits \/ QemuDies \/ TimeoutKills
  PROVE  BootSound'
<1> USE BootAssumption
<1>1. PICK code \in {0, Killed} \cup DeathCodes :
        QemuEnds(code) /\ (code = 0 => guest \in {"halted", "reset"})
  BY DEF QemuExits, QemuDies, TimeoutKills, Killed
<1> QED
  BY <1>1 DEF QemuEnds, BootSound, BootTypeOK, NoResult, Killed

(* Every step of a boot keeps it sound, *)
LEMMA BootSoundStep ==
  ASSUME BootSound, NEW line,
         WriteLine(line) \/ WriteNoise(line) \/ PowerDown(line) \/ QuietStep
  PROVE  BootSound'
<1> USE BootAssumption DEF BootSound, BootTypeOK, NoResult, Killed
<1>1. CASE WriteLine(line)
  BY <1>1 DEF WriteLine
<1>2. CASE WriteNoise(line)
  BY <1>2 DEF WriteNoise
<1>3. CASE PowerDown(line)
  BY <1>3 DEF PowerDown
<1>4. CASE ScriptEnds \/ SystemOff \/ GuestResets
  BY <1>4 DEF ScriptEnds, SystemOff, GuestResets
<1>5. CASE QemuExits \/ QemuDies \/ TimeoutKills
  BY <1>5, QemuEndsStep
<1>6. CASE EmitRunResult
  BY <1>6 DEF EmitRunResult
<1>7. CASE EmitFails
  BY <1>7 DEF EmitFails
<1> QED
  BY <1>1, <1>2, <1>3, <1>4, <1>5, <1>6, <1>7 DEF QuietStep, HostStep

(* and so does the start of another one. *)
LEMMA BootSoundStart ==
  ASSUME NEW Lines, NEW s \in Seq(Lines), StartBoot(s) \/ RefuseBoot
  PROVE  BootSound' /\ script' \in Seq(Lines) /\ console' = << >>
<1> USE BootAssumption
<1>1. Len(s) \in Nat /\ Len(<< >>) = 0
  BY LenProperties
<1>2. CASE StartBoot(s)
  BY <1>1, <1>2 DEF StartBoot, BootSound, BootTypeOK, NoResult
<1>3. CASE RefuseBoot
  BY <1>1, <1>3 DEF RefuseBoot, BootSound, BootTypeOK, NoResult
<1> QED
  BY <1>2, <1>3

LEMMA BootSoundInit == BootInit => BootSound
  BY BootAssumption DEF BootInit, BootSound, BootTypeOK, NoResult

LEMMA BootSoundFrame ==
  ASSUME BootSound, UNCHANGED bootVars
  PROVE  BootSound'
  BY DEF bootVars, BootSound, BootTypeOK, NoResult, Killed

(* When run_guest.sh has returned, the boot does not change any more: what *)
(* a lane reads from the transcript stays what it read.                    *)
LEMMA ReturnedIsOver ==
  ASSUME BootSound, BootReturned, NEW line
  PROVE  ~ (WriteLine(line) \/ WriteNoise(line) \/ PowerDown(line) \/ QuietStep)
<1>1. qemu # "running" /\ ~ (qemu = "exited" /\ run_result = NoResult)
  BY DEF BootReturned, BootSound, BootTypeOK
<1> QED
  BY <1>1 DEF WriteLine, WriteNoise, PowerDown, QuietStep, ScriptEnds, SystemOff, GuestResets,
              QemuDies, HostStep, QemuExits, TimeoutKills, QemuEnds, EmitRunResult, EmitFails

(* A boot that was recorded as ended by itself, and not by the timeout.    *)
LEMMA CleanEnd ==
  ASSUME BootSound, run_result # NoResult, run_result.exit_code = 0
  PROVE  exit_code = 0 /\ guest \in {"halted", "reset"}
  BY DEF BootSound, BootTypeOK
=============================================================================

---------------------------- MODULE PinnedInputs ----------------------------
(***************************************************************************)
(* The input steps of a generic CI lane: sut/build_qemu.sh, the proof that *)
(* the binary is a TCG one, and sut/prepare_inputs.py, which decompresses  *)
(* the firmware from the source tree and downloads the guest image.  The   *)
(* working directory persists from one run to the next.                    *)
(***************************************************************************)
EXTENDS QemuBuild

VARIABLES fw,      \* the two decompressed firmware files
          image    \* the guest image

vars == <<buildVars, fw, image>>

Keys == {"code", "vars"}
Bz2(key) == IF key = "code" THEN "code.bz2" ELSE "vars.bz2"

Init == BuildInit /\ fw = [k \in Keys |-> "absent"] /\ image = "absent"

BuildQemu == (Start \/ BuildStep) /\ UNCHANGED <<fw, image>>

(* The per-change lane runs the binary; the soak lane has no such step.    *)
ProveTCG ==
  /\ at = "accel"
  /\ \/ bin \in Contents /\ Proceed("code")
     \/ bin \notin Contents /\ Refuse
     \/ Interrupted
  /\ UNCHANGED <<tarball, sig, tree, bin, built, fw, image>>

(* The compressed file must have its pinned hash; the decompressed one is  *)
(* written, in place, unless it has its own, and verified in any case.     *)
Firmware(key, next) ==
  /\ at = key
  /\ IF tree.of # Pinned \/ Bz2(key) \notin tree.whole
     THEN Refuse /\ UNCHANGED fw
     ELSE \/ fw[key] = Pinned /\ Proceed(next) /\ UNCHANGED fw
          \/ fw[key] # Pinned /\ Proceed(next) /\ fw' = [fw EXCEPT ![key] = Pinned]
          \/ /\ fw[key] # Pinned /\ Interrupted
             /\ \E left \in {fw[key], "empty", "cut"} : fw' = [fw EXCEPT ![key] = left]
  /\ UNCHANGED <<tarball, sig, tree, bin, built, image>>

PrepareFirmware == Firmware("code", "vars") \/ Firmware("vars", "image")

(* An image with the pinned hash is kept.  Any other is downloaded to its  *)
(* final place, where an interrupted or wrong download stays; the size,    *)
(* the SHA-512 and the SHA-256 are verified whether it was downloaded or   *)
(* not.                                                                    *)
PrepareImage ==
  /\ at = "image"
  /\ \/ image = Pinned /\ Proceed("ready") /\ UNCHANGED image
     \/ image # Pinned /\ Proceed("ready") /\ image' = Pinned
     \/ image # Pinned /\ Interrupted /\ image' \in ({image, "empty", "cut"} \cup Contents) \ {Pinned}
  /\ UNCHANGED <<tarball, sig, tree, bin, built, fw>>

Next == BuildQemu \/ ProveTCG \/ PrepareFirmware \/ PrepareImage

(* Somebody runs the scripts again over the same directory whenever a run  *)
(* has ended, as on a machine that keeps it, and a run goes on until it    *)
(* ends.  Accidents are bounded, so they stop.                             *)
Fairness == WF_vars(Next)

Spec == Init /\ [][Next]_vars /\ Fairness

-----------------------------------------------------------------------------
(* Properties. *)

FileStates == Contents \cup Broken

(* The type invariant. *)
TypeOK ==
  /\ tarball \in FileStates /\ sig \in FileStates /\ bin \in FileStates
  /\ tree \in [of : FileStates, whole : SUBSET Files, cut : SUBSET Files]
  /\ built \in BOOLEAN /\ faults \in 0 .. MaxFaults
  /\ at \in {"failed", "tarball", "sig", "key", "verify", "hash", "extract", "check",
             "build", "accel", "code", "vars", "image", "ready"}
  /\ fw \in [Keys -> FileStates] /\ image \in FileStates

(* When a lane goes on to boot, whatever earlier runs have left behind:    *)
(* the binary is one that ninja linked in this very run, from a tree of    *)
(* the pinned tarball, whose signature by the release manager's key stands *)
(* beside it, and the firmware and the image are the pinned ones.          *)
ReadyMeansPinned ==
  at = "ready" =>
    /\ built /\ bin = Pinned
    /\ tarball = Pinned /\ sig = Pinned /\ Pinned \in Signed
    /\ fw = [k \in Keys |-> Pinned] /\ image = Pinned

(* Nothing is ever extracted or built from a tarball that is not the       *)
(* pinned one: not even a run that fails later leaves such a tree or such  *)
(* a binary for the next run to take for granted.                          *)
CacheOfPinned ==
  tree.of \in {"absent", Pinned} /\ bin \in Broken \cup {Pinned}

(* What is good in the working directory is never damaged by a later run,  *)
(* wherever that run is interrupted.                                       *)
GoodIsKept ==
  [][ /\ tarball = Pinned => tarball' = Pinned
      /\ sig = Pinned => sig' = Pinned
      /\ Complete(tree) => tree' = tree
      /\ \A k \in Keys : fw[k] = Pinned => fw'[k] = Pinned
      /\ image = Pinned => image' = Pinned ]_vars

(* A lane that is run again and again gets its inputs every time once      *)
(* accidents stop, unless one of them has left behind a wrong download of  *)
(* build_qemu.sh or half a source tree.  Empty downloads and anything      *)
(* wrong with the firmware or the guest image are repaired.                *)
Recovers == []<>(at = "ready" \/ CacheStuck)

(* build_qemu.sh: step 5 asserts that the aarch64-softmmu tree is          *)
(* complete.  When it goes on to build, the files it names are whole.      *)
TreeComplete == at = "build" => Essential \subseteq tree.whole
=============================================================================

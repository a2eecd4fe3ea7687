------------------------- MODULE PinnedInputsProofs -------------------------
(***************************************************************************)
(* Proofs about PinnedInputs, for every set of contents and files and any  *)
(* number of accidents: what a lane goes on to boot is built from what     *)
(* pins.json names, and what is good in the working directory stays.       *)
(*                                                                         *)
(* The invariant says what each step of the script has established for the *)
(* steps after it, and that a tree or a binary that is there at all comes  *)
(* from the pinned tarball.                                                *)
(***************************************************************************)
EXTENDS PinnedInputs, TLAPS

AfterTree == {"build", "accel", "code", "vars", "image", "ready"}
AfterHash == {"extract", "check"} \cup AfterTree

(* The tarball that the steps after a check use is the one it checked. *)
DownloadInv ==
  /\ at \in {"hash"} \cup AfterHash => tarball \in Signed /\ sig = tarball
  /\ at \in AfterHash => tarball = Pinned

(* The tree and the binary. *)
TreeInv ==
  /\ tree.of \in {"absent", Pinned}
  /\ tree.of = "absent" => Present(tree) = {}
  /\ at = "build" => Essential \subseteq Present(tree)
  /\ bin \in Broken \cup {Pinned}
  /\ at \in {"accel", "code", "vars", "image", "ready"} => built /\ bin = Pinned

(* What prepare_inputs.py has verified so far. *)
InputInv ==
  /\ at \in {"vars", "image", "ready"} => fw["code"] = Pinned
  /\ at \in {"image", "ready"} => fw["vars"] = Pinned
  /\ at = "ready" => image = Pinned

IInv == TypeOK /\ DownloadInv /\ TreeInv /\ InputInv

USE DEF AfterTree, AfterHash, Broken, Essential

-----------------------------------------------------------------------------
(* The initial states satisfy the invariant. *)
LEMMA InitInv == Init => IInv
<1> SUFFICES ASSUME Init PROVE IInv
  OBVIOUS
<1> USE BuildAssumption DEF Init, BuildInit, NoTree
<1>1. TypeOK
  <2>1. tree \in [of : FileStates, whole : SUBSET Files, cut : SUBSET Files]
    BY DEF FileStates
  <2>2. fw \in [Keys -> FileStates] /\ image \in FileStates
    BY DEF FileStates
  <2>3. built \in BOOLEAN
    BY DEF BuildInit
  <2>4. faults \in 0 .. MaxFaults
    BY DEF BuildInit
  <2>5. tarball \in FileStates /\ sig \in FileStates /\ bin \in FileStates
    BY DEF FileStates
  <2> QED
    BY <2>1, <2>2, <2>3, <2>4, <2>5 DEF TypeOK
<1>2. DownloadInv /\ TreeInv /\ InputInv
  BY DEF DownloadInv, TreeInv, InputInv, Present
<1> QED
  BY <1>1, <1>2 DEF IInv

(* However a download ends, the file holds a state a file can have. *)
LEMMA FetchType ==
  ASSUME NEW file \in FileStates, NEW new, NEW next, Fetch(file, new, next)
  PROVE  new \in FileStates
BY BuildAssumption DEF Fetch, FileStates

(* How a step ends. *)
LEMMA Endings ==
  ASSUME TypeOK
  PROVE  /\ Refuse => at' = "failed" /\ faults' \in 0 .. MaxFaults
         /\ Interrupted => at' = "failed" /\ faults' \in 0 .. MaxFaults
         /\ Fault => faults' \in 0 .. MaxFaults
         /\ \A next : Proceed(next) => at' = next /\ faults' \in 0 .. MaxFaults
BY BuildAssumption DEF Refuse, Interrupted, Fault, Proceed, TypeOK

-----------------------------------------------------------------------------
(* The steps of build_qemu.sh. *)

LEMMA StepStart == ASSUME IInv, Start, UNCHANGED <<fw, image>> PROVE IInv'
<1> USE Endings DEF Start, IInv
<1>1. at' = "tarball" /\ TypeOK'
  BY DEF TypeOK
<1> QED
  BY <1>1 DEF DownloadInv, TreeInv, InputInv, Present

LEMMA StepFetch ==
  ASSUME IInv, FetchTarball \/ FetchSignature, UNCHANGED <<fw, image>> PROVE IInv'
<1>1. tarball' \in FileStates /\ sig' \in FileStates
  BY FetchType DEF FetchTarball, FetchSignature, IInv, TypeOK
<1>2. at' \in {"failed", "sig", "key"} /\ faults' \in 0 .. MaxFaults
  BY Endings DEF FetchTarball, FetchSignature, Fetch, IInv, Interrupted, Proceed, Fault
<1>3. UNCHANGED <<tree, bin, built>>
  BY DEF FetchTarball, FetchSignature
<1>4. TypeOK'
  BY <1>1, <1>2, <1>3 DEF TypeOK, IInv
<1> QED
  BY <1>2, <1>3, <1>4 DEF IInv, DownloadInv, TreeInv, InputInv, Present

LEMMA StepVerify ==
  ASSUME IInv, ImportKey \/ VerifySignature \/ CheckHash, UNCHANGED <<fw, image>> PROVE IInv'
<1>1. /\ UNCHANGED <<tarball, sig, tree, bin, built>>
      /\ at' \in {"failed", "verify", "hash", "extract"} /\ faults' \in 0 .. MaxFaults
  BY Endings DEF IInv, ImportKey, VerifySignature, CheckHash
<1>2. DownloadInv'
  BY Endings, <1>1 DEF IInv, ImportKey, VerifySignature, CheckHash, DownloadInv, Proceed, Refuse, Interrupted
<1>3. TypeOK'
  BY <1>1 DEF TypeOK, IInv
<1> QED
  BY <1>1, <1>2, <1>3 DEF IInv, TreeInv, InputInv, Present

LEMMA StepTree ==
  ASSUME IInv, Extract \/ CheckTree, UNCHANGED <<fw, image>> PROVE IInv'
<1> USE DEF IInv
<1>1. /\ UNCHANGED <<tarball, sig, bin, built>>
      /\ at' \in {"failed", "check", "build"} /\ faults' \in 0 .. MaxFaults
      /\ at \in AfterHash
  BY Endings DEF Extract, CheckTree
<1>2. \/ UNCHANGED tree
      \/ tree' \in [of : {Pinned}, whole : SUBSET Files, cut : SUBSET Files]
  BY DEF Extract, CheckTree, DownloadInv
<1>3. at' = "build" => Essential \subseteq Present(tree')
  BY Endings DEF Extract, CheckTree, Refuse, Interrupted, Proceed
<1>4. TypeOK'
  BY <1>1, <1>2, BuildAssumption DEF TypeOK, FileStates
<1>5. TreeInv'
  BY <1>1, <1>2, <1>3, BuildAssumption DEF TreeInv, Present
<1> QED
  BY <1>1, <1>4, <1>5 DEF DownloadInv, InputInv

LEMMA StepBuild == ASSUME IInv, Build, UNCHANGED <<fw, image>> PROVE IInv'
<1> USE DEF IInv
<1>1. tree.of = Pinned
  BY DEF Build, TreeInv
<1>2. /\ UNCHANGED <<tarball, sig, tree>> /\ at = "build"
      /\ faults' \in 0 .. MaxFaults
      /\ \/ at' \in {"accel", "failed"} /\ bin' = Pinned /\ built' = TRUE
         \/ at' = "failed" /\ bin' \in {bin, "absent", "cut"} /\ built' = built
  BY <1>1, Endings DEF Build, Refuse, Interrupted, Proceed
<1>3. TypeOK'
  BY <1>2, BuildAssumption DEF TypeOK, FileStates
<1> QED
  BY <1>2, <1>3 DEF DownloadInv, TreeInv, InputInv, Present

-----------------------------------------------------------------------------
(* The accelerator check and prepare_inputs.py. *)

LEMMA StepProve == ASSUME IInv, ProveTCG PROVE IInv'
<1> USE DEF IInv
<1>1. /\ UNCHANGED <<tarball, sig, tree, bin, built, fw, image>> /\ at = "accel"
      /\ at' \in {"failed", "code"} /\ faults' \in 0 .. MaxFaults
  BY Endings DEF ProveTCG
<1>2. TypeOK'
  BY <1>1 DEF TypeOK
<1> QED
  BY <1>1, <1>2 DEF DownloadInv, TreeInv, InputInv, Present

LEMMA StepFirmware ==
  ASSUME IInv, NEW key \in Keys, Firmware(key, IF key = "code" THEN "vars" ELSE "image")
  PROVE  IInv'
<1> USE DEF IInv
<1> DEFINE next == IF key = "code" THEN "vars" ELSE "image"
<1>1. /\ UNCHANGED <<tarball, sig, tree, bin, built, image>> /\ at = key
      /\ at' \in {"failed", next} /\ faults' \in 0 .. MaxFaults
  BY Endings DEF Firmware
<1>2. /\ \E left \in FileStates : fw' = [fw EXCEPT ![key] = left]
      /\ at' # "failed" => fw' = [fw EXCEPT ![key] = Pinned]
  BY Endings, BuildAssumption DEF Firmware, FileStates, TypeOK, Refuse, Interrupted, Proceed
<1>3. TypeOK'
  BY <1>1, <1>2 DEF TypeOK, Keys
<1>4. InputInv'
  BY <1>1, <1>2 DEF InputInv, TypeOK, Keys
<1> QED
  BY <1>1, <1>3, <1>4 DEF DownloadInv, TreeInv, Present, Keys

LEMMA StepImage == ASSUME IInv, PrepareImage PROVE IInv'
<1> USE DEF IInv
<1>1. /\ UNCHANGED <<tarball, sig, tree, bin, built, fw>> /\ at = "image"
      /\ faults' \in 0 .. MaxFaults /\ image' \in FileStates
      /\ at' = "failed" \/ (at' = "ready" /\ image' = Pinned)
  BY Endings, BuildAssumption DEF PrepareImage, FileStates, TypeOK, Interrupted, Proceed
<1>2. TypeOK'
  BY <1>1 DEF TypeOK
<1> QED
  BY <1>1, <1>2 DEF DownloadInv, TreeInv, InputInv, Present

(* Every step preserves the invariant. *)
LEMMA NextInv == IInv /\ [Next]_vars => IInv'
<1> SUFFICES ASSUME IInv, [Next]_vars PROVE IInv'
  OBVIOUS
<1>1. CASE Start /\ UNCHANGED <<fw, image>>
  BY <1>1, StepStart
<1>2. CASE BuildStep /\ UNCHANGED <<fw, image>>
  BY <1>2, StepFetch, StepVerify, StepTree, StepBuild DEF BuildStep
<1>3. CASE ProveTCG
  BY <1>3, StepProve
<1>4. CASE PrepareFirmware
  BY <1>4, StepFirmware DEF PrepareFirmware, Keys
<1>5. CASE PrepareImage
  BY <1>5, StepImage
<1>6. CASE UNCHANGED vars
  BY <1>6 DEF vars, buildVars, IInv, TypeOK, DownloadInv, TreeInv, InputInv, Present
<1> QED
  BY <1>1, <1>2, <1>3, <1>4, <1>5, <1>6 DEF Next, BuildQemu

(* The invariant holds of every behaviour. *)
THEOREM Inductive == Spec => []IInv
BY InitInv, NextInv, PTL DEF Spec

-----------------------------------------------------------------------------
(* Type correctness of the working directory and of a run. *)
THEOREM TypeCorrect == Spec => []TypeOK
<1>1. IInv => TypeOK
  BY DEF IInv
<1> QED
  BY <1>1, Inductive, PTL

(* A lane boots only what is built from and verified against the pins,     *)
(* whatever earlier runs were interrupted at and left in the directory.    *)
THEOREM ReadyIsPinned == Spec => []ReadyMeansPinned
<1>1. IInv => ReadyMeansPinned
  <2> SUFFICES ASSUME IInv, at = "ready" PROVE
        /\ built /\ bin = Pinned
        /\ tarball = Pinned /\ sig = Pinned /\ Pinned \in Signed
        /\ fw = [k \in Keys |-> Pinned] /\ image = Pinned
    BY DEF ReadyMeansPinned
  <2>1. fw["code"] = Pinned /\ fw["vars"] = Pinned /\ fw \in [Keys -> FileStates]
    BY DEF IInv, InputInv, TypeOK
  <2>2. fw = [k \in Keys |-> Pinned]
    BY <2>1 DEF Keys
  <2> QED
    BY <2>2 DEF IInv, DownloadInv, TreeInv, InputInv
<1> QED
  BY <1>1, Inductive, PTL

(* No tree and no binary that any run leaves behind comes from anything    *)
(* but the pinned tarball.                                                 *)
THEOREM LeavesPinned == Spec => []CacheOfPinned
<1>1. IInv => CacheOfPinned
  BY DEF IInv, TreeInv, CacheOfPinned
<1> QED
  BY <1>1, Inductive, PTL

(* One step of GoodIsKept. *)
Kept ==
  /\ tarball = Pinned => tarball' = Pinned
  /\ sig = Pinned => sig' = Pinned
  /\ Complete(tree) => tree' = tree
  /\ \A k \in Keys : fw[k] = Pinned => fw'[k] = Pinned
  /\ image = Pinned => image' = Pinned

(* No step damages a download, a complete tree, a firmware file or an      *)
(* image that is good.                                                     *)
LEMMA StepKeeps == TypeOK /\ [Next]_vars => Kept
<1> SUFFICES ASSUME TypeOK, [Next]_vars PROVE Kept
  OBVIOUS
<1> USE BuildAssumption DEF Kept
<1>1. CASE Start /\ UNCHANGED <<fw, image>>
  BY <1>1 DEF Start
<1>2. CASE BuildStep /\ UNCHANGED <<fw, image>>
  <2>1. Cached(Pinned)
    BY DEF Cached
  <2>2. ASSUME NEW new, NEW next, Fetch(Pinned, new, next) PROVE new = Pinned
    BY <2>1, <2>2 DEF Fetch
  <2>3. CASE FetchTarball \/ FetchSignature
    BY <1>2, <2>2, <2>3 DEF FetchTarball, FetchSignature
  <2>4. CASE Extract
    <3>1. Complete(tree) => UNCHANGED tree
      BY <2>4 DEF Extract, Complete, Present
    <3> QED
      BY <1>2, <2>4, <3>1 DEF Extract
  <2>5. CASE ImportKey \/ VerifySignature \/ CheckHash \/ CheckTree \/ Build
    BY <1>2, <2>5 DEF ImportKey, VerifySignature, CheckHash, CheckTree, Build
  <2> QED
    BY <1>2, <2>3, <2>4, <2>5 DEF BuildStep
<1>3. CASE ProveTCG
  BY <1>3 DEF ProveTCG
<1>4. CASE PrepareFirmware
  <2>1. ASSUME NEW key \in Keys, NEW next, Firmware(key, next)
        PROVE  \A k \in Keys : fw[k] = Pinned => fw'[k] = Pinned
    BY <2>1 DEF Firmware, TypeOK
  <2> QED
    BY <1>4, <2>1 DEF PrepareFirmware, Firmware, Keys
<1>5. CASE PrepareImage
  BY <1>5 DEF PrepareImage
<1>6. CASE UNCHANGED vars
  BY <1>6 DEF vars, buildVars
<1> QED
  BY <1>1, <1>2, <1>3, <1>4, <1>5, <1>6 DEF Next, BuildQemu

(* What is good in the working directory survives every later run.         *)
THEOREM KeepsGood == Spec => GoodIsKept
<1>1. TypeOK /\ [Next]_vars => [Kept]_vars
  BY StepKeeps
<1> QED
  BY <1>1, TypeCorrect, PTL DEF Spec, GoodIsKept, Kept
=============================================================================

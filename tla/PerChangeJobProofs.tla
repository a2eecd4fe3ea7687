------------------------- MODULE PerChangeJobProofs -------------------------
(***************************************************************************)
(* Proofs about PerChangeJob: the evidence of a per-change job is complete *)
(* whichever step failed, and the job implements the gate.  The inductive  *)
(* invariant says, for every point of the job, which files must be there   *)
(* while it is still green, that the index has been tried before the       *)
(* upload, and that it lists all the files its patterns match unless it    *)
(* failed itself.                                                          *)
(***************************************************************************)
EXTENDS PerChangeJob, TLAPS

(* The job has eight steps before the index and the upload. *)
LEMMA StepCount ==
  /\ DOMAIN Steps = 1 .. 8 /\ Indexing = 9 /\ Uploading = 10
  BY DEF Steps, Indexing, Uploading

(* What a step judges by and the job retains matches a pattern of the      *)
(* index, and all but the large inputs a path of the upload.               *)
Covered(names) ==
  /\ names \ NotRetained \subseteq Patterns
  /\ (names \ NotRetained) \ ByHash \subseteq Paths

LEMMA JudgesCovered ==
  \A s \in DOMAIN Steps : Covered(Steps[s].judges)
  <1> USE DEF Covered, NotRetained, ByHash, Patterns, Paths
  <1>1. Covered(Steps[1].judges) /\ Covered(Steps[3].judges) /\ Covered(Steps[8].judges)
    BY DEF Steps
  <1>2. Covered(Steps[2].judges)
    BY DEF Steps
  <1>3. Covered(Steps[4].judges)
    BY DEF Steps
  <1>4. Covered(Steps[5].judges)
    BY DEF Steps
  <1>5. Covered(Steps[6].judges)
    BY DEF Steps
  <1>6. Covered(Steps[7].judges)
    BY DEF Steps
  <1> HIDE DEF Covered
  <1>7. QED  BY <1>1, <1>2, <1>3, <1>4, <1>5, <1>6, StepCount

(* The index is not among the files it is looking for. *)
LEMMA IndexIsNew ==
  /\ "ci-manifest.json" \notin Patterns
  /\ "ci-manifest.json" \in Paths
  /\ "ci-manifest.json" \in AllFiles
  BY DEF Patterns, Paths, AllFiles

(* A prefix of what a step writes holds nothing else, and both are files   *)
(* of the job.                                                             *)
LEMMA WritesAreFiles ==
  ASSUME NEW s \in DOMAIN Steps
  PROVE  Writes(s) \subseteq AllFiles
  BY DEF AllFiles

LEMMA BuildSeq ==
  /\ DOMAIN BuildWrites = 1 .. 9 /\ Len(BuildWrites) = 9
  /\ \A k \in 1 .. 9 : BuildWrites[k] # "accel.txt"
  /\ BuildWrites[9] = "build-manifest.json"
  BY DEF BuildWrites

LEMMA WritesSeq ==
  \A s \in DOMAIN Steps : DOMAIN Steps[s].writes = 1 .. Len(Steps[s].writes)
  <1> DEFINE IsSeq(w) == DOMAIN w = 1 .. Len(w)
  <1>2. IsSeq(Steps[1].writes) /\ IsSeq(Steps[3].writes) /\ IsSeq(Steps[8].writes)
    BY DEF Steps
  <1>3. IsSeq(Steps[2].writes)
    BY BuildSeq DEF Steps
  <1>4. IsSeq(Steps[4].writes)
    BY DEF Steps
  <1>5. IsSeq(Steps[5].writes)
    BY DEF Steps
  <1>6. IsSeq(Steps[6].writes)
    BY DEF Steps
  <1>7. IsSeq(Steps[7].writes)
    BY DEF Steps
  <1>8. QED  BY <1>2, <1>3, <1>4, <1>5, <1>6, <1>7, StepCount

(* The accelerators are recorded by the third step only, and the second    *)
(* has left its manifest when it passes.                                   *)
LEMMA AccelWrites ==
  /\ \A s \in DOMAIN Steps : "accel.txt" \in Writes(s) => s = 3
  /\ "build-manifest.json" \in Writes(2) \ Optional
  /\ "ci-manifest.json" # "accel.txt"
  /\ "build-manifest.json" \in Patterns \cap Paths
  <1> DEFINE Has(w) == \E k \in 1 .. Len(w) : w[k] = "accel.txt"
  <1>1. ~ Has(Steps[1].writes) /\ ~ Has(Steps[8].writes)
    BY DEF Steps
  <1>2. ~ Has(Steps[2].writes)
    BY BuildSeq DEF Steps
  <1>3. ~ Has(Steps[4].writes)
    BY DEF Steps
  <1>4. ~ Has(Steps[5].writes)
    BY DEF Steps
  <1>5. ~ Has(Steps[6].writes)
    BY DEF Steps
  <1>6. ~ Has(Steps[7].writes)
    BY DEF Steps
  <1>7. \A s \in DOMAIN Steps : "accel.txt" \in Writes(s) => Has(Steps[s].writes)
    BY WritesSeq DEF Writes
  <1> HIDE DEF Has
  <1>8. \A s \in DOMAIN Steps : "accel.txt" \in Writes(s) => s = 3
    BY <1>1, <1>2, <1>3, <1>4, <1>5, <1>6, <1>7, StepCount
  <1>9. "build-manifest.json" \in Writes(2)
    <2>1. Steps[2].writes = BuildWrites
      BY DEF Steps
    <2>2. QED
      BY <2>1, BuildSeq DEF Writes
  <1>10. QED
    BY <1>8, <1>9 DEF Optional, Patterns, Paths

LEMMA PrefixWrites ==
  ASSUME NEW s \in DOMAIN Steps, NEW written \in Prefixes(s)
  PROVE  written \subseteq Writes(s)
  <1>1. PICK n \in 0 .. Len(Steps[s].writes) : written = {Steps[s].writes[k] : k \in 1 .. n}
    BY DEF Prefixes
  <1>2. 1 .. n \subseteq DOMAIN Steps[s].writes
    BY WritesSeq, <1>1
  <1>3. QED  BY <1>1, <1>2 DEF Writes
-----------------------------------------------------------------------------
(* The inductive invariant.  A job is green while its ordinary steps run,  *)
(* and a job that is still green has all the files of the steps behind it; *)
(* the index is tried once, before the upload, and if it did not fail it   *)
(* lists what its patterns match; and a bundle is what the upload step's   *)
(* paths match.                                                            *)

Running == at \in DOMAIN Steps => status = "green"
Complete == status = "green" => \A s \in DOMAIN Steps : s < at => Writes(s) \ Optional \subseteq files
AccelBuilt == "accel.txt" \in files => "build-manifest.json" \in files
Tried == index # "none" <=> at = Uploading
Listed == index = "whole" => indexed = files \cap Patterns /\ "ci-manifest.json" \in files
GreenListed == status = "green" /\ at = Uploading => index = "whole"
Bundled == uploaded # {} => at = Uploading /\ uploaded = files \cap Paths
Justified == verdict = "green" => status = "green" /\ at = Uploading /\ uploaded = files \cap Paths

IInv ==
  /\ TypeOK /\ Running /\ Complete /\ AccelBuilt
  /\ Tried /\ Listed /\ GreenListed /\ Bundled /\ Justified

LEMMA InitInv == Init => IInv
  <1> SUFFICES ASSUME Init PROVE IInv
    OBVIOUS
  <1>1. at = 1 /\ 1 \in DOMAIN Steps /\ at # Uploading
    BY StepCount DEF Init
  <1>2. \A s \in DOMAIN Steps : ~ (s < at)
    BY <1>1, StepCount
  <1>3. QED
    BY <1>1, <1>2 DEF Init, IInv, TypeOK, Running, Complete, AccelBuilt, Tried, Listed,
       GreenListed, Bundled, Justified

(* A step that passes or stops adds files of its own only, so the          *)
(* accelerators are not recorded before the build is.                      *)
LEMMA AccelKept ==
  ASSUME IInv, at \in DOMAIN Steps, NEW new \in SUBSET Writes(at), files' = files \cup new
  PROVE  AccelBuilt'
  <1>1. CASE "accel.txt" \in new
    <2>1. at = 3
      BY <1>1, AccelWrites
    <2>2. "build-manifest.json" \in files
      BY <2>1, AccelWrites, StepCount DEF IInv, Running, Complete
    <2>3. QED
      BY <2>2 DEF AccelBuilt
  <1>2. CASE "accel.txt" \notin new
    BY <1>2 DEF IInv, AccelBuilt
  <1>3. QED  BY <1>1, <1>2

LEMMA PassInv ==
  ASSUME IInv, verdict = "none", StepPasses
  PROVE  IInv'
  <1>1. PICK without \in SUBSET (Optional \cap Writes(at)) : files' = files \cup (Writes(at) \ without)
    BY DEF StepPasses
  <1>2. /\ at \in 1 .. 8 /\ at' = at + 1 /\ at' \in 1 .. 9 /\ at # Uploading /\ at' # Uploading
        /\ UNCHANGED <<status, index, indexed, uploaded, verdict>>
    BY StepCount DEF StepPasses
  <1>3. files \subseteq files' /\ Writes(at) \ Optional \subseteq files' /\ Writes(at) \subseteq AllFiles
    BY <1>1, <1>2, StepCount, WritesAreFiles
  <1>4. TypeOK'
    BY <1>1, <1>2, <1>3, StepCount DEF IInv, TypeOK
  <1>5. Complete'
    <2> SUFFICES ASSUME status' = "green", NEW s \in DOMAIN Steps, s < at'
                 PROVE  Writes(s) \ Optional \subseteq files'
      BY DEF Complete
    <2>1. s < at \/ s = at
      BY <1>2, StepCount
    <2>2. QED
      BY <2>1, <1>2, <1>3 DEF IInv, Complete
  <1>6. uploaded' = {} /\ verdict' = "none" /\ index' = "none"
    BY <1>2 DEF IInv, Bundled, Tried
  <1>7. AccelBuilt' /\ Running'
    BY <1>1, <1>2, StepCount, AccelKept DEF IInv, Running
  <1>8. QED
    BY <1>2, <1>4, <1>5, <1>6, <1>7 DEF IInv, Tried, Listed, GreenListed, Bundled, Justified

LEMMA StopInv ==
  ASSUME IInv, verdict = "none", NEW s \in {"red", "cancelled"}, StopsWith(s)
  PROVE  IInv'
  <1>1. PICK written \in Prefixes(at), without \in SUBSET Optional :
          files' = files \cup (written \ without)
    BY DEF StopsWith
  <1>2. /\ at \in DOMAIN Steps /\ at \in 1 .. 8 /\ at # Uploading
        /\ at' = 9 /\ at' = Indexing /\ at' # Uploading /\ at' \notin DOMAIN Steps
        /\ status' = s /\ UNCHANGED <<index, indexed, uploaded, verdict>>
    BY StepCount DEF StopsWith
  <1>3. written \subseteq Writes(at) /\ written \subseteq AllFiles
    BY <1>1, <1>2, PrefixWrites, WritesAreFiles
  <1>4. TypeOK' /\ AccelBuilt'
    BY <1>1, <1>2, <1>3, AccelKept DEF IInv, TypeOK
  <1>5. uploaded' = {} /\ verdict' = "none" /\ index' = "none" /\ status' # "green"
    BY <1>2 DEF IInv, Bundled, Tried
  <1>6. QED
    BY <1>2, <1>4, <1>5 DEF IInv, Running, Complete, Tried, Listed, GreenListed, Bundled, Justified

LEMMA IndexInv ==
  ASSUME IInv, verdict = "none", Index
  PROVE  IInv'
  <1>1. /\ at = 9 /\ at' = 10 /\ at' = Uploading /\ at # Uploading /\ at' \notin DOMAIN Steps
        /\ UNCHANGED <<uploaded, verdict>>
    BY StepCount DEF Index
  <1>2. uploaded' = {} /\ verdict' = "none"
    BY <1>1 DEF IInv, Bundled
  <1>3. files' \in {files, files \cup {"ci-manifest.json"}}
    BY DEF Index, IndexFound, IndexBreaks
  <1>4. AccelBuilt' /\ Running'
    BY <1>1, <1>3, AccelWrites DEF IInv, AccelBuilt, Running
  <1>5. CASE IndexFound
    <2>1. TypeOK' /\ Tried' /\ Listed' /\ GreenListed'
      BY <1>1, <1>2, <1>5, IndexIsNew DEF IndexFound, IInv, TypeOK, Tried, Listed, GreenListed
    <2>2. Complete'
      BY <1>1, <1>5, StepCount DEF IndexFound, IInv, Complete
    <2>3. QED
      BY <1>2, <1>4, <2>1, <2>2 DEF IInv, Bundled, Justified
  <1>6. CASE IndexBreaks
    <2>1. status' \in {"red", "cancelled"} /\ indexed' = {} /\ index' = "failed"
      BY <1>6 DEF IndexBreaks, Failed, IInv, TypeOK
    <2>2. TypeOK'
      BY <1>1, <1>2, <1>3, <2>1, IndexIsNew DEF IInv, TypeOK
    <2>3. QED
      BY <1>1, <1>2, <1>4, <2>1, <2>2 DEF IInv, Complete, Tried, Listed, GreenListed, Bundled, Justified
  <1>7. QED  BY <1>5, <1>6 DEF Index

LEMMA UploadInv ==
  ASSUME IInv, verdict = "none", Upload
  PROVE  IInv'
  <1>1. at = Uploading /\ UNCHANGED <<at, files, status, index, indexed>>
    BY DEF Upload
  <1>2. \/ uploaded' = files \cap Paths /\ verdict' = status
        \/ uploaded' = {} /\ verdict' \in {"red", "cancelled"}
    BY DEF Upload, Failed, IInv, TypeOK
  <1>3. TypeOK' /\ Bundled' /\ Justified'
    BY <1>1, <1>2 DEF IInv, TypeOK, Bundled, Justified
  <1>4. QED
    BY <1>1, <1>3 DEF IInv, Running, Complete, AccelBuilt, Tried, Listed, GreenListed

LEMMA StepInv ==
  ASSUME IInv, [Next]_vars
  PROVE  IInv'
  <1>1. CASE verdict = "none" /\ StepPasses
    BY <1>1, PassInv
  <1>2. CASE verdict = "none" /\ (StepFails \/ StepCancelled)
    BY <1>2, StopInv DEF StepFails, StepCancelled
  <1>3. CASE verdict = "none" /\ Index
    BY <1>3, IndexInv
  <1>4. CASE verdict = "none" /\ Upload
    BY <1>4, UploadInv
  <1>5. CASE verdict = "none" /\ RunnerLost
    BY <1>5 DEF RunnerLost, IInv, TypeOK, Running, Complete, AccelBuilt, Tried,
       Listed, GreenListed, Bundled, Justified
  <1>6. CASE UNCHANGED vars
    BY <1>6 DEF vars, IInv, TypeOK, Running, Complete, AccelBuilt, Tried,
       Listed, GreenListed, Bundled, Justified
  <1>7. QED
    BY <1>1, <1>2, <1>3, <1>4, <1>5, <1>6 DEF Next, JobStep

THEOREM Inductive == Spec => []IInv
  <1>1. IInv /\ [Next]_vars => IInv'
    BY StepInv
  <1>2. QED
    BY InitInv, <1>1, PTL DEF Spec

-----------------------------------------------------------------------------
(* The theorems. *)

(* The variables have their types: no step leaves a file the job does not  *)
(* know of, and the index and the bundle hold files that are there.        *)
THEOREM TypeCorrect == Spec => []TypeOK
  <1>1. IInv => TypeOK
    BY DEF IInv
  <1>2. QED
    BY <1>1, Inductive, PTL

(* The files of every ordinary step of a green job are there. *)
LEMMA GreenDone ==
  ASSUME IInv, status = "green", at = Uploading
  PROVE  EveryStepDone
  <1>1. \A s \in DOMAIN Steps : s < at
    BY StepCount
  <1>2. QED
    BY <1>1 DEF IInv, Complete, EveryStepDone

(* What a step judged by is in the bundle, or by its hash in the index,    *)
(* whichever step was the last: make_ci_manifest.py and the upload run     *)
(* after a failure too, and the upload even when the index has failed.     *)
THEOREM EvidenceIsRetained == Spec => []JudgedIsRetained
  <1>1. IInv => JudgedIsRetained
    <2> SUFFICES ASSUME IInv, uploaded # {} PROVE JudgedIsRetained
      BY DEF JudgedIsRetained
    <2>1. uploaded = files \cap Paths /\ index # "none"
      BY DEF IInv, Bundled, Tried
    <2>2. index = "whole" => indexed = files \cap Patterns
      BY DEF IInv, Listed
    <2>3. ASSUME NEW s \in DOMAIN Steps, NEW f \in (Steps[s].judges \cap files) \ NotRetained
          PROVE  (index = "whole" => f \in indexed) /\ (f \in uploaded \/ f \in ByHash)
      BY <2>1, <2>2, <2>3, JudgesCovered DEF Covered
    <2>4. ASSUME "accel.txt" \in files
          PROVE  "build-manifest.json" \in uploaded
                 /\ (index = "whole" => "build-manifest.json" \in indexed)
      BY <2>1, <2>2, <2>4, AccelWrites DEF IInv, AccelBuilt
    <2>5. QED
      BY <2>1, <2>3, <2>4 DEF JudgedIsRetained
  <1>2. QED
    BY <1>1, Inductive, PTL

(* A green job left out no step, and its bundle has a whole index.         *)
THEOREM GreenIsComplete == Spec => []GreenIsRetained
  <1>1. IInv => GreenIsRetained
    <2> SUFFICES ASSUME IInv, verdict = "green" PROVE GreenIsRetained
      BY DEF GreenIsRetained
    <2>1. status = "green" /\ at = Uploading /\ uploaded = files \cap Paths /\ index = "whole"
      BY DEF IInv, Justified, GreenListed
    <2>2. QED
      BY <2>1, GreenDone, IndexIsNew DEF IInv, Listed, GreenIsRetained
  <1>2. QED
    BY <1>1, Inductive, PTL

-----------------------------------------------------------------------------
(* The job as a gate. *)

LEMMA GateStep ==
  ASSUME IInv, IInv', [Next]_vars
  PROVE  [G!Next]_(G!gateVars)
  <1> DEFINE Ok == EveryStepDone /\ index = "whole"
  <1>1. Ok \in BOOLEAN /\ Ok' \in BOOLEAN
    OBVIOUS
  <1>2. CASE verdict = "none" /\ UNCHANGED verdict
    BY <1>1, <1>2 DEF G!Next, G!Observe
  <1>3. CASE verdict = "none" /\ UNCHANGED <<at, files, index, status>>
    <2>1. UNCHANGED EveryStepDone
      BY <1>3 DEF EveryStepDone
    <2>2. verdict' \in {"none", "green", "red", "cancelled"}
      BY DEF IInv, TypeOK
    <2>3. verdict' = "green" => Ok
      BY <1>3, GreenDone DEF IInv, Justified, GreenListed
    <2>4. QED
      BY <1>3, <2>1, <2>2, <2>3 DEF G!Next, G!Decide, G!gateVars
  <1>4. CASE UNCHANGED vars
    <2>1. UNCHANGED EveryStepDone
      BY <1>4 DEF vars, EveryStepDone
    <2>2. QED
      BY <1>4, <2>1 DEF vars, G!gateVars
  <1>5. QED
    BY <1>2, <1>3, <1>4 DEF Next, JobStep, StepPasses, StepFails, StepCancelled, StopsWith,
       Index, Upload, RunnerLost

(* The job never does what the gate does not allow: the safety part of     *)
(* ImplementsGate.  That it concludes is checked, not proved.              *)
THEOREM RefinesGate == Spec => G!Init /\ [][G!Next]_(G!gateVars)
  <1>1. Init => G!Init
    BY DEF Init, G!Init
  <1>2. IInv /\ IInv' /\ [Next]_vars => [G!Next]_(G!gateVars)
    BY GateStep
  <1>3. QED
    BY <1>1, <1>2, Inductive, PTL DEF Spec
=============================================================================

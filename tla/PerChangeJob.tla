---------------------------- MODULE PerChangeJob ----------------------------
(***************************************************************************)
(* The per-change job of generic-ci.yml as a whole: its steps in order,    *)
(* the files each of them leaves, and the two steps that always run:       *)
(* sut/make_ci_manifest.py, which hashes what it finds under .w05, and the *)
(* upload of the evidence.  What the judging steps decide is in SmokeLane  *)
(* and CorpusLane; here a step passes or fails, with all or with some of   *)
(* its files.                                                              *)
(***************************************************************************)
EXTENDS Naturals, Sequences

VARIABLES at,        \* the next step: an index of Steps, or one of the two below
          files,     \* what is under .w05, and accel.txt beside it
          status,    \* of the job so far: "green", "red" or "cancelled"
          index,     \* of the step that writes it: "none", "whole" or "failed"
          indexed,   \* what a whole ci-manifest.json lists
          uploaded,  \* the artifact bundle
          verdict    \* "none", or the job's conclusion

vars == <<at, files, status, index, indexed, uploaded, verdict>>

(* What build_qemu.sh leaves, in order. *)
BuildWrites ==
  <<"qemu.tar.xz", "qemu.tar.xz.sig", "release-key.asc", "source tree", "configure.log",
    "meson-log.txt", "build.log", "qemu-system-aarch64", "build-manifest.json">>

(* The steps between the checkout and the evidence, with the files each    *)
(* writes in order, and those it gives its verdict by.                     *)
Steps == <<
  [name |-> "deps", writes |-> << >>, judges |-> {}],
  [name |-> "build", writes |-> BuildWrites,
   judges |-> {"qemu.tar.xz", "qemu.tar.xz.sig", "release-key.asc", "source tree",
               "qemu-system-aarch64"}],
  [name |-> "accel", writes |-> <<"accel.txt">>, judges |-> {"accel.txt"}],
  [name |-> "inputs", writes |-> <<"code.fd", "vars.fd", "alpine.qcow2">>,
   judges |-> {"code.fd", "vars.fd", "alpine.qcow2"}],
  [name |-> "smoke",
   writes |-> <<"seed-smoke.iso", "smoke/qemu-stderr.log", "smoke/boot-transcript.log",
                "smoke/run-result.json", "smoke/boot-transcript.json", "smoke/smoke-junit.xml">>,
   judges |-> {"smoke/boot-transcript.log", "smoke/run-result.json"}],
  [name |-> "corpus",
   writes |-> <<"seed-corpus.iso", "corpus/qemu-stderr.log", "corpus/boot-transcript.log",
                "corpus/run-result.json", "runner-raw.sut.txt", "results-sut.json",
                "diff-report.json", "diff-report.txt">>,
   judges |-> {"corpus/boot-transcript.log", "runner-raw.sut.txt", "results-sut.json"}],
  [name |-> "control",
   writes |-> <<"results-sut-noseed.json", "diff-report-negctrl.json", "diff-report-negctrl.txt">>,
   judges |-> {"runner-raw.sut.txt", "results-sut-noseed.json"}],
  [name |-> "selftest", writes |-> << >>, judges |-> {}] >>

Indexing == Len(Steps) + 1
Uploading == Len(Steps) + 2

(* A step can pass without these: meson may keep no log, and the corpus    *)
(* step does not look at how its boot ended.                               *)
Optional == {"meson-log.txt", "corpus/run-result.json"}

(* The patterns of make_ci_manifest.py. *)
Patterns ==
  {"qemu-system-aarch64", "build-manifest.json", "configure.log", "build.log",
   "code.fd", "vars.fd",
   "smoke/boot-transcript.log", "smoke/boot-transcript.json", "smoke/smoke-junit.xml",
   "smoke/run-result.json",
   "corpus/boot-transcript.log", "runner-raw.sut.txt", "results-sut.json",
   "results-sut-noseed.json", "diff-report.json", "diff-report.txt",
   "diff-report-negctrl.json", "corpus/run-result.json",
   "seed-smoke.iso", "seed-corpus.iso", "alpine.qcow2"}

(* The paths of the upload step; qemu/logs is uploaded as a directory. *)
Paths ==
  {"configure.log", "meson-log.txt", "build.log", "build-manifest.json",
   "smoke/boot-transcript.log", "smoke/boot-transcript.json", "smoke/smoke-junit.xml",
   "smoke/run-result.json", "smoke/qemu-stderr.log",
   "corpus/boot-transcript.log", "runner-raw.sut.txt", "results-sut.json",
   "results-sut-noseed.json", "diff-report.json", "diff-report.txt",
   "diff-report-negctrl.json", "corpus/run-result.json", "ci-manifest.json"}

Writes(s) == {Steps[s].writes[k] : k \in DOMAIN Steps[s].writes}
Prefixes(s) == {{Steps[s].writes[k] : k \in 1 .. n} : n \in 0 .. Len(Steps[s].writes)}

-----------------------------------------------------------------------------
Init ==
  /\ at = 1 /\ files = {} /\ status = "green"
  /\ index = "none" /\ indexed = {} /\ uploaded = {} /\ verdict = "none"

(* A failed step fails the job, unless it has been cancelled. *)
Failed == IF status = "green" THEN "red" ELSE status

StepPasses ==
  /\ at \in DOMAIN Steps
  /\ \E without \in SUBSET (Optional \cap Writes(at)) :
       files' = files \cup (Writes(at) \ without)
  /\ at' = at + 1
  /\ UNCHANGED <<status, index, indexed, uploaded, verdict>>

(* What a step that did not pass has written so far; run_guest.sh has no   *)
(* result to write when it is killed itself.                               *)
StopsWith(s) ==
  /\ at \in DOMAIN Steps
  /\ \E written \in Prefixes(at), without \in SUBSET Optional :
       files' = files \cup (written \ without)
  /\ status' = s /\ at' = Indexing
  /\ UNCHANGED <<index, indexed, uploaded, verdict>>

(* Mutant: continue-on-error on a step. *)
StepContinued ==
  /\ at \in DOMAIN Steps /\ at' = at + 1
  /\ \E written \in Prefixes(at) : files' = files \cup written
  /\ UNCHANGED <<status, index, indexed, uploaded, verdict>>

(* A failed step ends the run of ordinary steps, *)
StepFails == StopsWith("red")

(* and so does a cancellation or the time limit. *)
StepCancelled == StopsWith("cancelled")

(* make_ci_manifest.py hashes the files it finds. *)
IndexFound ==
  /\ index' = "whole" /\ indexed' = files \cap Patterns
  /\ files' = files \cup {"ci-manifest.json"}
  /\ UNCHANGED status

(* It dies, or the time limit passes: a file cannot be read, or .w05 is    *)
(* not there yet, or the disk is full when it writes; then a part of the   *)
(* index is left.                                                          *)
IndexBreaks ==
  /\ index' = "failed" /\ indexed' = {}
  /\ files' \in {files, files \cup {"ci-manifest.json"}}
  /\ status' \in {Failed, "cancelled"}

(* Mutant: the evidence is indexed only when everything has passed. *)
IndexIfGreen ==
  /\ at = Indexing /\ at' = Uploading
  /\ IF status = "green" THEN IndexFound \/ IndexBreaks
     ELSE UNCHANGED <<files, status, index, indexed>>
  /\ UNCHANGED <<uploaded, verdict>>

(* Mutant: what a pattern names is taken to be there. *)
IndexUnseen ==
  /\ at = Indexing /\ at' = Uploading
  /\ index' = "whole" /\ indexed' = Patterns /\ files' = files \cup {"ci-manifest.json"}
  /\ UNCHANGED <<status, uploaded, verdict>>

Index ==
  /\ at = Indexing /\ at' = Uploading
  /\ IndexFound \/ IndexBreaks
  /\ UNCHANGED <<uploaded, verdict>>

(* Mutant: a bundle that could not be uploaded does not matter. *)
UploadOptional ==
  /\ at = Uploading
  /\ uploaded' \in {files \cap Paths, {}}
  /\ verdict' = status
  /\ UNCHANGED <<at, files, status, index, indexed>>

(* The upload fails with no file to upload, or for reasons of its own, or  *)
(* the time limit passes.                                                  *)
Upload ==
  /\ at = Uploading
  /\ \/ /\ files \cap Paths # {}
        /\ uploaded' = files \cap Paths
        /\ verdict' = status
     \/ uploaded' = {} /\ verdict' \in {Failed, "cancelled"}
  /\ UNCHANGED <<at, files, status, index, indexed>>

(* The runner is lost, and with it what it has not uploaded. *)
RunnerLost ==
  /\ verdict' = "red"
  /\ UNCHANGED <<at, files, status, index, indexed, uploaded>>

JobStep == StepPasses \/ StepFails \/ Index \/ Upload

Next ==
  \/ verdict = "none" /\ (JobStep \/ StepCancelled \/ RunnerLost)
  \/ verdict # "none" /\ UNCHANGED vars

(* GitHub runs the steps of a job until it ends. *)
Fairness == WF_vars(verdict = "none" /\ JobStep)

Spec == Init /\ [][Next]_vars /\ Fairness

-----------------------------------------------------------------------------
(* Properties. *)

AllFiles == (UNION {Writes(s) : s \in DOMAIN Steps}) \cup {"ci-manifest.json"}

(* The type invariant. *)
TypeOK ==
  /\ at \in DOMAIN Steps \cup {Indexing, Uploading}
  /\ files \subseteq AllFiles /\ indexed \subseteq files /\ uploaded \subseteq files
  /\ index \in {"none", "whole", "failed"}
  /\ status \in {"green", "red", "cancelled"}
  /\ verdict \in {"none", "green", "red", "cancelled"}

(* What a step judges by and nothing retains: what the binary was built    *)
(* from, which is fetched again by its pins, and the accelerators that it  *)
(* reports, which it reports again.                                        *)
NotRetained ==
  {"qemu.tar.xz", "qemu.tar.xz.sig", "release-key.asc", "source tree", "accel.txt"}

(* These are kept by their hash only. *)
ByHash == {"qemu-system-aarch64", "code.fd", "vars.fd", "alpine.qcow2"}

(* Whatever becomes of a job, if its evidence was uploaded then an index   *)
(* was tried; every file by which a step judged, the last and failed one   *)
(* included, is in the bundle unless it is large, and is listed unless     *)
(* the index failed itself; and once a step ran the binary, the bundle has *)
(* the manifest that names it and its tarball by their hashes.  So a       *)
(* verdict can be checked again, but for what NotRetained names.           *)
JudgedIsRetained ==
  uploaded # {} =>
    LET kept(f) == f \in uploaded /\ (index = "whole" => f \in indexed)
        named(f) == f \in ByHash /\ (index = "whole" => f \in indexed)
    IN /\ index # "none"
       /\ \A s \in DOMAIN Steps : \A f \in (Steps[s].judges \cap files) \ NotRetained :
            kept(f) \/ named(f)
       /\ "accel.txt" \in files => kept("build-manifest.json")

(* Every ordinary step has left what it leaves when it passes. *)
EveryStepDone == \A s \in DOMAIN Steps : Writes(s) \ Optional \subseteq files

(* A green job has uploaded all its evidence, with a whole index: nothing  *)
(* the index could list was missed.                                        *)
GreenIsRetained ==
  verdict = "green" =>
    /\ EveryStepDone
    /\ uploaded = files \cap Paths /\ "ci-manifest.json" \in uploaded
    /\ indexed = Patterns \cap files

(* The job implements the gate: its verdict is final, green only when      *)
(* every step has done its work and is indexed, and it comes.              *)
G == INSTANCE Gate WITH Verdicts <- {"red", "cancelled"},
                        good <- EveryStepDone /\ index = "whole", verdict <- verdict
ImplementsGate == G!Spec
=============================================================================

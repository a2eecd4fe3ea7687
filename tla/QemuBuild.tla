----------------------------- MODULE QemuBuild -----------------------------
(***************************************************************************)
(* sut/build_qemu.sh: one run after another over a working directory that  *)
(* persists.  It downloads the pinned tarball and its signature, verifies  *)
(* both, extracts, checks the tree and builds.  What is there already is   *)
(* used again, so what an interrupted run leaves behind is what the next   *)
(* one starts from.  curl, gpg, tar and ninja are external.                *)
(*                                                                         *)
(* A file holds one of Contents, or is "absent", "empty" or "cut" short.   *)
(***************************************************************************)
EXTENDS Naturals

CONSTANTS Contents,   \* what a complete download may hold
          Pinned,     \* for each file, the content pins.json names
          Signed,     \* the tarballs the release manager's key has signed
          Files,      \* the files of a source tree
          MaxFaults   \* bound: accidents, over all the runs

(* The files line 111 and line 110 of the script name, abstracted. *)
Essential == {"VERSION", "configure", "virt.c", "code.bz2", "vars.bz2"}

Broken == {"absent", "empty", "cut"}

ASSUME BuildAssumption ==
  /\ Pinned \in Contents /\ Signed \subseteq Contents
  /\ Contents \cap Broken = {}
  /\ Essential \subseteq Files
  /\ MaxFaults \in Nat

VARIABLES tarball, sig,   \* the two downloads; sig is known by what it signs
          tree,           \* the extracted source tree
          bin,            \* qemu-system-aarch64
          built,          \* history: ninja of this run has succeeded
          at,             \* the step the run is at, "failed" or "ready"
          faults

buildVars == <<tarball, sig, tree, bin, built, at, faults>>

NoTree == [of |-> "absent", whole |-> {}, cut |-> {}]
Present(t) == t.whole \cup t.cut
Complete(t) == t.whole = Files

BuildInit ==
  /\ tarball = "absent" /\ sig = "absent"
  /\ tree = NoTree /\ bin = "absent" /\ built = FALSE
  /\ at = "failed" /\ faults = 0

-----------------------------------------------------------------------------
(* How a step ends. *)

Proceed(next) == at' = next /\ UNCHANGED faults

(* Mutant: a check that fails does not end the run. *)
WarnOnly == at' = "warned" /\ UNCHANGED faults

(* A check fails and the run exits 1. *)
Refuse == at' = "failed" /\ UNCHANGED faults

(* An accident: the step is interrupted, or a server or tool misbehaves. *)
Fault == faults < MaxFaults /\ faults' = faults + 1
Interrupted == at' = "failed" /\ Fault

(* The script is run, again.  mkdir -p keeps what is there. *)
Start ==
  /\ at \in {"failed", "ready"}
  /\ Proceed("tarball") /\ built' = FALSE
  /\ UNCHANGED <<tarball, sig, tree, bin>>

(* Mutant: [[ -e ]] for [[ -s ]]. *)
CachedIfExists(file) == file # "absent"

(* fetch_cached: whatever is there and not empty is not fetched. *)
Cached(file) == file \notin {"absent", "empty"}

(* curl succeeds, serves something else, or fails part-way or at once. *)
Fetch(file, new, next) ==
  \/ Cached(file) /\ Proceed(next) /\ new = file
  \/ ~ Cached(file) /\ Proceed(next) /\ new = Pinned
  \/ ~ Cached(file) /\ Fault /\ at' = next /\ new \in Contents
  \/ ~ Cached(file) /\ Interrupted /\ new \in {file, "empty", "cut"}

FetchTarball ==
  /\ at = "tarball" /\ Fetch(tarball, tarball', "sig")
  /\ UNCHANGED <<sig, tree, bin, built>>

FetchSignature ==
  /\ at = "sig" /\ Fetch(sig, sig', "key")
  /\ UNCHANGED <<tarball, tree, bin, built>>

(* The keyring is made anew in every run; no key server may answer, or     *)
(* they may hold another key.                                              *)
ImportKey ==
  /\ at = "key" /\ (Proceed("verify") \/ Interrupted)
  /\ UNCHANGED <<tarball, sig, tree, bin, built>>

VerifySignature ==
  /\ at = "verify"
  /\ IF tarball \in Signed /\ sig = tarball THEN Proceed("hash") ELSE Refuse
  /\ UNCHANGED <<tarball, sig, tree, bin, built>>

(* Mutant: the SHA-256 is recorded and not compared. *)
RecordHash ==
  /\ at = "hash" /\ Proceed("extract")
  /\ UNCHANGED <<tarball, sig, tree, bin, built>>

CheckHash ==
  /\ at = "hash"
  /\ IF tarball = Pinned THEN Proceed("extract") ELSE Refuse
  /\ UNCHANGED <<tarball, sig, tree, bin, built>>

(* Mutant: the tree is extracted again in every run. *)
ExtractAgain ==
  /\ at = "extract"
  /\ \/ Proceed("check") /\ tree' = [of |-> tarball, whole |-> Files, cut |-> {}]
     \/ Interrupted /\ \E done \in SUBSET Files : tree' = [of |-> tarball, whole |-> done, cut |-> {}]
  /\ UNCHANGED <<tarball, sig, bin, built>>

(* A tree with a configure script is used as it is.  An interrupted tar    *)
(* leaves some files, in whatever order the archive has them, the last of  *)
(* them perhaps cut.                                                       *)
Extract ==
  /\ at = "extract"
  /\ \/ "configure" \in Present(tree) /\ Proceed("check") /\ UNCHANGED tree
     \/ /\ "configure" \notin Present(tree) /\ Proceed("check")
        /\ tree' = [of |-> tarball, whole |-> Files, cut |-> {}]
     \/ /\ "configure" \notin Present(tree) /\ Interrupted
        /\ \E done \in SUBSET Files :
             \E last \in {{}} \cup {{f} : f \in Files \ done} :
               tree' = [of |-> tarball, whole |-> done, cut |-> last]
  /\ UNCHANGED <<tarball, sig, bin, built>>

(* VERSION is read; of the other files only the presence is looked at.     *)
CheckTree ==
  /\ at = "check"
  /\ IF "VERSION" \in tree.whole /\ Essential \subseteq Present(tree)
     THEN Proceed("build") ELSE Refuse
  /\ UNCHANGED <<tarball, sig, tree, bin, built>>

(* Mutant: without pipefail tee's status hides ninja's. *)
BuildThroughTee ==
  /\ at = "build"
  /\ \/ Proceed("accel") /\ bin' = tree.of /\ built' = TRUE
     \/ bin \in Contents /\ Fault /\ at' = "accel" /\ UNCHANGED <<bin, built>>
  /\ UNCHANGED <<tarball, sig, tree>>

(* configure and ninja, through tee under pipefail, then the build         *)
(* manifest and the exports.  A file that is missing or cut may matter to  *)
(* this target or not; an interrupted ninja may leave half a binary, and   *)
(* one that has linked may be followed by a failed manifest or export.     *)
Build ==
  /\ at = "build"
  /\ \/ bin' = tree.of /\ built' = TRUE /\ (Proceed("accel") \/ Interrupted)
     \/ ~ Complete(tree) /\ Refuse /\ UNCHANGED <<bin, built>>
     \/ Interrupted /\ bin' \in {bin, "absent", "cut"} /\ UNCHANGED built
  /\ UNCHANGED <<tarball, sig, tree>>

BuildStep ==
  \/ FetchTarball \/ FetchSignature \/ ImportKey \/ VerifySignature \/ CheckHash
  \/ Extract \/ CheckTree \/ Build

(* What no later run of the script repairs: a download that is not the     *)
(* pinned one and not empty, a tree that has a configure script and is     *)
(* not complete.                                                           *)
CacheStuck ==
  \/ \E file \in {tarball, sig} : file \notin {Pinned, "absent", "empty"}
  \/ "configure" \in Present(tree) /\ ~ Complete(tree)
=============================================================================

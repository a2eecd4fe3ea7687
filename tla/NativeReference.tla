-------------------------- MODULE NativeReference --------------------------
(***************************************************************************)
(* The native job of arm64-reference.yml and of                            *)
(* arm64-valid-corpus-reference.yml: on a host that must be genuine ARM64  *)
(* silicon it compiles the runner of the commit, runs it, collects its     *)
(* output as the reference set and publishes that.  The first workflow     *)
(* also runs the harness self-test, the second first runs the same binary  *)
(* in check mode.  What becomes of the published bundle on main is         *)
(* ReferenceRepo.                                                          *)
(***************************************************************************)
EXTENDS DiffEngine

CONSTANTS Commits,    \* [corpus, manifest, runner, native, expect]
          Hosts,      \* [um, virt, emulated]
          Emulated,   \* outputs an emulated host may give
          Lines       \* lines the workflow expects (22, 54)

(* corpus is the directory the job is for, harness or harness-valid: each  *)
(* has a workflow.  runner lists the tests in the order of the C source,   *)
(* native[id] is what silicon may print for one of them: more than one     *)
(* output for a store-exclusive, which may fail spuriously and is not      *)
(* retried.  expect is the table EXPECT.                                   *)
ASSUME NativeAssumption ==
  /\ Lines \in Nat \ {0}
  /\ Emulated \subseteq WholeOutput
  /\ \A c \in Commits :
       /\ c.corpus \in {"harness", "valid"}
       /\ c.manifest.tests \in ManifestTests
       /\ c.runner \in Seq(STRING)
       /\ \A k \in DOMAIN c.runner : c.native[c.runner[k]] \subseteq WholeOutput

VARIABLES commit, host,  \* what the job is given
          step,          \* its next step
          raw,           \* runner-raw.reference.txt
          set,           \* results-reference.json, or NoSet
          bundle,        \* what has been published, or NoSet
          verdict        \* "none", or the job's conclusion

vars == <<commit, host, step, raw, set, bundle, verdict>>

manifest == commit.manifest
CheckMode == commit.corpus = "valid"
NoSet == [side |-> "none"]

(* What one execution of a test on this host may print. *)
Gives(id) == IF host.emulated THEN Emulated ELSE commit.native[id]

(* One execution of the runner: every test once, one whole line each. *)
Executions ==
  LET n == DOMAIN commit.runner
      outs == {f \in [n -> UNION {Gives(commit.runner[k]) : k \in n}] :
                 \A k \in n : f[k] \in Gives(commit.runner[k])}
  IN {[k \in n |-> RawLine(commit.runner[k], f[k])] : f \in outs}

Init ==
  /\ commit \in Commits /\ host \in Hosts
  /\ step = "gate" /\ raw = << >>
  /\ set = NoSet /\ bundle = NoSet /\ verdict = "none"

Go(next) == step' = next /\ UNCHANGED verdict
Conclude(v) == step' = "end" /\ verdict' = v
Fail == Conclude("red")

(* The machine must be an aarch64 one on which systemd-detect-virt, whose  *)
(* failure is discarded, does not answer qemu or tcg.                      *)
SiliconGate ==
  /\ step = "gate"
  /\ IF host.um = "aarch64" /\ host.virt \notin {"qemu", "tcg"} THEN Go("compile") ELSE Fail
  /\ UNCHANGED <<commit, host, raw, set, bundle>>

(* The compiler may fail, or what it makes is not an aarch64 ELF. *)
Compile ==
  /\ step = "compile"
  /\ Go(IF CheckMode THEN "check" ELSE "run") \/ Fail
  /\ UNCHANGED <<commit, host, raw, set, bundle>>

(* emit_or_check: every computed output equals the one baked in for its id.*)
Passes(lines) ==
  \A k \in DOMAIN lines :
    lines[k].id \in DOMAIN commit.expect /\ commit.expect[lines[k].id] = lines[k].out

(* Mutant: the status of the check run is lost, in a pipe say. *)
CheckRunIgnored ==
  /\ step = "check" /\ Go("run")
  /\ UNCHANGED <<commit, host, raw, set, bundle>>

(* valid_corpus_runner check, a process of its own, which may also crash.  *)
CheckRun ==
  /\ step = "check"
  /\ ((\E lines \in Executions : Passes(lines)) /\ Go("run")) \/ Fail
  /\ UNCHANGED <<commit, host, raw, set, bundle>>

(* Mutant: the lines are not counted. *)
EmitRunUncounted ==
  /\ step = "run"
  /\ \E lines \in Executions : raw' = lines /\ Go("collect")
  /\ UNCHANGED <<commit, host, set, bundle>>

(* The run that is published, and wc -l of what it printed. *)
EmitRun ==
  /\ step = "run"
  /\ \/ \E lines \in Executions :
          raw' = lines /\ IF Len(lines) = Lines THEN Go("collect") ELSE Fail
     \/ Fail /\ UNCHANGED raw
  /\ UNCHANGED <<commit, host, set, bundle>>

CollectedOK == CollectOK(manifest, raw, "reference", FALSE)

(* Mutant: --side sut. *)
CollectAsSut ==
  /\ step = "collect" /\ CollectedOK
  /\ set' = Collect(manifest, raw, "sut", FALSE)
  /\ Go(IF CheckMode THEN "upload" ELSE "selftest")
  /\ UNCHANGED <<commit, host, raw, bundle>>

(* collect_results.py --side reference. *)
CollectReference ==
  /\ step = "collect"
  /\ IF CollectedOK
     THEN /\ set' = Collect(manifest, raw, "reference", FALSE)
          /\ Go(IF CheckMode THEN "upload" ELSE "selftest")
     ELSE Fail /\ UNCHANGED set
  /\ UNCHANGED <<commit, host, raw, bundle>>

(* Mutant: the self-test runs, its exit status is lost. *)
SelfTestIgnored ==
  /\ step = "selftest" /\ Go("upload")
  /\ UNCHANGED <<commit, host, raw, set, bundle>>

SelfTest ==
  /\ step = "selftest"
  /\ IF SelfTestOK(manifest) THEN Go("upload") ELSE Fail
  /\ UNCHANGED <<commit, host, raw, set, bundle>>

Upload ==
  /\ step = "upload" /\ (Go("publish") \/ Fail)
  /\ UNCHANGED <<commit, host, raw, set, bundle>>

(* Mutant: the status of the push is lost. *)
PublishIgnored ==
  /\ step = "publish" /\ Go("published")
  /\ bundle' \in {bundle, set}
  /\ UNCHANGED <<commit, host, raw, set>>

(* The set is committed, unless it is what is committed already, and       *)
(* pushed: main takes the push or refuses it.                              *)
Publish ==
  /\ step = "publish"
  /\ \/ bundle' = set /\ Go("published")
     \/ Fail /\ UNCHANGED bundle
  /\ UNCHANGED <<commit, host, raw, set>>

(* What main took, the job has yet to hear of: the answer may be lost.     *)
PushReturns ==
  /\ step = "published" /\ (Conclude("green") \/ Fail)
  /\ UNCHANGED <<commit, host, raw, set, bundle>>

JobStep ==
  \/ SiliconGate \/ Compile \/ CheckRun \/ EmitRun \/ CollectReference
  \/ SelfTest \/ Upload \/ Publish \/ PushReturns

(* The time limit, or somebody. *)
JobCancelled ==
  /\ step # "end" /\ Conclude("cancelled")
  /\ UNCHANGED <<commit, host, raw, set, bundle>>

Next == JobStep \/ JobCancelled \/ (step = "end" /\ UNCHANGED vars)

Fairness == WF_vars(JobStep)

Spec == Init /\ [][Next]_vars /\ Fairness

-----------------------------------------------------------------------------
(* Properties. *)

Sets == [side : {"reference"}, corpus_manifest_version : {manifest.version},
         corpus_manifest_sha256 : {manifest.sha256}, seed_active : {FALSE},
         results : [ManifestIds(manifest) -> WholeOutput]]

(* The type invariant. *)
TypeOK ==
  /\ commit \in Commits /\ host \in Hosts
  /\ step \in {"gate", "compile", "check", "run", "collect", "selftest",
               "upload", "publish", "published", "end"}
  /\ raw \in Seq(WholeLines)
  /\ set \in Sets \cup {NoSet} /\ bundle \in {NoSet, set}
  /\ verdict \in {"none", "green", "red", "cancelled"}

(* What CorpusLane takes for granted of a committed reference: it is bound *)
(* to the manifest of its commit, was never mutated, and has for every     *)
(* test of the manifest, and for no other, an output that the commit's own *)
(* runner may print on this host; and it has the number of tests the lanes *)
(* expect.  It holds of what main took whatever becomes of the job, which  *)
(* may be red or cancelled with its push accepted.                         *)
PublishedFits ==
  bundle # NoSet =>
    /\ BoundTo(bundle, "reference", manifest) /\ ~ bundle.seed_active
    /\ DOMAIN bundle.results = ManifestIds(manifest)
    /\ \A id \in ManifestIds(manifest) : bundle.results[id] \in Gives(id)
    /\ Cardinality(ManifestIds(manifest)) = Lines

(* The header of arm64-reference.yml: the job fails closed if the runner   *)
(* is not real hardware or is a qemu or tcg emulation.  No oracle on main  *)
(* was emulated.                                                           *)
NativeOnly == bundle # NoSet => ~ host.emulated

(* What the self-test on synthetic sets buys of the real ones, in the      *)
(* workflow that has it: the differential accepts a seeded engine that     *)
(* printed what the hardware printed, and rejects the unseeded one, which  *)
(* is INVALID and not malformed.  Only the seed's real output must be one  *)
(* that can be mutated, which no step looks at.                            *)
PublishedIsUsable ==
  ~ CheckMode /\ bundle # NoSet /\ (\A s \in SeedIds(manifest) : MutateOK(bundle.results[s])) =>
    /\ CollectOK(manifest, raw, "sut", TRUE)
    /\ DiffExit(manifest, Collect(manifest, raw, "sut", TRUE), bundle) = 0
    /\ DiffExit(manifest, Collect(manifest, raw, "sut", FALSE), bundle) = 1

(* What the check run buys: an expectation that ships with a published     *)
(* reference is one that the runner can meet on this host.  Not that the   *)
(* output published beside it is the same: that comes from another run,    *)
(* and the two may differ where an exclusive store may fail.               *)
ExpectationsMet ==
  CheckMode /\ bundle # NoSet =>
    \A id \in ManifestIds(manifest) :
      id \in DOMAIN commit.expect /\ commit.expect[id] \in Gives(id)

(* The job implements the gate: it ends, its verdict is final, and green   *)
(* only when main has the set that was collected of its run.               *)
G == INSTANCE Gate WITH
       Verdicts <- {"red", "cancelled"}, verdict <- verdict,
       good <- bundle # NoSet /\ CollectedOK
               /\ bundle = Collect(manifest, raw, "reference", FALSE)
ImplementsGate == G!Spec
=============================================================================

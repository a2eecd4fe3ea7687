----------------------- MODULE NativeReferenceProofs ------------------------
(***************************************************************************)
(* What a published reference is, for every commit, host and processor.    *)
(***************************************************************************)
EXTENDS NativeReference, DiffEngineProofs, SequenceTheorems

(* The inductive invariant: what each step has established for the ones    *)
(* after it, and for the bundle.                                           *)

Admitted == host.um = "aarch64" /\ host.virt \notin {"qemu", "tcg"}
Counted == raw \in Executions /\ Len(raw) = Lines
Collected == CollectedOK /\ set = Collect(manifest, raw, "reference", FALSE)
Tested == CheckMode \/ SelfTestOK(manifest)
Confirmed ==
  CheckMode => \A k \in DOMAIN commit.runner :
                 /\ commit.runner[k] \in DOMAIN commit.expect
                 /\ commit.expect[commit.runner[k]] \in Gives(commit.runner[k])

JobType ==
  /\ commit \in Commits /\ host \in Hosts
  /\ step \in {"gate", "compile", "check", "run", "collect", "selftest",
               "upload", "publish", "published", "end"}
  /\ raw \in Seq(WholeLines)
  /\ set \in Sets \cup {NoSet}
  /\ verdict \in {"none", "green", "red", "cancelled"}
  /\ verdict # "none" <=> step = "end"

StepInv ==
  /\ step \notin {"gate", "end"} => Admitted
  /\ step \in {"run", "collect", "selftest", "upload", "publish", "published"} => Confirmed
  /\ step \in {"collect", "selftest", "upload", "publish", "published"} => Counted
  /\ step \in {"selftest", "upload", "publish", "published"} => Collected
  /\ step \in {"upload", "publish", "published"} => Tested
  /\ step \in {"gate", "compile", "check", "run", "collect"} => set = NoSet

BundleInv ==
  \/ bundle = NoSet /\ step # "published" /\ verdict # "green"
  \/ bundle = set /\ step \in {"published", "end"} /\ Admitted /\ Confirmed /\ Counted /\ Collected /\ Tested

IInv == JobType /\ StepInv /\ BundleInv

-----------------------------------------------------------------------------
(* One execution of the runner prints whole lines, each of an output that  *)
(* its test may give.                                                      *)
LEMMA ExecutionLines ==
  ASSUME commit \in Commits, NEW lines \in Executions
  PROVE  /\ lines \in Seq(WholeLines)
         /\ \A k \in DOMAIN lines : lines[k].out \in Gives(lines[k].id)
<1> DEFINE n == DOMAIN commit.runner
<1>1. PICK f \in [n -> UNION {Gives(commit.runner[k]) : k \in n}] :
        /\ \A k \in n : f[k] \in Gives(commit.runner[k])
        /\ lines = [k \in n |-> RawLine(commit.runner[k], f[k])]
  BY DEF Executions
<1>2. commit.runner \in Seq(STRING)
  BY NativeAssumption
<1>3. Len(commit.runner) \in Nat /\ n = 1 .. Len(commit.runner)
  BY <1>2, LenProperties
<1>4. ASSUME NEW k \in n
      PROVE  /\ lines[k] = RawLine(commit.runner[k], f[k])
             /\ commit.runner[k] \in STRING
             /\ f[k] \in Gives(commit.runner[k])
             /\ f[k] \in WholeOutput
  <2>1. commit.runner[k] \in STRING
    BY <1>2, <1>3, ElementOfSeq
  <2>2. Gives(commit.runner[k]) \subseteq WholeOutput
    BY NativeAssumption DEF Gives
  <2> QED
    BY <1>1, <2>1, <2>2
<1>5. ASSUME NEW k \in n
      PROVE  lines[k] \in WholeLines /\ lines[k].out \in Gives(lines[k].id)
  <2> DEFINE id == commit.runner[k]
             out == f[k]
  <2>1. /\ lines[k] = [kind |-> "tab", id |-> id, out |-> out]
        /\ id \in STRING /\ out \in WholeOutput /\ out \in Gives(id)
    BY <1>4 DEF RawLine
  <2> HIDE DEF id, out
  <2> QED
    BY <2>1 DEF WholeLines
<1>6. DOMAIN lines = 1 .. Len(commit.runner)
  BY <1>1, <1>3
<1>7. lines \in [1 .. Len(commit.runner) -> WholeLines]
  BY <1>1, <1>3, <1>5
<1>8. lines \in Seq(WholeLines)
  BY <1>3, <1>7, SeqDef
<1> QED
  BY <1>3, <1>5, <1>6, <1>8

(* A check run that passes has met every expectation of the runner's. *)
LEMMA PassedRun ==
  ASSUME NEW lines \in Executions, Passes(lines), NEW k \in DOMAIN commit.runner
  PROVE  /\ commit.runner[k] \in DOMAIN commit.expect
         /\ commit.expect[commit.runner[k]] \in Gives(commit.runner[k])
<1>1. PICK f : /\ \A j \in DOMAIN commit.runner : f[j] \in Gives(commit.runner[j])
               /\ lines = [j \in DOMAIN commit.runner |-> RawLine(commit.runner[j], f[j])]
  BY DEF Executions
<1>2. /\ k \in DOMAIN lines /\ lines[k].id = commit.runner[k]
      /\ lines[k].out = f[k] /\ f[k] \in Gives(commit.runner[k])
  BY <1>1 DEF RawLine
<1> QED
  BY <1>2 DEF Passes

(* What was collected of an execution is what one of its lines shows. *)
LEMMA CollectedOutput ==
  ASSUME commit \in Commits, raw \in Executions, CollectedOK,
         NEW id \in ManifestIds(manifest)
  PROVE  /\ parse_raw(raw)[id] \in WholeOutput
         /\ parse_raw(raw)[id] \in Gives(id)
         /\ Collect(manifest, raw, "reference", FALSE).results[id] = parse_raw(raw)[id]
<1>1. id \in RawIds(raw)
  BY DEF CollectedOK, CollectOK
<1>2. PICK k \in DOMAIN raw : raw[k].id = id /\ parse_raw(raw)[id] = raw[k].out
  BY <1>1, ParsedLine
<1>3. raw \in Seq(WholeLines) /\ raw[k].out \in Gives(raw[k].id)
  BY ExecutionLines
<1>4. raw[k] \in WholeLines
  <2>1. DOMAIN raw = 1 .. Len(raw)
    BY <1>3, LenProperties
  <2> QED
    BY <1>3, <2>1, ElementOfSeq
<1>5. raw[k].out \in WholeOutput
  BY <1>4 DEF WholeLines
<1> QED
  BY <1>2, <1>3, <1>5 DEF Collect

(* A reference set has the outputs of its lines, and binds them. *)
LEMMA ReferenceType ==
  ASSUME NEW m, NEW lines,
         \A id \in ManifestIds(m) : parse_raw(lines)[id] \in WholeOutput
  PROVE  Collect(m, lines, "reference", FALSE) \in
           [side : {"reference"}, corpus_manifest_version : {m.version},
            corpus_manifest_sha256 : {m.sha256}, seed_active : {FALSE},
            results : [ManifestIds(m) -> WholeOutput]]
<1> DEFINE s == Collect(m, lines, "reference", FALSE)
<1>1. s.results \in [ManifestIds(m) -> WholeOutput]
  BY DEF Collect
<1> QED
  BY <1>1 DEF Collect

(* A set that is collected is of the type of sets. *)
LEMMA CollectedType ==
  ASSUME commit \in Commits, raw \in Executions, CollectedOK
  PROVE  Collect(manifest, raw, "reference", FALSE) \in Sets
  BY CollectedOutput, ReferenceType DEF Sets

(* The manifest of a counted set has as many tests as lines were expected. *)
LEMMA CountedIds ==
  ASSUME commit \in Commits, Counted, CollectedOK
  PROVE  Cardinality(ManifestIds(manifest)) = Lines
<1>1. raw \in Seq(WholeLines) /\ Len(raw) = Lines /\ Lines \in Nat
  BY ExecutionLines, NativeAssumption DEF Counted
<1>2. DOMAIN raw = 1 .. Lines
  BY <1>1, LenProperties
<1>3. /\ \A j, k \in DOMAIN raw : raw[j].id = raw[k].id => j = k
      /\ RawIds(raw) = ManifestIds(manifest)
  BY DEF CollectedOK, CollectOK, ParseRawOK
<1> QED
  BY <1>1, <1>2, <1>3, DistinctIds DEF RawIds
-----------------------------------------------------------------------------
(* The invariant holds of every reachable state. *)

(* It holds of a job that has not started. *)
LEMMA InitIInv == Init => IInv
  BY DEF Init, IInv, JobType, StepInv, BundleInv, NoSet

(* What the parts of the invariant say depends on little of the state. *)
LEMMA Frame ==
  ASSUME UNCHANGED <<commit, host>>
  PROVE  /\ Admitted' = Admitted /\ Confirmed' = Confirmed /\ Tested' = Tested
         /\ CheckMode' = CheckMode
         /\ Sets' = Sets /\ Executions' = Executions
         /\ UNCHANGED raw => Counted' = Counted /\ CollectedOK' = CollectedOK
         /\ UNCHANGED <<raw, set>> => Collected' = Collected
<1>1. manifest' = manifest
  BY DEF manifest
<1>2. Admitted' = Admitted
  BY DEF Admitted
<1>3. CheckMode' = CheckMode /\ Confirmed' = Confirmed /\ Tested' = Tested
  BY <1>1 DEF CheckMode, Confirmed, Gives, Tested
<1>4. Sets' = Sets
  BY <1>1 DEF Sets
<1>5. Executions' = Executions
  BY DEF Executions, Gives
<1>6. ASSUME UNCHANGED raw
      PROVE  Counted' = Counted /\ CollectedOK' = CollectedOK
  BY <1>1, <1>5, <1>6 DEF Counted, CollectedOK
<1>7. ASSUME UNCHANGED <<raw, set>>
      PROVE  Collected' = Collected
  BY <1>1, <1>6, <1>7 DEF Collected
<1> QED
  BY <1>2, <1>3, <1>4, <1>5, <1>6, <1>7

(* The job ends without being green, and publishes nothing then. *)
LEMMA EndsUngreen ==
  ASSUME IInv, bundle = NoSet, verdict = "none", step' = "end", verdict' \in {"red", "cancelled"},
         raw' \in Seq(WholeLines),
         UNCHANGED <<commit, host, set, bundle>>
  PROVE  IInv'
<1>1. JobType /\ bundle' = NoSet /\ Sets' = Sets
  BY Frame DEF IInv, BundleInv
<1>2. JobType'
  BY <1>1 DEF JobType
<1>3. StepInv'
  BY DEF StepInv
<1>4. BundleInv'
  BY <1>1 DEF BundleInv, NoSet
<1> QED
  BY <1>2, <1>3, <1>4 DEF IInv

(* A job whose push was taken ends, with whatever verdict. *)
LEMMA EndsPublished ==
  ASSUME IInv, step = "published", step' = "end", verdict' \in {"green", "red", "cancelled"},
         UNCHANGED <<commit, host, raw, set, bundle>>
  PROVE  IInv'
<1>1. /\ Admitted' = Admitted /\ Counted' = Counted /\ Collected' = Collected
      /\ Confirmed' = Confirmed /\ Tested' = Tested /\ Sets' = Sets
  BY Frame
<1>2. JobType'
  BY <1>1 DEF IInv, JobType, NoSet
<1>3. StepInv'
  BY DEF StepInv
<1>4. BundleInv'
  BY <1>1 DEF IInv, BundleInv
<1> QED
  BY <1>2, <1>3, <1>4 DEF IInv

(* The job goes on to another step, with what that step counts on. *)
LEMMA GoesOn ==
  ASSUME IInv, step \notin {"published", "end"}, StepInv',
         step' \in {"compile", "check", "run", "collect", "selftest", "upload", "publish"},
         raw' \in Seq(WholeLines),
         set' \in Sets \cup {NoSet},
         UNCHANGED <<commit, host, bundle, verdict>>
  PROVE  IInv'
<1>1. JobType /\ bundle' = NoSet /\ Sets' = Sets /\ verdict = "none"
  BY Frame DEF IInv, JobType, BundleInv
<1>2. JobType'
  BY <1>1 DEF JobType, NoSet
<1>3. BundleInv'
  BY <1>1 DEF BundleInv, NoSet
<1> QED
  BY <1>2, <1>3 DEF IInv

(* The job stops where it is, or has ended. *)
LEMMA StutterIInv == IInv /\ UNCHANGED vars => IInv'
<1> SUFFICES ASSUME IInv, UNCHANGED vars
             PROVE  IInv'
  OBVIOUS
<1>1. /\ Admitted' = Admitted /\ Counted' = Counted /\ Collected' = Collected
      /\ Confirmed' = Confirmed
      /\ Tested' = Tested /\ Sets' = Sets
  BY Frame DEF vars
<1>2. JobType'
  BY <1>1 DEF vars, IInv, JobType, NoSet
<1>3. StepInv'
  BY <1>1 DEF vars, IInv, StepInv
<1>4. BundleInv'
  BY <1>1 DEF vars, IInv, BundleInv, NoSet
<1> QED
  BY <1>2, <1>3, <1>4 DEF IInv

(* Every step of the job preserves it. *)
LEMMA NextIInv == IInv /\ [Next]_vars => IInv'
<1> SUFFICES ASSUME IInv, [Next]_vars
             PROVE  IInv'
  OBVIOUS
<1>0. /\ StepInv /\ set \in Sets \cup {NoSet}
      /\ commit \in Commits /\ raw \in Seq(WholeLines)
      /\ step # "end" => verdict = "none"
      /\ step \notin {"published", "end"} => bundle = NoSet
  BY DEF IInv, JobType, BundleInv
<1> USE DEF Go, Conclude, Fail
<1>1. CASE UNCHANGED vars
  BY <1>1, StutterIInv
<1>2. CASE SiliconGate
  <2>1. CASE Go("compile") /\ Admitted
    BY <1>0, <1>2, <2>1, GoesOn, Frame DEF SiliconGate, StepInv
  <2>2. CASE Fail
    BY <1>0, <1>2, <2>2, EndsUngreen DEF SiliconGate
  <2> QED
    BY <1>2, <2>1, <2>2 DEF SiliconGate, Admitted
<1>3. CASE Compile
  <2>1. CASE Go(IF CheckMode THEN "check" ELSE "run")
    <3>1. ~ CheckMode => Confirmed'
      BY <1>3, Frame DEF Compile, Confirmed
    <3> QED
      BY <1>0, <1>3, <2>1, <3>1, GoesOn, Frame DEF Compile, StepInv
  <2>2. CASE Fail
    BY <1>0, <1>3, <2>2, EndsUngreen DEF Compile
  <2> QED
    BY <1>3, <2>1, <2>2 DEF Compile
<1>4. CASE CheckRun
  <2>1. CASE (\E lines \in Executions : Passes(lines)) /\ Go("run")
    <3>1. Confirmed
      BY <2>1, PassedRun DEF Confirmed
    <3> QED
      BY <1>0, <1>4, <2>1, <3>1, GoesOn, Frame DEF CheckRun, StepInv
  <2>2. CASE Fail
    BY <1>0, <1>4, <2>2, EndsUngreen DEF CheckRun
  <2> QED
    BY <1>4, <2>1, <2>2 DEF CheckRun
<1>5. CASE EmitRun
  <2>1. raw' \in Seq(WholeLines)
    BY <1>0, <1>5, ExecutionLines DEF EmitRun
  <2>2. CASE Go("collect") /\ raw' \in Executions /\ Len(raw') = Lines
    <3>1. Counted' /\ Admitted' /\ Confirmed'
      BY <1>0, <1>5, <2>2, Frame DEF EmitRun, StepInv, Counted
    <3> QED
      BY <1>0, <1>5, <2>1, <2>2, <3>1, GoesOn DEF EmitRun, StepInv
  <2>3. CASE Fail
    BY <1>0, <1>5, <2>1, <2>3, EndsUngreen DEF EmitRun
  <2> QED
    BY <1>5, <2>2, <2>3 DEF EmitRun
<1>6. CASE CollectReference
  <2>1. CASE ~ CollectedOK
    BY <1>0, <1>6, <2>1, EndsUngreen DEF CollectReference
  <2>2. CASE CollectedOK
    <3>1. Counted' /\ Admitted' /\ CollectedOK' /\ Confirmed' /\ (CheckMode => Tested')
      BY <1>0, <1>6, <2>2, Frame DEF CollectReference, StepInv, Tested
    <3>2. Collected'
      BY <1>6, <2>2, <3>1 DEF CollectReference, Collected, manifest
    <3>3. set' \in Sets
      BY <1>0, <1>6, <2>2, CollectedType DEF CollectReference, StepInv, Counted
    <3> QED
      BY <1>0, <1>6, <2>2, <3>1, <3>2, <3>3, GoesOn DEF CollectReference, StepInv
  <2> QED
    BY <2>1, <2>2
<1>7. CASE SelfTest
  <2>1. CASE Go("upload") /\ Tested
    BY <1>0, <1>7, <2>1, GoesOn, Frame DEF SelfTest, StepInv
  <2>2. CASE Fail
    BY <1>0, <1>7, <2>2, EndsUngreen DEF SelfTest
  <2> QED
    BY <1>7, <2>1, <2>2 DEF SelfTest, Tested
<1>8. CASE Upload
  <2>1. CASE Go("publish")
    BY <1>0, <1>8, <2>1, GoesOn, Frame DEF Upload, StepInv
  <2>2. CASE Fail
    BY <1>0, <1>8, <2>2, EndsUngreen DEF Upload
  <2> QED
    BY <1>8, <2>1, <2>2 DEF Upload
<1>9. CASE Publish
  <2>1. CASE bundle' = set /\ Go("published")
    <3>1. Admitted' /\ Confirmed' /\ Counted' /\ Collected' /\ Tested' /\ Sets' = Sets
      BY <1>0, <1>9, Frame DEF Publish, StepInv
    <3>2. JobType'
      BY <1>9, <2>1, <3>1 DEF Publish, IInv, JobType, NoSet
    <3>3. StepInv' /\ BundleInv'
      BY <1>9, <2>1, <3>1 DEF Publish, StepInv, BundleInv
    <3> QED
      BY <3>2, <3>3 DEF IInv
  <2>2. CASE Fail /\ UNCHANGED bundle
    BY <1>0, <1>9, <2>2, EndsUngreen DEF Publish
  <2> QED
    BY <1>9, <2>1, <2>2 DEF Publish
<1>10. CASE PushReturns
  BY <1>10, EndsPublished DEF PushReturns
<1>11. CASE JobCancelled
  <2>1. CASE step = "published"
    BY <1>11, <2>1, EndsPublished DEF JobCancelled
  <2>2. CASE step # "published"
    BY <1>0, <1>11, <2>2, EndsUngreen DEF JobCancelled
  <2> QED
    BY <2>1, <2>2
<1> QED
  BY <1>1, <1>2, <1>3, <1>4, <1>5, <1>6, <1>7, <1>8, <1>9, <1>10, <1>11 DEF Next, JobStep

(* The inductive invariant is an invariant. *)
THEOREM Inductive == Spec => []IInv
  BY InitIInv, NextIInv, PTL DEF Spec

(* Every variable of the native job keeps its type. *)
THEOREM TypeCorrect == Spec => []TypeOK
<1>1. IInv => TypeOK
  BY DEF IInv, JobType, BundleInv, TypeOK
<1> QED
  BY <1>1, Inductive, PTL

(* What is published is bound to its manifest, unmutated, complete, of the *)
(* expected size, and output of this host's, whatever the commit and the   *)
(* host are, and whatever becomes of the job after main has taken it.      *)
THEOREM PublishedIsFit == Spec => []PublishedFits
<1>1. IInv => PublishedFits
  <2> SUFFICES ASSUME IInv, bundle # NoSet
               PROVE  /\ BoundTo(bundle, "reference", manifest) /\ ~ bundle.seed_active
                      /\ DOMAIN bundle.results = ManifestIds(manifest)
                      /\ \A id \in ManifestIds(manifest) : bundle.results[id] \in Gives(id)
                      /\ Cardinality(ManifestIds(manifest)) = Lines
    BY DEF PublishedFits
  <2>1. /\ commit \in Commits /\ Counted /\ CollectedOK
        /\ bundle = Collect(manifest, raw, "reference", FALSE)
    BY DEF IInv, JobType, BundleInv, Collected
  <2>2. /\ BoundTo(bundle, "reference", manifest) /\ ~ bundle.seed_active
        /\ DOMAIN bundle.results = ManifestIds(manifest)
    BY <2>1 DEF Collect, BoundTo
  <2>3. \A id \in ManifestIds(manifest) : bundle.results[id] \in Gives(id)
    BY <2>1, CollectedOutput DEF Counted
  <2>4. Cardinality(ManifestIds(manifest)) = Lines
    BY <2>1, CountedIds
  <2> QED
    BY <2>1, <2>2, <2>3, <2>4
<1> QED
  BY <1>1, Inductive, PTL

-----------------------------------------------------------------------------
(* What the self-test guarantees of the reference that is published.       *)

(* A self-test that passed leaves one seed, in a well-formed manifest.     *)
LEMMA TestedManifest ==
  ASSUME SelfTestOK(manifest)
  PROVE  ManifestOK(manifest)
<1> DEFINE good == SyntheticSet(manifest, "sut", SeedIds(manifest))
           ref == SyntheticSet(manifest, "reference", {})
<1>1. DiffExit(manifest, good, ref) = 0
  BY DEF SelfTestOK
<1>2. WellFormedPair(manifest, good, ref)
  BY <1>1, DiffExitMeans
<1> QED
  BY <1>2 DEF WellFormedPair

(* An engine that printed what the hardware printed is accepted with the   *)
(* seed and rejected without it, in every job with a self-test.            *)
THEOREM PublishedServes == Spec => []PublishedIsUsable
<1> DEFINE m == manifest
<1>1. IInv => PublishedIsUsable
  <2> SUFFICES ASSUME IInv, ~ CheckMode, bundle # NoSet,
                      \A s \in SeedIds(manifest) : MutateOK(bundle.results[s])
               PROVE  /\ CollectOK(m, raw, "sut", TRUE)
                      /\ DiffExit(m, Collect(m, raw, "sut", TRUE), bundle) = 0
                      /\ DiffExit(m, Collect(m, raw, "sut", FALSE), bundle) = 1
    BY DEF PublishedIsUsable
  <2>1. /\ commit \in Commits /\ raw \in Executions /\ CollectedOK /\ SelfTestOK(m)
        /\ bundle = Collect(m, raw, "reference", FALSE)
    BY DEF IInv, JobType, BundleInv, Collected, Counted, Tested
  <2>2. ManifestOK(m) /\ SeedIds(m) \subseteq ManifestIds(m)
    BY <2>1, TestedManifest DEF SeedIds, ManifestIds
  <2>3. ASSUME NEW id \in ManifestIds(m)
        PROVE  bundle.results[id] = parse_raw(raw)[id] /\ bundle.results[id] \in WholeOutput
    BY <2>1, CollectedOutput
  <2>4. CollectOK(m, raw, "sut", TRUE)
    BY <2>1, <2>2, <2>3 DEF CollectedOK, CollectOK
  <2>5. BoundTo(bundle, "reference", m) /\ ~ bundle.seed_active
        /\ DOMAIN bundle.results = ManifestIds(m)
    BY <2>1 DEF BoundTo, Collect
  <2>6. \A id \in ManifestIds(m) : bundle.results[id].val \in Words
    BY <2>3 DEF WholeOutput
  <2> QED
    BY <2>2, <2>3, <2>4, <2>5, <2>6, AgreementServes DEF SeededSet, ControlSet
<1> QED
  BY <1>1, Inductive, PTL

(* An expectation shipped beside a published reference has been met on the *)
(* host that printed the reference.                                        *)
THEOREM ExpectationsConfirmed == Spec => []ExpectationsMet
<1>1. IInv => ExpectationsMet
  <2> SUFFICES ASSUME IInv, CheckMode, bundle # NoSet, NEW id \in ManifestIds(manifest)
               PROVE  id \in DOMAIN commit.expect /\ commit.expect[id] \in Gives(id)
    BY DEF ExpectationsMet
  <2>1. commit \in Commits /\ raw \in Executions /\ CollectedOK /\ Confirmed
    BY DEF IInv, JobType, BundleInv, Collected, Counted
  <2>2. PICK f : raw = [k \in DOMAIN commit.runner |-> RawLine(commit.runner[k], f[k])]
    BY <2>1 DEF Executions
  <2>3. id \in RawIds(raw)
    BY <2>1 DEF CollectedOK, CollectOK
  <2>4. PICK k \in DOMAIN raw : raw[k].id = id
    BY <2>3, ParsedLine
  <2>5. k \in DOMAIN commit.runner /\ commit.runner[k] = id
    BY <2>2, <2>4 DEF RawLine
  <2> QED
    BY <2>1, <2>5 DEF Confirmed
<1> QED
  BY <1>1, Inductive, PTL

-----------------------------------------------------------------------------
(* The job never does what the gate does not allow: this is the safety     *)
(* part of ImplementsGate.  That it ends is checked, not proved.           *)
THEOREM RefinesGate == Spec => G!Init /\ [][G!Next]_(G!gateVars)
<1>1. Init => G!Init
  BY DEF Init, G!Init, NoSet
<1>2. IInv /\ [Next]_vars => [G!Next]_(G!gateVars)
  <2> SUFFICES ASSUME IInv, [Next]_vars
               PROVE  [G!Next]_(G!gateVars)
    OBVIOUS
  <2> DEFINE good == /\ bundle # NoSet /\ CollectedOK
                     /\ bundle = Collect(manifest, raw, "reference", FALSE)
  <2>1. good \in BOOLEAN /\ good' \in BOOLEAN
    OBVIOUS
  <2>2. step # "end" => verdict = "none"
    BY DEF IInv, JobType
  <2>3. CASE verdict = "none" /\ UNCHANGED verdict
    BY <2>1, <2>3 DEF G!Next, G!Observe
  <2>4. CASE step # "end" /\ good' = good /\ verdict' \in {"red", "cancelled"}
    BY <2>2, <2>4 DEF G!Next, G!Decide
  <2>5. UNCHANGED <<commit, host, raw, bundle>> => good' = good
    BY Frame DEF manifest
  <2>6. step \notin {"published", "end"} => ~ good
    BY DEF IInv, BundleInv
  <2>7. CASE PushReturns
    <3>1. good' = good /\ verdict = "none"
      BY <2>2, <2>5, <2>7 DEF PushReturns
    <3>2. good
      BY <2>7 DEF PushReturns, IInv, BundleInv, StepInv, Collected, Collect, NoSet
    <3>3. verdict' \in {"green", "red"}
      BY <2>7 DEF PushReturns, Conclude, Fail
    <3> QED
      BY <3>1, <3>2, <3>3 DEF G!Next, G!Decide
  <2>8. CASE UNCHANGED vars
    BY <2>5, <2>8 DEF vars, G!gateVars
  <2>9. CASE JobCancelled
    BY <2>4, <2>5, <2>9 DEF JobCancelled, Conclude
  <2>10. CASE SiliconGate \/ Compile \/ CheckRun \/ EmitRun \/ CollectReference
              \/ SelfTest \/ Upload \/ Publish
    <3>1. step \notin {"published", "end"}
      BY <2>10 DEF SiliconGate, Compile, CheckRun, EmitRun, CollectReference, SelfTest,
         Upload, Publish
    <3>2. UNCHANGED verdict \/ (UNCHANGED bundle /\ verdict' = "red")
      BY <2>10 DEF SiliconGate, Compile, CheckRun, EmitRun, CollectReference, SelfTest,
         Upload, Publish, Go, Fail, Conclude
    <3>3. UNCHANGED bundle => ~ good'
      BY <3>1 DEF IInv, BundleInv, NoSet
    <3> QED
      BY <2>2, <2>3, <2>4, <2>6, <3>1, <3>2, <3>3
  <2> QED
    BY <2>7, <2>8, <2>9, <2>10 DEF Next, JobStep
<1> QED
  BY <1>1, <1>2, Inductive, PTL DEF Spec
=============================================================================

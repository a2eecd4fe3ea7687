----------------------------- MODULE CorpusLane -----------------------------
(***************************************************************************)
(* The corpus lanes of .github/workflows/generic-ci.yml.  The seed image   *)
(* with the shared corpus_runner is made once.  A cycle boots the guest    *)
(* with it, extracts the runner's output from the serial transcript,       *)
(* collects it as a seeded SUT result set and diffs that against the       *)
(* committed native reference.  The per-change lane has one cycle, the     *)
(* negative control and the self-test; the soak lane has SOAK_CYCLES       *)
(* cycles and neither.  A step that fails ends the job; the exit status of *)
(* the boot is discarded (|| true).                                        *)
(***************************************************************************)
EXTENDS SerialBoot, DiffEngine

CONSTANTS Repos,        \* what a commit may hold: [manifest, reference, runner]
          Payloads,     \* what corpus_runner may print: sequences of raw lines
          CrashRcs,     \* its exit codes when it dies and its buffer is lost
          ExpectLines,  \* --expect-lines of extract_corpus.py (22)
          Cycles,       \* SOAK_CYCLES, or 1
          PerChange     \* whether the negative control and self-test run

ASSUME LaneAssumption ==
  /\ Cycles \in Nat \ {0} /\ PerChange \in BOOLEAN /\ (PerChange => Cycles = 1)
  /\ CrashRcs \subseteq Nat \ {0} /\ ExpectLines \in Nat \ {0}

(* corpus_runner prints one whole line per test. *)
ASSUME PayloadsAssumption ==
  /\ Payloads \subseteq Seq(WholeLines)
  /\ << >> \notin Payloads

(* A manifest is a file, and a reference set holds the whole outputs of a  *)
(* native run.  runner has the binary that corpus_runner.b64 decodes to    *)
(* and the one whose hash corpus_runner.sha256 is.                         *)
ASSUME ReposAssumption ==
  \A r \in Repos :
    /\ r.manifest.tests \in ManifestTests
    /\ \A id \in DOMAIN r.reference.results : r.reference.results[id] \in WholeOutput

VARIABLES repo,      \* the commit checked out, fixed for the job
          step,      \* the job's next step
          ran,       \* history: what corpus_runner printed in each cycle
          raw,       \* runner-raw.sut.txt
          sut,       \* results-sut.json, or NoSet
          control,   \* results-sut-noseed.json, or NoSet
          verdict    \* "none", or the job's conclusion

laneVars == <<repo, step, ran, raw, sut, control, verdict>>
vars == <<bootVars, laneVars>>

manifest == repo.manifest
reference == repo.reference
NoSet == [side |-> "none"]
cycle == Len(ran)

-----------------------------------------------------------------------------
(* The lines of the corpus transcript. *)

CBegin == [k |-> "begin"]
CEnd(rc) == [k |-> "end", rc |-> rc]
B64(lines) == [k |-> "b64", lines |-> lines]
BadB64 == [k |-> "b64bad"]    \* a payload line that does not decode
Junk == [k |-> "junk"]        \* matches no pattern of extract_corpus.py

(* The rendered guest script.  With no output there is nothing after       *)
(* "GAE-CORPUS-B64", which the extractor's pattern does not match.         *)
CorpusScript(lines, rc) ==
  <<CBegin, IF lines = << >> THEN Junk ELSE B64(lines), CEnd(rc)>>

(* What is left of one raw line that was cut. *)
CutOutputs(out) ==
  {[out EXCEPT !.nzcv = "partial"]} \cup
  [head : {"short"}, val : Words, nzcv : {"none"}]

CutLines(line) == {NoTabLine} \cup {RawLine(line.id, o) : o \in CutOutputs(line.out)}

(* What a base64 text cut short decodes to: whole lines and part of one.   *)
Truncations(lines) ==
  {SubSeq(lines, 1, n) : n \in 1 .. Len(lines) - 1} \cup
  UNION {{Append(SubSeq(lines, 1, n - 1), c) : c \in CutLines(lines[n])} :
           n \in 1 .. Len(lines)}

(* How the transcript may show a line: another writer of the console can   *)
(* break it, and the first part of a payload line is a shorter payload.    *)
Seen(line) ==
  {line, Junk} \cup
  IF line.k = "b64" THEN {BadB64} \cup {B64(t) : t \in Truncations(line.lines)} ELSE {}

-----------------------------------------------------------------------------
(* extract_corpus.py: it takes the first END, the first payload, and a     *)
(* BEGIN anywhere.                                                         *)

Where(kinds) == {i \in DOMAIN console : console[i].k \in kinds}
FirstLine(kinds) ==
  console[CHOOSE i \in Where(kinds) : \A j \in Where(kinds) : i <= j]

(* Mutant: a boot that had to be killed is not extracted. *)
ExtractCleanOnly ==
  /\ BootOK
  /\ Where({"begin"}) # {} /\ Where({"end"}) # {}
  /\ FirstLine({"end"}).rc = 0
  /\ Where({"b64"}) # {}
  /\ Len(FirstLine({"b64"}).lines) = ExpectLines

ExtractOK ==
  /\ Where({"begin"}) # {}
  /\ Where({"end"}) # {}
  /\ FirstLine({"end"}).rc = 0
  /\ Where({"b64", "b64bad"}) # {}
  /\ FirstLine({"b64", "b64bad"}).k = "b64"
  /\ Len(FirstLine({"b64", "b64bad"}).lines) = ExpectLines

Extracted == FirstLine({"b64", "b64bad"}).lines

-----------------------------------------------------------------------------
Init ==
  /\ BootInit
  /\ repo \in Repos
  /\ step = "render" /\ ran = << >>
  /\ raw = << >> /\ sut = NoSet /\ control = NoSet
  /\ verdict = "none"

Conclude(v) == step' = "end" /\ verdict' = v
Fail == Conclude("red")

(* render_corpus_seed.py embeds the committed runner in the guest script   *)
(* if it has the committed hash; xorriso makes the image, or fails.        *)
RenderSeed ==
  /\ step = "render"
  /\ \/ /\ repo.runner.binary = repo.runner.pinned
        /\ step' = "boot" /\ UNCHANGED verdict
     \/ Fail
  /\ UNCHANGED <<repo, ran, raw, sut, control, bootVars>>

(* run_guest.sh is called.  What the engine under test will compute is     *)
(* chosen here.                                                            *)
BootGuest ==
  /\ step = "boot"
  /\ \/ \E p \in Payloads : StartBoot(CorpusScript(p, 0)) /\ ran' = Append(ran, p)
     \/ \E rc \in CrashRcs : StartBoot(CorpusScript(<< >>, rc)) /\ ran' = Append(ran, << >>)
     \/ RefuseBoot /\ ran' = Append(ran, << >>)
  /\ step' = "booting"
  /\ UNCHANGED <<repo, raw, sut, control, verdict>>

GuestWrites ==
  /\ sent < Len(script)
  /\ \E seen \in Seen(script[sent + 1]) : WriteLine(seen)
  /\ UNCHANGED laneVars

GuestOther ==
  /\ \/ WriteNoise(Junk)
     \/ ScriptEnds
     \/ PowerDown(Junk)
     \/ SystemOff
     \/ GuestResets
     \/ QemuDies
  /\ UNCHANGED laneVars

HostProgress == HostStep /\ UNCHANGED laneVars

(* The exit status of run_guest.sh is not looked at. *)
BootReturns ==
  /\ step = "booting" /\ BootReturned
  /\ step' = "extract"
  /\ UNCHANGED <<repo, ran, raw, sut, control, verdict, bootVars>>

ExtractCorpus ==
  /\ step = "extract"
  /\ IF ExtractOK
     THEN step' = "collect" /\ raw' = Extracted /\ UNCHANGED verdict
     ELSE Fail /\ UNCHANGED raw
  /\ UNCHANGED <<repo, ran, sut, control, bootVars>>

CollectSeeded ==
  /\ step = "collect"
  /\ IF CollectOK(manifest, raw, "sut", TRUE)
     THEN /\ sut' = Collect(manifest, raw, "sut", TRUE)
          /\ step' = "diff" /\ UNCHANGED verdict
     ELSE Fail /\ UNCHANGED sut
  /\ UNCHANGED <<repo, ran, raw, control, bootVars>>

(* Mutant: the soak loop stops one cycle early. *)
AfterValidEarly ==
  CASE PerChange -> step' = "negcollect" /\ UNCHANGED verdict
    [] ~ PerChange /\ cycle + 1 < Cycles -> step' = "boot" /\ UNCHANGED verdict
    [] OTHER -> Conclude("green")

AfterValid ==
  CASE PerChange -> step' = "negcollect" /\ UNCHANGED verdict
    [] ~ PerChange /\ cycle < Cycles -> step' = "boot" /\ UNCHANGED verdict
    [] OTHER -> Conclude("green")

Differential ==
  /\ step = "diff"
  /\ IF DiffExit(manifest, sut, reference) = 0 THEN AfterValid ELSE Fail
  /\ UNCHANGED <<repo, ran, raw, sut, control, bootVars>>

CollectControl ==
  /\ step = "negcollect"
  /\ IF CollectOK(manifest, raw, "sut", FALSE)
     THEN /\ control' = Collect(manifest, raw, "sut", FALSE)
          /\ step' = "negdiff" /\ UNCHANGED verdict
     ELSE Fail /\ UNCHANGED control
  /\ UNCHANGED <<repo, ran, raw, sut, bootVars>>

(* Mutant: the control runs, its result is not looked at. *)
NegativeControlIgnored ==
  /\ step = "negdiff"
  /\ step' = "selftest" /\ UNCHANGED verdict
  /\ UNCHANGED <<repo, ran, raw, sut, control, bootVars>>

(* Any non-zero exit of the engine satisfies the negative control.  That   *)
(* it may die without a verdict is left out.                               *)
NegativeControl ==
  /\ step = "negdiff"
  /\ IF DiffExit(manifest, control, reference) # 0
     THEN step' = "selftest" /\ UNCHANGED verdict
     ELSE Fail
  /\ UNCHANGED <<repo, ran, raw, sut, control, bootVars>>

SelfTest ==
  /\ step = "selftest"
  /\ IF SelfTestOK(manifest) THEN Conclude("green") ELSE Fail
  /\ UNCHANGED <<repo, ran, raw, sut, control, bootVars>>

(* Mutant: a job that has ended can still be cancelled. *)
CancelledLate ==
  /\ Conclude("cancelled")
  /\ UNCHANGED <<repo, ran, raw, sut, control, bootVars>>

(* The job's own time limit, a lost runner, or somebody who cancels it. *)
JobCancelled ==
  /\ step # "end"
  /\ Conclude("cancelled")
  /\ UNCHANGED <<repo, ran, raw, sut, control, bootVars>>

JobStep ==
  \/ RenderSeed \/ BootGuest \/ BootReturns \/ ExtractCorpus \/ CollectSeeded
  \/ Differential \/ CollectControl \/ NegativeControl \/ SelfTest

(* The runner is torn down: nothing more happens. *)
Ended == step = "end" /\ UNCHANGED vars

Next ==
  \/ step # "end" /\ (GuestWrites \/ GuestOther \/ HostProgress)
  \/ JobStep
  \/ JobCancelled
  \/ Ended

(* The host's processes run, and timeout(1) sees to it that QEMU ends;     *)
(* nothing is assumed of the guest, of the noise, or of cancellation.      *)
Fairness == WF_vars(step # "end" /\ HostProgress) /\ WF_vars(JobStep)

Spec == Init /\ [][Next]_vars /\ Fairness

-----------------------------------------------------------------------------
(* Properties. *)

SutSets == [side : {"sut"}, corpus_manifest_version : {manifest.version},
            corpus_manifest_sha256 : {manifest.sha256}, seed_active : BOOLEAN,
            results : [ManifestIds(manifest) -> Output]]

(* The type invariant of the job. *)
LaneTypeOK ==
  /\ repo \in Repos
  /\ step \in {"render", "boot", "booting", "extract", "collect", "diff",
               "negcollect", "negdiff", "selftest", "end"}
  /\ ran \in Seq(Payloads \cup {<< >>}) /\ cycle <= Cycles
  /\ raw \in Seq(RawLines)
  /\ sut \in SutSets \cup {NoSet} /\ control \in SutSets \cup {NoSet}
  /\ verdict \in {"none", "green", "red", "cancelled"}

(* The type invariant: of the boot, and of the job. *)
TypeOK == BootTypeOK /\ LaneTypeOK

(* The engine printed for this test exactly what native hardware printed. *)
Agrees(p, id) ==
  /\ id \in DOMAIN reference.results
  /\ \E k \in DOMAIN p : p[k].id = id /\ p[k].out = reference.results[id]

(* The tests a lane vouches for: without the negative control nothing is   *)
(* known of the seed entry but that its mutated output differs.            *)
Vouched == IF PerChange THEN ManifestIds(manifest) ELSE ManifestIds(manifest) \ SeedIds(manifest)

Conforms(p) == \A id \in Vouched : Agrees(p, id)

(* A green lane ran every cycle, and in each of them the engine agreed     *)
(* with the native reference on every test it vouches for, the seed entry  *)
(* included in the per-change lane, whatever the console, QEMU and the     *)
(* timeout did, and although the lane only ever compares a mutated seed.   *)
GreenMeansConformant ==
  verdict = "green" => cycle = Cycles /\ \A c \in 1 .. Cycles : Conforms(ran[c])

(* The reference a green lane judged by belongs to the checked-out         *)
(* manifest and was never mutated, and the binary its guest ran is the one *)
(* whose hash was committed with the reference.                            *)
GreenMeansBoundReference ==
  verdict = "green" =>
    /\ reference.corpus_manifest_sha256 = manifest.sha256
    /\ ~ reference.seed_active
    /\ DOMAIN reference.results = ManifestIds(manifest)
    /\ repo.runner.binary = repo.runner.pinned

(* What a committed manifest and reference must be for the lane to accept  *)
(* an engine without defects.                                              *)
RepoSound ==
  /\ Len(manifest.tests) = ExpectLines
  /\ \A j, k \in DOMAIN manifest.tests :
       manifest.tests[j].id = manifest.tests[k].id => j = k
  /\ BoundTo(reference, "reference", manifest) /\ ~ reference.seed_active
  /\ DOMAIN reference.results = ManifestIds(manifest)
  /\ \E s \in ManifestIds(manifest) : SeedIds(manifest) = {s} /\ MutateOK(reference.results[s])
  /\ \A k \in DOMAIN manifest.tests : MutateOK(manifest.tests[k].arch_expected)
  /\ Len(manifest.tests) > 1

(* The transcript has each line of the script, whatever is around it. *)
Intact == script # << >> /\ \A i \in DOMAIN script : \E j \in DOMAIN console : console[j] = script[i]

(* The runner printed each test of the manifest once, and nothing else. *)
PrintedOnce(p) ==
  /\ RawIds(p) = ManifestIds(manifest)
  /\ \A j, k \in DOMAIN p : p[j].id = p[k].id => j = k

(* The lane is red only for a reason: with a seed image, a sound commit, a *)
(* transcript that survived and an engine that agreed everywhere it is not *)
(* red, even when the guest never powered off and QEMU had to be killed.   *)
RedMeansCause ==
  verdict = "red" /\ RepoSound =>
    \/ cycle = 0
    \/ ~ Intact
    \/ ~ PrintedOnce(ran[cycle])
    \/ \E id \in ManifestIds(manifest) : ~ Agrees(ran[cycle], id)

(* The job comes to a conclusion although the guest may hang at any line.  *)
Concludes == <>(verdict # "none")

(* The lane implements the gate: its verdict is final, and green only for  *)
(* a run of the engine that conforms.                                      *)
AllConform == cycle = Cycles /\ \A c \in 1 .. cycle : Conforms(ran[c])
G == INSTANCE Gate WITH Verdicts <- {"red", "cancelled"}, good <- AllConform, verdict <- verdict
ImplementsGate == G!Spec

(* The negative control as the workflow and the self-test word it: an      *)
(* unseeded result set is rejected by the differential.                    *)
UnseededRejected ==
  step = "negdiff" /\ Cardinality(SeedIds(manifest)) = 1 =>
    DiffExit(manifest, control, reference) # 0
=============================================================================

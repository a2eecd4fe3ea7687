# ARMShift: TLA+ specifications

ARMShift's repository is a conformance laboratory. It rebuilds a pinned QEMU
(the *engine under test*, or SUT), boots an ARM64 guest under it, runs a small
assembly corpus in the guest, and compares every result with what genuine ARM64
hardware printed for the same binary. Nothing in it is a long-running server.
What has to be right is the *judgement*: a green lane must mean that the engine
agreed with native hardware, although the only evidence is a serial console that
several writers share, a guest that may hang, crash or be killed, a reference
committed at another time, and a deliberate mutation of one result.

This directory holds TLA+ models of that judgement, the TLC configurations that
check them, and TLAPS proofs about the core. All paths below are those of the
repository, under `src/`.

## 1. Inventory

| Component | Where | State it keeps | Operations |
|---|---|---|---|
| Corpus runner | `harness/corpus_runner.c`, `harness/corpus-manifest.json` | none | run 22 tests, print `id TAB value[,nzcv]` |
| Result collector | `harness/collect_results.py` (same file in `harness-valid/`) | a result set | parse, cover, mutate the seed, bind to the manifest |
| Diff engine | `harness/diff_corpus.py` | none | load both sets, compare, verdict, exit 0/1/2 |
| Diff self-test | `harness/selftest_diff.py` | none | three synthetic scenarios |
| Guest boot | `sut/run_guest.sh`, `sut/emit_run_result.py` | `boot-transcript.log`, `run-result.json` | launch under `timeout --signal=KILL`, record |
| Corpus guest script, extraction | `sut/render_corpus_seed.py`, `sut/extract_corpus.py` | transcript, `runner-raw.sut.txt` | check the runner's hash, print BEGIN / base64 / END; find and decode them |
| Smoke test | `sut/smoke/*` | transcript, smoke result | print and parse command blocks, check, judge shutdown |
| Generic CI lanes | `.github/workflows/generic-ci.yml` | job step, artefacts, waiting runs | per-change lane, soak lane, triggers, concurrency group |
| Native reference lanes | `.github/workflows/arm64-reference.yml`, `arm64-valid-corpus-reference.yml` | job step, bundles committed to `main` | gate the host, compile, check, run, collect, self-test, publish |
| QEMU build | `sut/build_qemu.sh`, `sut/pins.json` | download cache, source tree, build tree | fetch, verify, extract, configure, build |
| Pinned inputs | `sut/prepare_inputs.py` | firmware and image in the work directory | decompress firmware, download and check the image |
| Valid-corpus runner | `harness-valid/valid_corpus_runner.c` | none | emit and check modes |
| Evidence index | `sut/make_ci_manifest.py` | `ci-manifest.json` | hash what exists, whatever the verdict |
| Hygiene gate | `.github/workflows/leak-scan.yml` | none | run a scanner, if there is one |

**How they interact.** The boot writes the transcript; the extractor reads it; the
collector reads the extraction and the manifest; the engine reads the collected set,
the manifest and the committed reference. Each step is a process and hands files to
the next, and a step that exits non-zero ends the job, with two exceptions: the status
of the boot is discarded (`|| true`), and the evidence steps run after any failed step
(`if: always()`) and may fail themselves. The build and input steps come first and
work in a directory that may hold what an earlier, interrupted run left behind.
Workflows meet on `main`: the two reference workflows push bundles to it, which
developers and the generic CI then work from.

**What is hard.**

* *Interleaving.* The corpus script, the kernel, cloud-init and getty write to
  one console. A payload line that is broken in the middle still matches the
  payload pattern and decodes to a prefix of the results.
* *Partial failure and timeouts.* QEMU may be killed, crash, or be reset at any
  line, and the corpus lane must decide from the transcript alone.
* *The inverted check.* The lane compares a mutated seed entry, so the seeded
  comparison alone says nothing good of the seed test; only the sequence
  seeded differential, unseeded control, self-test does.
* *Stale data.* Several boots in one job; a reference made from another commit;
  a working directory in which a run that was interrupted anywhere has left a cut
  download, half a source tree, an old binary or a partial image.
* *The oracle.* Nothing checks the native run from outside: that it was native,
  that it was complete, and that a store-exclusive did what it usually does, rests
    on the job itself, and what `main` took of it stays there when the job then ends red.
* *Races on `main`.* Two workflows and developers push; one concurrency group
  with one waiting place serves pushes, schedules and manual runs.

**What makes each component correct.**

* Collector and diff engine: acceptance implies agreement on every test that is
  not a seed entry; the control adds agreement on the seed.
* Guest boot: it always ends; the result says how.
* Corpus lane: green means that the engine agreed in every cycle, with a
  reference that belongs to the manifest; red means that something was wrong.
* Smoke test: green means that each command did what the manifest expects, in a
  guest that finished by itself, unless a command itself prints a sentinel line.
* Reference lanes: a bundle arrives only with the sources it was made from,
  nothing pushed is lost, every run ends.
* Native run: what is published is complete, bound to its manifest, unmutated,
  what the runner gives on that host, and of use to the differential, whatever the job
  comes to after the push.
* Build and inputs: nothing unverified is built from or booted, what is good is
  kept, and what is bad is repaired or named.
* The job: a verdict can be checked again from the evidence that it uploaded, but for
  that of the build and of its accelerators.

`PROJECT.json` lists every component, and under `hazards` each hard spot at its
line with the properties that cover it.

## 2. Modules

```
        ResultSets                    Gate (abstract)
            |                           ^
        DiffEngine      SerialBoot      |  refined by CorpusLane, SmokeLane,
       /    |     \      /      \       |  NativeReference, PerChangeJob
      /     |     CorpusLane  SmokeLane
     /      |       MC, Proofs  MC, Proofs   QemuBuild
NativeReference                                |
   MC, Proofs             PerChangeJob     PinnedInputs       ReferenceRepo
                             Proofs          MC, Proofs         MC, Proofs
```

One run of `generic-ci.yml` is, in this order: `PinnedInputs` (build and inputs),
`SmokeLane`, `CorpusLane`, with `PerChangeJob` as the frame around them. One run of
a reference workflow is `NativeReference`; what its publication meets on `main` is
`ReferenceRepo`.

`CorpusLane` composes the boot, the extractor, the collector and the engine into
a job; `SmokeLane` composes the same boot with the block parser; `PinnedInputs`
composes the build script with the input script over one working directory;
`NativeReference` composes the collector and the self-test with the native run. The
four jobs are shown to implement `Gate`.

**ResultSets** is the data of the harness and `collect_results.py`. An output is
a leading token, its value and its flag suffix; a value is one of
`2 * WordPairs` words, because the only arithmetic is the flip of bit 0.
Whole outputs have a fixed width in `corpus_runner.c`, so a cut one
(`head = "short"` or `nzcv = "partial"`) never equals a whole one: that is a fact
about the two formats, stated where the type is defined.

**DiffEngine** is `diff_corpus.py` (`ManifestOK`, `BoundTo`, `WellFormedPair`,
`harness_valid`, `DiffExit`) and the three scenarios of `selftest_diff.py`
(`SelfTestOK`).

**SerialBoot** is one call of `run_guest.sh`. `StartBoot` removes the old
transcript and result; `WriteLine`, `WriteNoise`, `ScriptEnds`, `PowerDown`,
`SystemOff`, `GuestResets` are what the guest does; `QemuExits`, `QemuDies`,
`TimeoutKills` end QEMU; `EmitRunResult` is `emit_run_result.py`, which tells a
timeout from the exit code 137 alone, so a QEMU killed by somebody else counts as
timed out. `BootOK` is the script's own exit status.

**CorpusLane** is the corpus part of `generic-ci.yml`: `RenderSeed` (the committed
runner is embedded only if it has the hash committed with it), `BootGuest`,
`BootReturns`, `ExtractCorpus`, `CollectSeeded`, `Differential`,
`CollectControl`, `NegativeControl`, `SelfTest`, `JobCancelled`.
`PerChange = TRUE` is the per-change job; `FALSE` is the soak job, which loops
over cycles and runs neither control nor self-test. The operators `Seen`,
`Truncations` and `CutLines` say what the console can make of a line.

**SmokeLane** is `render_seed.py` (`RenderSeed`, `SmokeScript`) and `parse_transcript.py`
(`parse_commands`, `CommandOK`, `shutdown_ok`, `passed`). The scan of `parse_commands`
is stated by what it finds: every BEGIN line opens a block unless it lies within an
open one (`IsParse`), and a block goes to the first END line of its id, or past the last
line (`Closes`). `OneParse` proves that this determines the blocks. A command prints up to
`Height` lines and its script waits for all of them (`out="$(...)"`), so a block has its
lines between BEGIN and END. `Out(text, inner, alone)` is one of them: `inner` is a
sentinel or marker that occurs in it, and `alone` says that it is all there is on the
line. The patterns of the parser are anchored, so `Match` finds the sentinel of a line
that is `alone` and of no other, while the search for the marker (`MatchWithin`) finds
both. The BEGIN line shows the command's arguments, and a block that is swallowed by
another one is searched with it: `Carried` has the texts in both.

**ReferenceRepo** is `main` and the workflows that act on it: `Push` and
`Dispatch` come from outside, `BuildReference` and `PublishReference` are the
reference workflows, `FinishCI` ends a run of the generic CI and starts the one
that waits. What one CI job does is `CorpusLane`; here it is a result that is
green only for a commit that can be (`MayPass`).

**NativeReference** is the native job of the two reference workflows, one for each
corpus directory. They differ in two steps: `CheckMode` (a commit's job is for
`harness-valid/`) has the check run of `valid_corpus_runner`, otherwise there is the
harness self-test. `SiliconGate`, `Compile`, `CheckRun`, `EmitRun` (with `wc -l`),
`CollectReference`, `SelfTest`, `Upload`, `Publish`, and `JobCancelled`. The push
is a step of its own: `Publish` is `main` taking or refusing it, `PushReturns` the job
hearing of it, and a job may be cancelled or lose the answer in between. A host is
what `uname` and `systemd-detect-virt` say of it and whether it is emulated; a test
has a *set* of outputs that silicon may give, because an exclusive store may fail
spuriously and the valid corpus does not retry it.

**QemuBuild** and **PinnedInputs** are `build_qemu.sh`, the accelerator check and
`prepare_inputs.py`, one run after another over a working directory that persists.
A file holds a content, or is absent, empty or cut; a tree is the tarball it came
from with the files that are whole and the one that is cut. Each step may be
interrupted, and a server may serve something else; both are counted in `faults`.
`Start` runs the script again.

**PerChangeJob** is the per-change job as a list of `Steps`, each with the files it
writes in order and those it gives its verdict by. A step passes, fails or is
cancelled with a prefix of its files; then `Index` and `Upload` run in any case, and may
fail themselves: an `Index` that breaks leaves no index or a part of one. Among the
files are the ones beside the `.w05` outputs by which the first steps judge: the
tarball, its signature and key, the source tree, and `accel.txt`.
`Patterns` and `Paths` are the lists of `make_ci_manifest.py` and of the upload
step.

**Gate** is the abstract promise of a lane: it observes a subject it does not
control, gives one final verdict, green only if the subject is good at that
moment, and the judged subject no longer changes; a verdict is eventually given.

**DiffEngineProofs**, **SerialBootProofs**, **CorpusLaneProofs**, **SmokeLaneProofs**,
**PinnedInputsProofs**, **NativeReferenceProofs**, **ReferenceRepoProofs** and
**PerChangeJobProofs** hold the theorems; the `MC*` modules hold only constants.
Operators whose comment begins with `Mutant:` are plausible bugs, each used to see
that a property can tell it from the code; no specification uses them (except
`MatchWithin`, which is also how markers are really searched for).

## 3. Runs

| Run | Checks | Shows |
|---|---|---|
| `corpus_per_change` | `TypeOK`, `GreenMeansConformant`, `GreenMeansBoundReference`, `RedMeansCause`, `ImplementsGate` | what green and red mean, over ten commits (seed first, last, none, two, a duplicate id, a foreign, seeded, incomplete or mislabelled reference, another runner) and fourteen outputs of the engine, or none |
| `corpus_soak` | `GreenMeansConformant`, `RedMeansCause`, `Concludes` | each cycle is judged by its own transcript; the lane ends although the guest hangs |
| `corpus_unseeded` | `UnseededRejected` (violated) | an unseeded set can be accepted |
| `smoke` | `TypeOK`, `GreenMeansMet`, `RedMeansCause`, `ImplementsGate` | what a green and a red smoke test mean, with sentinels inside output lines and as whole ones, and broken lines (1,094,588 states) |
| `smoke_power_off` | `GreenMeansPoweredOff` (violated) | green does not imply `SYSTEM_OFF` |
| `reference_repo` | `TypeOK`, `ArrivesBound`, `PublishesOnlyItsBundle`, `StaleHasCause`, `SupersededByNewer`, `OnlyGrows`, `RunsConclude` | races on `main` |
| `pinned_inputs` | `TypeOK`, `ReadyMeansPinned`, `CacheOfPinned`, `GoodIsKept`, `Recovers` | what a lane boots was verified in this run, and what an interrupted run leaves is used, kept or repaired (10,997 states) |
| `tree_complete` | `TreeComplete` (violated) | half a source tree is built from |
| `native_reference` | `TypeOK`, `PublishedFits`, `PublishedIsUsable`, `ExpectationsMet`, `ImplementsGate` | what a published reference is worth in both workflows, over commits that are unsound in each way and a store-exclusive that may fail (1,595 states, exhaustive for these) |
| `native_only` | `NativeOnly` (violated) | an emulated host may publish |
| `per_change_job` | `TypeOK`, `JudgedIsRetained`, `GreenIsRetained`, `ImplementsGate` | the evidence is there after any failure or cancellation, of the index and the upload too |
| `newest_change_tested` | `NewestChangeTested` (violated) | a scheduled run may replace the newest push |

**Bounds.** `Words = 0..3`: a value, its bit-0 neighbour and two that are neither. Two
or three tests, one or two of them seeds: no rule of the collector or the engine
relates more than two tests. `MaxNoise = 1` line of noise or one broken line for each
boot: one is enough to break each line of the script in each way, and each consumer
looks for one line of each kind; the proofs do not have this bound. Two soak cycles:
the second is the first that can see something stale. Three smoke commands: one of
each mode, with a block before and a block after the middle one; eighteen behaviours
of up to two lines (`Height = 2`, the proofs have any), among them a command that
prints its own END, one that prints the END or the BEGIN of another, and one that
prints the END of the manifest. That these cases come about was seen by asking TLC for
them: a green test with a command whose block was forged and which did not meet its
expectation, a green test of a script cut short after a forged END of the manifest,
and a red one for nothing but a command's own END. Two developer pushes and one
dispatch: the waiting place is contended from the third run of the group on, and both
workflows can be under way at the same time; `reference_repo` has one runner image,
and `ReferenceRepoProofs` any number. `ExpectLines = 2` stands for the 22 of the
workflow, `Cycles` for `SOAK_CYCLES`. In `PinnedInputs` three accidents over all the
runs (`MaxFaults`): two can spoil both downloads or the tree and the image in one or
two runs, and the third interrupts the run that would have used them; the proofs do
not have the bound. A source tree is the five files that the scripts name and one that
they do not, two contents of a file besides the pinned one. In `NativeReference` two
or three tests, `Lines = 2`, each way in which runner, manifest, expectations and seed
can disagree, and five hosts, one of them emulated with no answer from
`systemd-detect-virt`. `PerChangeJob` has no bound: it has 1,982 states.

**Fairness.** In the lanes, only of the host: `HostProgress` (QEMU exits when the
machine has halted, `timeout` kills it, the result is written) and the job's own
steps. `timeout --signal=KILL` cannot be ignored by QEMU, and the steps after the boot
are short programs without waits. Nothing is assumed of the guest, so it may hang at
any line, and `Concludes` holds through the timeout. Whether the timeout or the
power-off comes first is open. In `ReferenceRepo` every job that started ends, because
GitHub gives each a time limit; nothing is assumed of developers, schedules or the
success of a run. In `PinnedInputs` somebody runs the scripts again over the same
working directory whenever a run has ended, a run goes on until it ends, and accidents
stop because they are bounded; that is all `Recovers` needs. It speaks of a machine
that keeps the directory (`BUILD_ROOT`, by default `.w05` under the current
directory), where a developer runs `build_qemu.sh` and `prepare_inputs.py` again: a
hosted runner of `generic-ci.yml` starts with an empty one, which is the initial
state, and repeats nothing. The safety properties hold for both. The steps of
`NativeReference` and `PerChangeJob` run until the job ends, as GitHub runs them;
nothing is assumed of cancellation or of a step's success. Deadlock is checked in
every run; the steps `Ended` and `Idle`, or a stutter after the verdict, say where the
system may rest.

## 4. Findings

1. *An unseeded set may be accepted.* `diff_corpus.py` does not read
   `seed_active` of the SUT set. If the engine is itself wrong on the seed test, the
   unseeded set looks like a detected seed. `selftest_diff.py:9-11` says that a
   run whose seed is not mutated is rejected. The per-change lane still ends red
   (its control then fails), which is what `GreenMeansConformant` shows; the soak
   lane has no control and vouches for the other tests only (`Vouched`).
2. *A clean shutdown is not a power-off.* A reset after the power-down message
   ends QEMU with exit code 0, because of `-no-reboot`.
   `command-manifest.json:64` asks for a guest-initiated `SYSTEM_OFF`.
3. *The newest change can be dropped*: a scheduled run takes the waiting place
   of a push, and has no per-change job.
4. *Half a source tree is built from.* A tree that has a `configure` script is not
   extracted again, and of the other files only the presence is looked at
   (`build_qemu.sh:106`), while the script says that it asserts a complete tree
   (`:15`). It cannot make a lane green with another engine: what is linked is
   still of the pinned tarball (`CacheOfPinned`), and a tree that misses a file the
   target needs does not link.
5. *An emulated host may publish.* The gate refuses the answers `qemu` and `tcg` of
   `systemd-detect-virt`, discards its failure (`arm64-reference.yml:37`), and lets an
   empty answer through: an emulator that the tool does not detect, or a machine
   without the tool, publishes an oracle. The header (`:5-7`) says that the job fails
   closed; that of `arm64-valid-corpus-reference.yml` says the same of the same gate.

Each of these is a run that violates the property which states the quoted text. More
disagreements and surprises were read off the code while it was modelled, and have no
run:

* A new reference starts no CI run, though `generic-ci.yml:27-29` lists its files as
  trigger paths: the commit is marked `[skip ci]` and pushed with the workflow's own
  token (`arm64-reference.yml:156`). `Publish` adds no run to the queue.
* What is published is not what was checked. The valid corpus is checked in one
  execution and emitted by another, and a store-exclusive may fail in the second
  only (`valid_corpus_runner.c:275`): `ExpectationsMet` says what the check run does
  establish, and that the published output *is* the expectation does not follow.
* The patterns of the smoke parser are anchored so that output which contains a sentinel
  cannot open or close a block (`parse_transcript.py:25-27`). That is so of a sentinel
  *within* a line. A line of output that is a sentinel, and nothing else, matches
  (`:29-32, 58-61`): a command that prints its own END with the expected code and then
  fails is green, and another's BEGIN and END stand for that command's. The commands of
  `command-manifest.json` print no such lines; `GreenMeansMet` says of which commands
  green can be believed.
* The index is not the index of the whole bundle: `smoke/qemu-stderr.log` and
  `meson-log.txt` are uploaded and match no pattern of `make_ci_manifest.py:31-51`
  (compare `Patterns` and `Paths` of `PerChangeJob`); no step gives its verdict by either.
* `accel.txt`, by which the accelerator step does give its verdict
  (`generic-ci.yml:88-91`), is neither indexed nor uploaded: the verdict can be checked
  again only by asking the binary again, which is known by its hash. `JudgedIsRetained`
  names it, with the sources of the build, as what is not retained.

## 5. Proofs

Every invariant and action property that a passing run checks is also a theorem, for all
values of the constants. `CorpusLaneProofs` proves for every corpus, commit, engine,
number of cycles, line count and amount of noise:

* `TypeCorrect`: `Spec => []TypeOK`;
* `GreenIsConformant`: `Spec => []GreenMeansConformant`;
* `GreenIsBound`: `Spec => []GreenMeansBoundReference`;
* `RedHasCause`: `Spec => []RedMeansCause`;
* `RefinesGate`: `Spec => G!Init /\ [][G!Next]_(G!gateVars)`, the safety part of
  `ImplementsGate`.

**Assumptions.** `WordPairsAssumption`, `FlagsAssumption` (the suffix of a cut
output is not a whole suffix), `BootAssumption`, `LaneAssumption`,
`PayloadsAssumption` (the runner prints whole lines), `ReposAssumption` (a
manifest is an array of tests; a reference holds whole outputs). TLC evaluates
them in the runs. Nothing is assumed of the ids, the seeds, the binding or the
coverage of a commit: the lane has to reject what is wrong with them.

**Argument.** `GreenMeansConformant` relates what the engine printed (`ran`, a
history variable) to a verdict given six processes later, so it is not inductive.
`IInv` adds the chain between the two:

* `ConsoleInv`: every payload line of the transcript is what the runner printed
  in *this* boot, or a truncation of it. This is where the reset of the
  transcript matters.
* `PipelineInv`: what each finished step has established: `raw` was extracted
  from such a line, `sut` and `control` are collected from `raw`, the seeded
  comparison accepted, the control rejected.
* `HistoryInv`: the cycles that are over agree on all tests that are not seeds.
* `StepInv`, the types, and the two conclusions. That nothing boots before the
  runner's hash was compared is part of it.

`TruncationLines` shows that a result which survives truncation *whole* is one
the runner printed, at the same place; a cut one equals no reference output. So an
accepted comparison is an agreement of the engine itself (`ParsedAgrees`). On the
seed test, `DiffEngineProofs` gives the two facts the lane rests on:
`SeededValidMeans` (acceptance of the seeded set) and `ControlRejectedMeans`
(with one seed, acceptance seeded and rejection unseeded give agreement on
the seed as well: the control can only have been rejected because the unmutated
seed output equals the reference's). That there is one seed is what `SelfTestOK`
establishes, and this is why the self-test is part of the argument. `IInv` holds
initially (`InitIInv`) and each action preserves it, one lemma per action
(`NextIInv`).

`RefinesGate` follows from `IInv` and one observation: only a boot changes what the
engine is known to have printed, and no step that boots decides.

*Why a lane is red* is the other direction, and has a second invariant, `RedInv`, on
top of `IInv`. `ShapeInv`: the guest's script is the rendered one. `OnceInv`: each of
its three lines is in the transcript at most once, in whatever form, so that the *first*
line of a kind, which the extractor takes, is the only one. `ReturnedInv`: from the
extraction on the boot is over, so that what was read cannot change. `ReadInv`: from an
intact transcript the extractor has read what the runner printed. `FaultlessPasses` then
goes through the steps of the job and shows that none of them fails a cycle in which
nothing went wrong: the line count follows from the ids (`DistinctIds`: a bijection), the
collector and both comparisons from `AgreementServes`, and the self-test from
`SelfTestAccepts`. Trying to prove the property found it false as it was first stated: a
runner that prints every test of the manifest and one of them twice agrees everywhere
and covers the manifest, and is red by its line count. `PrintedOnce` now says so, and
`MCPayloads` has such a runner.

`DiffEngineProofs` also says when the self-test's sentence of finding 1 is true:
`ControlTells` proves that, of the outputs accepted with the seed, the negative control
rejects exactly those that agree with the reference on the seed test as well.

`SerialBootProofs` has what holds of every boot, for both lanes: `BootSound` (the types,
and that an exit code of zero is the machine's own), which every step keeps, and
`ReturnedIsOver`: once `run_guest.sh` has returned, no step of the boot can happen.

`SmokeLaneProofs` proves, for every command manifest, all outcomes of its commands and
any amount of noise, `TypeCorrect`, `GreenIsMet`, `RedHasCause`, `RefinesGate` and
`OneParse`. The assumptions are `BootAssumption`, `CommandsAssumption` (distinct ids)
and `OutcomesAssumption` (a command prints lines of output). The transcript is related
to the script by `Placed`: a map that gives each line of the transcript the number of
lines the script had written when it came. It never decreases; a line that is not
noise is the last of those lines, and every line before it has a smaller number; and
every line written so far has come, as it is or as noise. So a sentinel in the
transcript is one that the script wrote, in its order, and a block whose sentinels are
the script's own has the output between them and nothing of another command (`Body`),
which is what `GreenMeansMet` needs. Whose a sentinel is, is the question that output
lines raise: `Unforged` shows that a sentinel of a command which matches is the
script's own or a line that some command prints whole, so for a command that is not
`Forged` it is the script's. For the converse the parser has to be shown to find each
block: `ParseExists` constructs the parse line by line (the least line up to which
there is none would give a contradiction), and `MetCommand` shows that in an intact
transcript a block ends before the next BEGIN of the script (`ClosedByEnd`: only a
command's own END could have closed it earlier, which is the last cause
`RedMeansCause` names). That the marker is one of the kernel, and the exit code the
machine's own, comes from `MarkerInv` and `BootSound`.

`PerChangeJobProofs` proves `TypeCorrect`, `EvidenceIsRetained`, `GreenIsComplete` and
`RefinesGate`. The module has no constants, so its run is exhaustive already; the
proof says *why*. What a step judges by is covered by the three lists alone: all of it
but what `NotRetained` names is uploaded, or large and indexed (`JudgesCovered`). The
rest is the order of the steps: nothing is uploaded before the index was tried
(`Tried`), a whole index lists what its patterns match (`Listed`), `accel.txt` is
there only after the build manifest (`AccelBuilt`), a green job has every file of the
steps behind it (`Complete`), and a whole index (`GreenListed`).

`PinnedInputsProofs` proves, for every set of contents, tree files and number of
accidents, `TypeCorrect`, `ReadyIsPinned`, `LeavesPinned` and `KeepsGood` (of
`TypeOK`, `ReadyMeansPinned`, `CacheOfPinned` and the action property `GoodIsKept`).
The assumption is `BuildAssumption`. The invariant says what each step has
established for the ones after it (`DownloadInv`: the tarball used is the one
verified; `InputInv`), and that *any* tree or binary that is there comes from the
pinned tarball (`TreeInv`): without the last part nothing could be said of a run that
finds a tree it did not extract.

`NativeReferenceProofs` proves, for every commit, host, line count and set of outputs,
`TypeCorrect`, `PublishedIsFit`, `PublishedServes`, `ExpectationsConfirmed` and
`RefinesGate`. None of them speaks of the verdict of a job that published: `main` may
have taken a bundle of a job that ends red or cancelled. The invariant again says what
each step leaves for the next (`Admitted`, `Confirmed`, `Counted`, `Collected`,
`Tested`), and that a bundle is `NoSet` or has all of it. `CountedIds` turns `wc -l`
into a statement about the manifest: distinct ids on as many lines as expected are a
bijection between the two.

`ReferenceRepoProofs` proves, for any number of versions, pushes, dispatches and
runs, `TypeCorrect`, `BundlesArriveBound`, `PublicationsAreNarrow`, `HistoryKept`,
`StaleHeadExplained` and `DroppedForNewer`. `StaleHasCause` is not inductive: its
strengthening `StaleIsAnswered` says that while the head's bundle is stale there is a
run for the head's sources *since whose commit nothing was published* in that
directory, and which is queued, built, failed or rejected. Without the middle part,
a run that found nothing to commit could have been the only one: the sources may
change away and back.

**Only model-checked:** liveness (`Concludes`, `RunsConclude`, `Recovers`, the `<>` of
`ImplementsGate`), which is out of the prover's reach. That the declarative
`parse_commands` is the result of the loop in `parse_transcript.py` is not a theorem
either: what a loop computes for every input would need induction over its steps;
`OneParse` proves that there is only one result it could have.

## 6. Limits

* Noise on the console carries no sentinel and no expected text, and mangling
  turns a line into noise or, for a payload, into a truncation; it does not forge
  a different whole payload.
* A smoke command prints at most `Height` lines, the blank ones after its last included;
  a longer output is a larger `Height`. The expected texts a line contains are a
  constant, `Carries`. A line that another writer breaks is noise: that its rest happens
  to be a sentinel line which was within a longer one is left out.
* The engine ends with the status of its judgement. The negative control
  (`generic-ci.yml:151`) takes any status but zero for a rejection, so a traceback or a
  full disk at that step would pass for one; the models have no such engine.
* The smoke step and the corpus step are steps of one job, and are modelled
  separately: they share only the engine and boot into directories of their own.
  `PerChangeJob` has their order and their files.
* At most one file of a source tree is cut by an interrupted `tar`, and the disk does
  not lose what a finished step wrote.
* Developers push sources and not bundles, and nobody re-runs a run of an older commit
  by hand.
* A reference workflow's bundle directory is one file, the result set; the
  provenance and raw files beside it are written by the same step.
* The guest, QEMU, `timeout`, git and GitHub are external and are modelled from
  how the scripts and workflows use them.
* Hashes are names: two files are the same exactly when their hashes are.

**Not modelled.** The hygiene gate (its scanner is private; what remains is one
conditional on a secret being there). The arithmetic of the two runners, of which
the models take any outputs as given: it is what the laboratory measures, not
what it computes. The compiler cache of `generic-ci.yml`, which changes no output. The
layout of manifests, reports, JUnit and provenance files.

## 7. Plan

1. *Done:* `ResultSets`, `DiffEngine`, `SerialBoot`, `CorpusLane`, `Gate`;
   `SmokeLane`; `ReferenceRepo`; `QemuBuild` and `PinnedInputs`; `NativeReference`;
   `PerChangeJob`; proofs of every invariant and action property of all of them, and of
   the four refinements of `Gate` but for their liveness.
2. Composition: the bundle of `NativeReference` as the committed reference of
   `CorpusLane`, so that `PublishedFits` discharges the part of `RepoSound` that is
   about the reference.
3. The smoke step and the corpus step as steps of one job, with `PerChangeJob` as the
   abstract specification of their files.

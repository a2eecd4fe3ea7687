-------------------------- MODULE CorpusLaneProofs --------------------------
(***************************************************************************)
(* That a green corpus lane vouches for what the engine really printed,    *)
(* for every corpus, reference, engine, number of cycles, and amount of    *)
(* noise on the console.                                                   *)
(***************************************************************************)
EXTENDS CorpusLane, DiffEngineProofs, SerialBootProofs

-----------------------------------------------------------------------------
(* The transcript: what a broken payload line can still show.              *)

(* A line that was cut is either no result line at all, or one whose       *)
(* output nobody prints whole.                                             *)
LEMMA CutLineType ==
  ASSUME NEW line \in WholeLines, NEW c \in CutLines(line)
  PROVE  c \in RawLines /\ (c.kind = "tab" => c.out \notin WholeOutput)
<1>1. line.out \in WholeOutput /\ line.id \in STRING
  BY DEF WholeLines
<1>2. CASE c = NoTabLine
  BY <1>2 DEF NoTabLine, RawLines
<1>3. ASSUME NEW o \in CutOutputs(line.out), c = RawLine(line.id, o)
      PROVE  c \in RawLines /\ c.out \notin WholeOutput
  <2>1. CASE o = [line.out EXCEPT !.nzcv = "partial"]
    <3>1. o \in Output /\ o.nzcv = "partial"
      BY <1>1, <2>1 DEF WholeOutput, Output, Heads
    <3>2. o \notin WholeOutput
      BY <3>1, FlagsAssumption DEF WholeOutput
    <3> QED
      BY <1>1, <1>3, <3>1, <3>2 DEF RawLine, RawLines
  <2>2. CASE o \in [head : {"short"}, val : Words, nzcv : {"none"}]
    <3>1. o \in Output /\ o.head = "short"
      BY <2>2, FlagsAssumption DEF Output, Heads
    <3>2. o \notin WholeOutput
      BY <3>1 DEF WholeOutput
    <3> QED
      BY <1>1, <1>3, <3>1, <3>2 DEF RawLine, RawLines
  <2> QED
    BY <2>1, <2>2 DEF CutOutputs
<1> QED
  BY <1>2, <1>3 DEF CutLines

(* Every whole line of a truncated output is a line of the output, at the  *)
(* same place.                                                             *)
LEMMA TruncationLines ==
  ASSUME NEW p \in Seq(WholeLines), NEW t \in Truncations(p)
  PROVE  /\ t \in Seq(RawLines)
         /\ \A k \in DOMAIN t :
              t[k].kind = "tab" /\ t[k].out \in WholeOutput =>
                k \in DOMAIN p /\ p[k] = t[k]
<1>1. WholeLines \subseteq RawLines
  BY DEF WholeLines, RawLines, WholeOutput, Output, Heads
<1>2. Len(p) \in Nat /\ DOMAIN p = 1 .. Len(p) /\ \A k \in 1 .. Len(p) : p[k] \in WholeLines
  BY LenProperties, ElementOfSeq
<1>3. ASSUME NEW n \in 1 .. Len(p) - 1, t = SubSeq(p, 1, n)
      PROVE  /\ t \in Seq(RawLines)
             /\ \A k \in DOMAIN t : k \in DOMAIN p /\ p[k] = t[k]
  BY <1>1, <1>2, <1>3
<1>4. ASSUME NEW n \in 1 .. Len(p), NEW c \in CutLines(p[n]),
             t = Append(SubSeq(p, 1, n - 1), c)
      PROVE  /\ t \in Seq(RawLines)
             /\ \A k \in DOMAIN t :
                  t[k].kind = "tab" /\ t[k].out \in WholeOutput =>
                    k \in DOMAIN p /\ p[k] = t[k]
  <2>1. c \in RawLines /\ (c.kind = "tab" => c.out \notin WholeOutput)
    BY <1>2, <1>4, CutLineType
  <2> DEFINE s == SubSeq(p, 1, n - 1)
  <2>2. /\ s \in Seq(RawLines) /\ Len(s) = n - 1
        /\ \A k \in 1 .. n - 1 : s[k] = p[k]
    BY <1>1, <1>2
  <2>3. /\ t \in Seq(RawLines) /\ Len(t) = n
        /\ \A k \in 1 .. n - 1 : t[k] = p[k]
        /\ t[n] = c
    <3> HIDE DEF s
    <3> QED
      BY <1>4, <2>1, <2>2, AppendProperties DEF s
  <2>4. DOMAIN t = 1 .. n
    BY <2>3, LenProperties
  <2> QED
    BY <1>2, <2>1, <2>3, <2>4
<1> QED
  BY <1>3, <1>4 DEF Truncations

-----------------------------------------------------------------------------
LineSet ==
  {CBegin, BadB64, Junk} \cup {CEnd(rc) : rc \in Nat} \cup {B64(l) : l \in Seq(RawLines)}

(* The first line of a kind, which extract_corpus.py takes, is one of the  *)
(* transcript.                                                             *)
LEMMA FirstLineIsThere ==
  ASSUME console \in Seq(LineSet), NEW kinds, Where(kinds) # {}
  PROVE  \E i \in DOMAIN console : FirstLine(kinds) = console[i]
<1>1. Where(kinds) \subseteq DOMAIN console
  BY DEF Where
<1>2. DOMAIN console \subseteq Nat
  <2>1. Len(console) \in Nat /\ DOMAIN console = 1 .. Len(console)
    BY LenProperties
  <2> QED
    BY <2>1
<1>3. \E x \in Where(kinds) : \A y \in Where(kinds) : x <= y
  BY <1>1, <1>2, LeastIndex
<1> DEFINE first == CHOOSE i \in Where(kinds) : \A j \in Where(kinds) : i <= j
<1>4. first \in Where(kinds)
  BY <1>3
<1> QED
  BY <1>1, <1>4 DEF FirstLine

-----------------------------------------------------------------------------
(* The inductive invariant. *)

(* What a payload line of this boot can decode to. *)
Printed == {ran[cycle]} \cup Truncations(ran[cycle])

LinesInv == script \in Seq(LineSet) /\ console \in Seq(LineSet)

(* Where the job stands. *)
StepInv ==
  /\ verdict # "none" <=> step = "end"
  /\ step = "render" => cycle = 0
  /\ step = "boot" => cycle < Cycles
  /\ step \notin {"render", "boot", "end"} => cycle >= 1
  /\ step \notin {"render", "end"} => repo.runner.binary = repo.runner.pinned

(* Every payload line comes from what the runner printed in this boot. *)
ScriptInv ==
  \A i \in DOMAIN script : script[i].k = "b64" =>
    cycle >= 1 /\ script[i].lines = ran[cycle]
ConsoleInv ==
  \A i \in DOMAIN console : console[i].k = "b64" =>
    cycle >= 1 /\ console[i].lines \in Printed

(* What each step of the job has established for the ones after it. *)
PipelineInv ==
  /\ step \in {"collect", "diff", "negcollect", "negdiff", "selftest"} => raw \in Printed
  /\ step \in {"diff", "negcollect", "negdiff", "selftest"} =>
       /\ CollectOK(manifest, raw, "sut", TRUE)
       /\ sut = SeededSet(manifest, raw)
  /\ step \in {"negcollect", "negdiff", "selftest"} =>
       /\ PerChange
       /\ DiffExit(manifest, SeededSet(manifest, raw), reference) = 0
  /\ step \in {"negdiff", "selftest"} =>
       control = ControlSet(manifest, raw)
  /\ step = "selftest" =>
       DiffExit(manifest, ControlSet(manifest, raw), reference) # 0

NonSeedsAgree(p) ==
  \A id \in ManifestIds(manifest) : id \notin SeedIds(manifest) => Agrees(p, id)

(* The cycles that are over. *)
HistoryInv ==
  \A c \in 1 .. cycle : c < cycle \/ step = "boot" => NonSeedsAgree(ran[c])

ConclusionInv == GreenMeansConformant /\ GreenMeansBoundReference

(* What the boot's steps preserve, and what the job's steps preserve. *)
BootInv == BootSound /\ LinesInv /\ ScriptInv /\ ConsoleInv
JobInv == LaneTypeOK /\ StepInv /\ PipelineInv /\ HistoryInv /\ ConclusionInv

IInv == BootInv /\ JobInv

-----------------------------------------------------------------------------
(* What the facts of a finished differential say of the engine. *)

(* In every cycle that has booted the runner printed whole lines. *)
LEMMA PayloadType ==
  ASSUME LaneTypeOK, cycle >= 1
  PROVE  ran[cycle] \in Seq(WholeLines)
<1>1. cycle \in Nat /\ cycle \in 1 .. Len(ran)
  BY DEF LaneTypeOK, cycle
<1>2. ran[cycle] \in Payloads \cup {<< >>}
  BY <1>1 DEF LaneTypeOK
<1>3. << >> \in Seq(WholeLines)
  OBVIOUS
<1> QED
  BY <1>2, <1>3, PayloadsAssumption

(* A parsed output that equals a whole reference output was printed. *)
LEMMA ParsedAgrees ==
  ASSUME LaneTypeOK, cycle >= 1, raw \in Printed, ParseRawOK(raw),
         NEW id \in RawIds(raw), id \in DOMAIN reference.results,
         parse_raw(raw)[id] = reference.results[id]
  PROVE  Agrees(ran[cycle], id)
<1>1. PICK k \in DOMAIN raw : raw[k].id = id /\ parse_raw(raw)[id] = raw[k].out
  BY ParsedLine
<1>2. raw[k].kind = "tab"
  BY <1>1 DEF ParseRawOK
<1>3. raw[k].out \in WholeOutput
  BY <1>1, ReposAssumption DEF LaneTypeOK, reference
<1>4. ran[cycle] \in Seq(WholeLines)
  BY PayloadType
<1>5. k \in DOMAIN ran[cycle] /\ ran[cycle][k] = raw[k]
  <2>1. CASE raw = ran[cycle]
    BY <2>1, <1>1
  <2>2. CASE raw \in Truncations(ran[cycle])
    BY <2>2, <1>1, <1>2, <1>3, <1>4, TruncationLines
  <2> QED
    BY <2>1, <2>2 DEF Printed
<1> QED
  BY <1>1, <1>5 DEF Agrees

(* A cycle judged VALID agrees with a bound, unmutated reference. *)
LEMMA ValidCycle ==
  ASSUME LaneTypeOK, cycle >= 1, raw \in Printed,
         CollectOK(manifest, raw, "sut", TRUE),
         DiffExit(manifest, SeededSet(manifest, raw), reference) = 0
  PROVE  /\ NonSeedsAgree(ran[cycle])
         /\ reference.corpus_manifest_sha256 = manifest.sha256
         /\ ~ reference.seed_active
         /\ DOMAIN reference.results = ManifestIds(manifest)
<1>1. /\ WellFormedPair(manifest, SeededSet(manifest, raw), reference)
      /\ \A id \in ManifestIds(manifest) :
           id \notin SeedIds(manifest) => parse_raw(raw)[id] = reference.results[id]
  BY SeededValidMeans
<1>2. /\ reference.corpus_manifest_sha256 = manifest.sha256
      /\ ~ reference.seed_active
      /\ DOMAIN reference.results = ManifestIds(manifest)
  BY <1>1 DEF WellFormedPair, BoundTo
<1>3. ParseRawOK(raw) /\ RawIds(raw) = ManifestIds(manifest)
  BY DEF CollectOK
<1>4. NonSeedsAgree(ran[cycle])
  BY <1>1, <1>2, <1>3, ParsedAgrees DEF NonSeedsAgree
<1> QED
  BY <1>2, <1>4

(* A cycle that the negative control and the self-test follow agrees on    *)
(* the seed entry as well.                                                 *)
LEMMA ControlledCycle ==
  ASSUME LaneTypeOK, cycle >= 1, raw \in Printed,
         CollectOK(manifest, raw, "sut", TRUE),
         DiffExit(manifest, SeededSet(manifest, raw), reference) = 0,
         DiffExit(manifest, ControlSet(manifest, raw), reference) # 0,
         SelfTestOK(manifest)
  PROVE  \A id \in ManifestIds(manifest) : Agrees(ran[cycle], id)
<1>1. manifest.tests \in ManifestTests
  BY ReposAssumption DEF LaneTypeOK, manifest
<1>2. Cardinality(SeedIds(manifest)) = 1
  BY DEF SelfTestOK
<1>3. \E s : SeedIds(manifest) = {s}
  BY <1>1, <1>2, FiniteSeeds, FS_Singleton
<1>4. \A id \in ManifestIds(manifest) : parse_raw(raw)[id] = reference.results[id]
  BY <1>3, ControlRejectedMeans
<1>5. DOMAIN reference.results = ManifestIds(manifest)
  BY ValidCycle
<1>6. ParseRawOK(raw) /\ RawIds(raw) = ManifestIds(manifest)
  BY DEF CollectOK
<1> QED
  BY <1>4, <1>5, <1>6, ParsedAgrees

-----------------------------------------------------------------------------
(* The boot's steps leave the job alone, and the job's the boot. *)

(* A step of the boot changes nothing the job has established. *)
LEMMA JobFrame ==
  ASSUME JobInv, UNCHANGED laneVars
  PROVE  JobInv'
<1>1. UNCHANGED <<repo, step, ran, raw, sut, control, verdict>>
  BY DEF laneVars
<1>2. LaneTypeOK' /\ StepInv'
  BY <1>1 DEF JobInv, LaneTypeOK, SutSets, manifest, cycle, StepInv, NoSet
<1>3. PipelineInv'
  BY <1>1 DEF JobInv, PipelineInv, Printed, manifest, reference, cycle
<1>4. HistoryInv' /\ ConclusionInv'
  BY <1>1 DEF JobInv, HistoryInv, ConclusionInv, NonSeedsAgree, Agrees,
              GreenMeansConformant, GreenMeansBoundReference, Conforms, Vouched,
              manifest, reference, cycle
<1> QED
  BY <1>2, <1>3, <1>4 DEF JobInv

(* A step of the job that boots nothing leaves the transcript's origin. *)
LEMMA BootFrame ==
  ASSUME BootInv, UNCHANGED <<bootVars, ran>>
  PROVE  BootInv'
<1>1. UNCHANGED <<script, console, ran>>
  BY DEF bootVars
<1> QED
  BY <1>1, BootSoundFrame DEF BootInv, LinesInv, ScriptInv, ConsoleInv, Printed, cycle

-----------------------------------------------------------------------------
(* The steps of the boot. *)

(* A line that decodes to nothing the runner did not print is harmless. *)
LEMMA AppendConsole ==
  ASSUME LinesInv, ConsoleInv, ScriptInv, NEW line \in LineSet,
         line.k = "b64" => cycle >= 1 /\ line.lines \in Printed,
         console' = Append(console, line), UNCHANGED <<script, ran>>
  PROVE  LinesInv' /\ ConsoleInv' /\ ScriptInv'
<1>1. /\ console \in Seq(LineSet) /\ Len(console) \in Nat
      /\ DOMAIN console = 1 .. Len(console)
  BY LenProperties DEF LinesInv
<1>2. /\ console' \in Seq(LineSet) /\ Len(console') = Len(console) + 1
      /\ \A i \in 1 .. Len(console) : console'[i] = console[i]
      /\ console'[Len(console) + 1] = line
  BY <1>1, AppendProperties
<1>3. DOMAIN console' = 1 .. Len(console) + 1
  BY <1>2, LenProperties
<1>4. cycle' = cycle /\ Printed' = Printed
  BY DEF cycle, Printed
<1>5. ASSUME NEW i \in DOMAIN console', console'[i].k = "b64"
      PROVE  cycle >= 1 /\ console'[i].lines \in Printed
  <2>1. CASE i = Len(console) + 1
    BY <1>2, <1>5, <2>1
  <2>2. CASE i \in 1 .. Len(console)
    BY <1>1, <1>2, <1>5, <2>2 DEF ConsoleInv
  <2> QED
    BY <1>1, <1>3, <2>1, <2>2
<1>6. ConsoleInv'
  BY <1>4, <1>5 DEF ConsoleInv
<1> QED
  BY <1>2, <1>6 DEF LinesInv, ScriptInv, cycle

(* No mangling of the script's next line shows what was not printed. *)
LEMMA SeenLine ==
  ASSUME LaneTypeOK, BootInv, sent < Len(script), NEW seen \in Seen(script[sent + 1])
  PROVE  seen \in LineSet /\ (seen.k = "b64" => cycle >= 1 /\ seen.lines \in Printed)
<1> DEFINE line == script[sent + 1]
<1>1. script \in Seq(LineSet) /\ Len(script) \in Nat /\ DOMAIN script = 1 .. Len(script)
  BY LenProperties DEF BootInv, LinesInv
<1>2. sent + 1 \in DOMAIN script
  BY <1>1 DEF BootInv, BootSound, BootTypeOK
<1>3. line \in LineSet
  BY <1>1, <1>2, ElementOfSeq
<1>4. line.k = "b64" => cycle >= 1 /\ line.lines = ran[cycle]
  BY <1>2 DEF BootInv, ScriptInv
<1> HIDE DEF line
<1>5. CASE seen = line
  BY <1>3, <1>4, <1>5 DEF Printed
<1>6. CASE seen \in {Junk, BadB64}
  BY <1>6 DEF LineSet, Junk, BadB64
<1>7. ASSUME line.k = "b64", NEW t \in Truncations(line.lines), seen = B64(t)
      PROVE  seen \in LineSet /\ cycle >= 1 /\ seen.lines \in Printed
  <2>1. cycle >= 1 /\ t \in Truncations(ran[cycle])
    BY <1>4, <1>7
  <2>2. t \in Seq(RawLines)
    BY <2>1, PayloadType, TruncationLines
  <2> QED
    BY <1>7, <2>1, <2>2 DEF LineSet, B64, Printed
<1> QED
  BY <1>5, <1>6, <1>7 DEF Seen, line

(* Every step of the guest, of the host and of the console keeps to what   *)
(* the runner printed in this boot.                                        *)
LEMMA BootSteps ==
  ASSUME IInv, GuestWrites \/ GuestOther \/ HostProgress
  PROVE  BootInv'
<1>0. BootSound /\ LaneTypeOK /\ LinesInv /\ ConsoleInv /\ ScriptInv
  BY DEF IInv, BootInv, JobInv
<1>1. UNCHANGED ran
  BY DEF GuestWrites, GuestOther, HostProgress, laneVars
<1>2. Junk \in LineSet /\ Junk.k # "b64"
  BY DEF LineSet, Junk
<1>3. CASE GuestWrites
  <2>1. PICK seen \in Seen(script[sent + 1]) : WriteLine(seen)
    BY <1>3 DEF GuestWrites
  <2>2. seen \in LineSet /\ (seen.k = "b64" => cycle >= 1 /\ seen.lines \in Printed)
    BY <1>0, <1>3, SeenLine DEF GuestWrites, IInv
  <2>3. LinesInv' /\ ConsoleInv' /\ ScriptInv'
    BY <1>0, <1>1, <2>1, <2>2, AppendConsole DEF WriteLine
  <2>4. BootSound'
    BY <1>0, <2>1, BootSoundStep
  <2> QED
    BY <2>3, <2>4 DEF BootInv
<1>4. CASE WriteNoise(Junk) \/ PowerDown(Junk)
  <2>1. LinesInv' /\ ConsoleInv' /\ ScriptInv'
    BY <1>0, <1>1, <1>2, <1>4, AppendConsole DEF WriteNoise, PowerDown
  <2>2. BootSound'
    BY <1>0, <1>4, BootSoundStep
  <2> QED
    BY <2>1, <2>2 DEF BootInv
<1>5. CASE QuietStep
  <2>1. LinesInv' /\ ConsoleInv' /\ ScriptInv'
    BY <1>0, <1>1, <1>5, QuietKeepsLines DEF LinesInv, ConsoleInv, ScriptInv, Printed, cycle
  <2>2. BootSound'
    BY <1>0, <1>5, BootSoundStep
  <2> QED
    BY <2>1, <2>2 DEF BootInv
<1> QED
  BY <1>3, <1>4, <1>5 DEF GuestOther, HostProgress, QuietStep

-----------------------------------------------------------------------------
(* The steps of the job. *)

(* The guest script holds no payload but the one of this boot. *)
LEMMA CorpusScriptLines ==
  ASSUME NEW p \in Seq(WholeLines), NEW rc \in Nat
  PROVE  /\ CorpusScript(p, rc) \in Seq(LineSet)
         /\ \A i \in DOMAIN CorpusScript(p, rc) :
              CorpusScript(p, rc)[i].k = "b64" => CorpusScript(p, rc)[i].lines = p
<1> DEFINE mid == IF p = << >> THEN Junk ELSE B64(p)
           s == <<CBegin, mid, CEnd(rc)>>
<1>1. p \in Seq(RawLines)
  <2>1. WholeLines \subseteq RawLines
    BY DEF WholeLines, RawLines, WholeOutput, Output, Heads
  <2> QED
    BY <2>1, SeqMonotonic
<1>2. /\ CBegin \in LineSet /\ CBegin.k # "b64"
      /\ CEnd(rc) \in LineSet /\ CEnd(rc).k # "b64"
      /\ mid \in LineSet /\ (mid.k = "b64" => mid.lines = p)
  BY <1>1 DEF LineSet, CBegin, CEnd, Junk, B64
<1>3. CorpusScript(p, rc) = s
  BY DEF CorpusScript
<1> HIDE DEF mid
<1>4. /\ s \in Seq(LineSet) /\ DOMAIN s = 1 .. 3
      /\ s[1] = CBegin /\ s[2] = mid /\ s[3] = CEnd(rc)
  BY <1>2
<1> HIDE DEF s
<1>5. \A i \in DOMAIN s : s[i].k = "b64" => s[i].lines = p
  <2>1. \A i \in DOMAIN s : i = 1 \/ i = 2 \/ i = 3
    BY <1>4
  <2> QED
    BY <1>2, <1>4, <2>1
<1> QED
  BY <1>3, <1>4, <1>5

(* A boot starts from an empty transcript: the payload of the boot before  *)
(* cannot be taken for the one of this boot.                               *)
LEMMA BootGuestStep ==
  ASSUME IInv, BootGuest
  PROVE  IInv'
<1> USE BootAssumption
<1>1. /\ step = "boot" /\ step' = "booting"
      /\ UNCHANGED <<repo, raw, sut, control, verdict>>
  BY DEF BootGuest
<1>2. /\ LaneTypeOK /\ StepInv /\ PipelineInv /\ HistoryInv /\ ConclusionInv
      /\ cycle \in Nat /\ ran \in Seq(Payloads \cup {<< >>}) /\ cycle < Cycles
  BY <1>1 DEF IInv, JobInv, LaneTypeOK, StepInv, cycle
<1>3. PICK p \in Payloads \cup {<< >>} :
        /\ ran' = Append(ran, p)
        /\ \/ \E rc \in Nat : StartBoot(CorpusScript(p, rc))
           \/ RefuseBoot
  <2>1. 0 \in Nat /\ CrashRcs \subseteq Nat
    BY LaneAssumption
  <2> QED
    BY <2>1 DEF BootGuest
<1>4. p \in Seq(WholeLines)
  <2>1. << >> \in Seq(WholeLines)
    OBVIOUS
  <2> QED
    BY <2>1, PayloadsAssumption
<1>5. /\ ran' \in Seq(Payloads \cup {<< >>}) /\ cycle' = cycle + 1
      /\ \A c \in 1 .. cycle : ran'[c] = ran[c]
      /\ ran'[cycle'] = p
  BY <1>2, <1>3, AppendProperties DEF cycle
<1>6. BootInv'
  <2>1. PICK lines \in Seq(LineSet) :
          /\ \A i \in DOMAIN lines : lines[i].k = "b64" => lines[i].lines = p
          /\ StartBoot(lines) \/ RefuseBoot
    <3>1. CASE RefuseBoot
      <4>1. << >> \in Seq(LineSet) /\ DOMAIN << >> = {}
        OBVIOUS
      <4> QED
        BY <3>1, <4>1
    <3> QED
      BY <1>3, <1>4, <3>1, CorpusScriptLines
  <2>2. BootSound' /\ script' \in Seq(LineSet) /\ console' = << >>
    BY <2>1, BootSoundStart
  <2>3. \A i \in DOMAIN script' : script'[i].k = "b64" => script'[i].lines = p
    BY <2>1 DEF StartBoot, RefuseBoot
  <2>4. LinesInv' /\ ConsoleInv' /\ ScriptInv'
    BY <1>2, <1>5, <2>2, <2>3 DEF LinesInv, ConsoleInv, ScriptInv
  <2> QED
    BY <2>2, <2>4 DEF BootInv
<1>7. LaneTypeOK'
  <2>1. cycle' <= Cycles
    BY <1>2, <1>5, LaneAssumption
  <2> QED
    BY <1>1, <1>2, <1>5, <2>1 DEF LaneTypeOK, SutSets, manifest, NoSet
<1>8. StepInv'
  BY <1>1, <1>2, <1>5 DEF StepInv
<1>9. PipelineInv'
  BY <1>1 DEF PipelineInv
<1>10. HistoryInv'
  <2>1. ASSUME NEW c \in 1 .. cycle', c < cycle'
        PROVE  NonSeedsAgree(ran[c]) /\ ran'[c] = ran[c]
    BY <1>1, <1>2, <1>5, <2>1 DEF HistoryInv
  <2> QED
    BY <1>1, <2>1 DEF HistoryInv, NonSeedsAgree, Agrees, manifest, reference
<1>11. ConclusionInv'
  BY <1>1, <1>2 DEF StepInv, ConclusionInv, GreenMeansConformant, GreenMeansBoundReference
<1> QED
  BY <1>6, <1>7, <1>8, <1>9, <1>10, <1>11 DEF IInv, JobInv

(* The job ends without being green. *)
LEMMA EndsUngreen ==
  ASSUME IInv, step' = "end", verdict' \in {"red", "cancelled"},
         UNCHANGED <<repo, ran, raw, sut, control, bootVars>>
  PROVE  IInv'
<1>1. BootInv'
  BY BootFrame DEF IInv
<1>2. LaneTypeOK' /\ StepInv' /\ PipelineInv' /\ ConclusionInv'
  BY DEF IInv, JobInv, LaneTypeOK, SutSets, manifest, NoSet, cycle, StepInv, PipelineInv,
         ConclusionInv, GreenMeansConformant, GreenMeansBoundReference
<1>3. HistoryInv'
  BY DEF IInv, JobInv, HistoryInv, NonSeedsAgree, Agrees, manifest, reference, cycle
<1> QED
  BY <1>1, <1>2, <1>3 DEF IInv, JobInv

(* The job goes on within its cycle: only what the new step needs must be  *)
(* established.                                                            *)
LEMMA GoesOn ==
  ASSUME IInv, step \notin {"render", "boot", "end"}, verdict' = verdict,
         step' \notin {"render", "boot", "end"},
         UNCHANGED <<repo, ran, bootVars>>, LaneTypeOK', PipelineInv'
  PROVE  IInv'
<1>1. BootInv'
  BY BootFrame DEF IInv
<1>2. StepInv'
  BY DEF IInv, JobInv, StepInv, cycle
<1>3. HistoryInv'
  BY DEF IInv, JobInv, HistoryInv, NonSeedsAgree, Agrees, manifest, reference, cycle
<1>4. ConclusionInv'
  BY DEF IInv, JobInv, StepInv, ConclusionInv, GreenMeansConformant, GreenMeansBoundReference
<1> QED
  BY <1>1, <1>2, <1>3, <1>4 DEF IInv, JobInv

(* The first boot is of a seed with the pinned runner. *)
LEMMA RenderSeedStep ==
  ASSUME IInv, RenderSeed
  PROVE  IInv'
<1>1. CASE Fail
  BY <1>1, EndsUngreen DEF RenderSeed, Fail, Conclude
<1>2. CASE step' = "boot" /\ verdict' = verdict /\ repo.runner.binary = repo.runner.pinned
  <2>1. step = "render" /\ UNCHANGED <<repo, ran, raw, sut, control, verdict, bootVars>>
    BY <1>2 DEF RenderSeed
  <2>2. cycle = 0
    BY <2>1 DEF IInv, JobInv, StepInv
  <2>3. BootInv'
    BY <2>1, BootFrame DEF IInv
  <2>4. LaneTypeOK' /\ PipelineInv'
    BY <1>2, <2>1 DEF IInv, JobInv, LaneTypeOK, SutSets, manifest, NoSet, cycle, PipelineInv
  <2>5. StepInv' /\ HistoryInv'
    BY <1>2, <2>1, <2>2, LaneAssumption DEF IInv, JobInv, StepInv, HistoryInv, cycle
  <2>6. ConclusionInv'
    BY <2>1 DEF IInv, JobInv, StepInv, ConclusionInv, GreenMeansConformant, GreenMeansBoundReference
  <2> QED
    BY <2>3, <2>4, <2>5, <2>6 DEF IInv, JobInv
<1> QED
  BY <1>1, <1>2 DEF RenderSeed

(* What the extractor takes for the runner's output can only be what the   *)
(* runner printed in this boot, or the beginning of it.                    *)
LEMMA ExtractStep ==
  ASSUME IInv, ExtractCorpus
  PROVE  IInv'
<1>1. CASE ~ ExtractOK
  BY <1>1, EndsUngreen DEF ExtractCorpus, Fail, Conclude
<1>2. CASE ExtractOK
  <2>1. /\ step = "extract" /\ step' = "collect" /\ raw' = Extracted
        /\ UNCHANGED <<repo, ran, sut, control, verdict, bootVars>>
    BY <1>2 DEF ExtractCorpus
  <2>2. PICK i \in DOMAIN console : FirstLine({"b64", "b64bad"}) = console[i]
    BY <1>2, FirstLineIsThere DEF ExtractOK, IInv, BootInv, LinesInv
  <2>3. /\ console[i] \in LineSet /\ console[i].k = "b64"
        /\ raw' = console[i].lines
    <3>1. Len(console) \in Nat /\ DOMAIN console = 1 .. Len(console)
      BY LenProperties DEF IInv, BootInv, LinesInv
    <3> QED
      BY <1>2, <2>1, <2>2, <3>1, ElementOfSeq DEF ExtractOK, Extracted, IInv, BootInv, LinesInv
  <2>4. raw' \in Seq(RawLines)
    BY <2>3 DEF LineSet, CBegin, BadB64, Junk, CEnd, B64
  <2>5. raw' \in Printed
    BY <2>2, <2>3 DEF IInv, BootInv, ConsoleInv
  <2>6. LaneTypeOK'
    BY <2>1, <2>4 DEF IInv, JobInv, LaneTypeOK, SutSets, manifest, NoSet, cycle
  <2>7. PipelineInv'
    BY <2>1, <2>5 DEF PipelineInv, Printed, cycle
  <2> QED
    BY <2>1, <2>6, <2>7, GoesOn
<1> QED
  BY <1>1, <1>2

(* The seeded set is the one collected from what was extracted. *)
LEMMA CollectSeededStep ==
  ASSUME IInv, CollectSeeded
  PROVE  IInv'
<1>1. CASE ~ CollectOK(manifest, raw, "sut", TRUE)
  BY <1>1, EndsUngreen DEF CollectSeeded, Fail, Conclude
<1>2. CASE CollectOK(manifest, raw, "sut", TRUE)
  <2>1. /\ step = "collect" /\ step' = "diff" /\ sut' = Collect(manifest, raw, "sut", TRUE)
        /\ UNCHANGED <<repo, ran, raw, control, verdict, bootVars>>
    BY <1>2 DEF CollectSeeded
  <2>2. sut' \in SutSets
    BY <1>2, <2>1, CollectType DEF IInv, JobInv, LaneTypeOK, SutSets
  <2>3. LaneTypeOK'
    BY <2>1, <2>2 DEF IInv, JobInv, LaneTypeOK, SutSets, manifest, NoSet, cycle
  <2>4. PipelineInv'
    BY <1>2, <2>1 DEF IInv, JobInv, PipelineInv, Printed, manifest, cycle, SeededSet
  <2> QED
    BY <2>1, <2>3, <2>4, GoesOn
<1> QED
  BY <1>1, <1>2

(* The control set is collected from the same raw output. *)
LEMMA CollectControlStep ==
  ASSUME IInv, CollectControl
  PROVE  IInv'
<1>1. CASE ~ CollectOK(manifest, raw, "sut", FALSE)
  BY <1>1, EndsUngreen DEF CollectControl, Fail, Conclude
<1>2. CASE CollectOK(manifest, raw, "sut", FALSE)
  <2>1. /\ step = "negcollect" /\ step' = "negdiff"
        /\ control' = Collect(manifest, raw, "sut", FALSE)
        /\ UNCHANGED <<repo, ran, raw, sut, verdict, bootVars>>
    BY <1>2 DEF CollectControl
  <2>2. control' \in SutSets
    BY <1>2, <2>1, CollectType DEF IInv, JobInv, LaneTypeOK, SutSets
  <2>3. LaneTypeOK'
    BY <2>1, <2>2 DEF IInv, JobInv, LaneTypeOK, SutSets, manifest, NoSet, cycle
  <2>4. PipelineInv'
    BY <2>1 DEF IInv, JobInv, PipelineInv, Printed, manifest, reference, cycle, ControlSet
  <2> QED
    BY <2>1, <2>3, <2>4, GoesOn
<1> QED
  BY <1>1, <1>2

(* A cycle is over, or the per-change lane goes on to its control, when    *)
(* the seeded differential is VALID.                                       *)
LEMMA DifferentialStep ==
  ASSUME IInv, Differential
  PROVE  IInv'
<1>1. CASE DiffExit(manifest, sut, reference) # 0
  BY <1>1, EndsUngreen DEF Differential, Fail, Conclude
<1>2. CASE DiffExit(manifest, sut, reference) = 0
  <2>1. /\ step = "diff" /\ AfterValid
        /\ UNCHANGED <<repo, ran, raw, sut, control, bootVars>>
    BY <1>2 DEF Differential
  <2>2. /\ LaneTypeOK /\ StepInv /\ PipelineInv /\ HistoryInv
        /\ cycle \in Nat /\ cycle >= 1 /\ cycle <= Cycles
        /\ repo.runner.binary = repo.runner.pinned
    BY <2>1 DEF IInv, JobInv, LaneTypeOK, StepInv, cycle
  <2>3. /\ raw \in Printed /\ CollectOK(manifest, raw, "sut", TRUE)
        /\ sut = SeededSet(manifest, raw)
        /\ DiffExit(manifest, SeededSet(manifest, raw), reference) = 0
    BY <1>2, <2>1, <2>2 DEF PipelineInv
  <2>4. /\ NonSeedsAgree(ran[cycle])
        /\ reference.corpus_manifest_sha256 = manifest.sha256
        /\ ~ reference.seed_active
        /\ DOMAIN reference.results = ManifestIds(manifest)
    BY <2>2, <2>3, ValidCycle
  <2>5. CASE PerChange
    <3>1. step' = "negcollect" /\ verdict' = verdict
      BY <2>1, <2>5 DEF AfterValid
    <3>2. LaneTypeOK'
      BY <2>1, <2>2, <3>1 DEF LaneTypeOK, SutSets, manifest, NoSet, cycle
    <3>3. PipelineInv'
      BY <2>1, <2>2, <2>3, <2>5, <3>1 DEF PipelineInv, Printed, manifest, reference, cycle
    <3> QED
      BY <2>1, <3>1, <3>2, <3>3, GoesOn
  <2>6. ASSUME ~ PerChange
        PROVE  IInv'
    <3>1. \/ step' = "boot" /\ verdict' = verdict /\ cycle < Cycles
          \/ step' = "end" /\ verdict' = "green" /\ ~ (cycle < Cycles)
      BY <2>1, <2>6, LaneAssumption DEF AfterValid, Conclude
    <3>2. \A c \in 1 .. cycle : NonSeedsAgree(ran[c])
      BY <2>1, <2>2, <2>4 DEF HistoryInv
    <3>3. BootInv'
      BY <2>1, BootFrame DEF IInv
    <3>4. LaneTypeOK'
      BY <2>1, <2>2, <3>1 DEF LaneTypeOK, SutSets, manifest, NoSet, cycle
    <3>5. StepInv' /\ PipelineInv'
      BY <2>1, <2>2, <3>1 DEF StepInv, PipelineInv, cycle
    <3>6. HistoryInv'
      BY <2>1, <3>2 DEF HistoryInv, NonSeedsAgree, Agrees, manifest, reference, cycle
    <3>7. ConclusionInv'
      <4>1. CASE verdict' = "green"
        <5>1. cycle = Cycles
          BY <2>1, <2>2, <3>1, <4>1, LaneAssumption DEF StepInv
        <5>2. \A c \in 1 .. Cycles : Conforms(ran[c])
          BY <2>6, <3>2, <5>1 DEF Conforms, Vouched, NonSeedsAgree
        <5> QED
          BY <2>1, <2>2, <2>4, <5>1, <5>2
             DEF ConclusionInv, GreenMeansConformant, GreenMeansBoundReference, Conforms,
                 Vouched, Agrees, manifest, reference, cycle
      <4>2. CASE verdict' # "green"
        BY <4>2 DEF ConclusionInv, GreenMeansConformant, GreenMeansBoundReference
      <4> QED
        BY <4>1, <4>2
    <3> QED
      BY <3>3, <3>4, <3>5, <3>6, <3>7 DEF IInv, JobInv
  <2> QED
    BY <2>5, <2>6
<1> QED
  BY <1>1, <1>2

(* The control is passed when the engine rejects the unseeded set. *)
LEMMA NegativeControlStep ==
  ASSUME IInv, NegativeControl
  PROVE  IInv'
<1>1. CASE DiffExit(manifest, control, reference) = 0
  BY <1>1, EndsUngreen DEF NegativeControl, Fail, Conclude
<1>2. CASE DiffExit(manifest, control, reference) # 0
  <2>1. /\ step = "negdiff" /\ step' = "selftest"
        /\ UNCHANGED <<repo, ran, raw, sut, control, verdict, bootVars>>
    BY <1>2 DEF NegativeControl
  <2>2. LaneTypeOK'
    BY <2>1 DEF IInv, JobInv, LaneTypeOK, SutSets, manifest, NoSet, cycle
  <2>3. PipelineInv'
    BY <1>2, <2>1 DEF IInv, JobInv, PipelineInv, Printed, manifest, reference, cycle
  <2> QED
    BY <2>1, <2>2, <2>3, GoesOn
<1> QED
  BY <1>1, <1>2

(* The per-change lane is green at the end of all this, and only then. *)
LEMMA SelfTestStep ==
  ASSUME IInv, SelfTest
  PROVE  IInv'
<1>1. CASE ~ SelfTestOK(manifest)
  BY <1>1, EndsUngreen DEF SelfTest, Fail, Conclude
<1>2. CASE SelfTestOK(manifest)
  <2>1. /\ step = "selftest" /\ step' = "end" /\ verdict' = "green"
        /\ UNCHANGED <<repo, ran, raw, sut, control, bootVars>>
    BY <1>2 DEF SelfTest, Conclude
  <2>2. /\ LaneTypeOK /\ StepInv /\ PipelineInv /\ HistoryInv
        /\ cycle \in Nat /\ cycle >= 1 /\ cycle <= Cycles
        /\ repo.runner.binary = repo.runner.pinned
    BY <2>1 DEF IInv, JobInv, LaneTypeOK, StepInv, cycle
  <2>3. /\ raw \in Printed /\ CollectOK(manifest, raw, "sut", TRUE) /\ PerChange
        /\ DiffExit(manifest, SeededSet(manifest, raw), reference) = 0
        /\ DiffExit(manifest, ControlSet(manifest, raw), reference) # 0
    BY <2>1, <2>2 DEF PipelineInv
  <2>4. cycle = 1 /\ Cycles = 1
    BY <2>2, <2>3, LaneAssumption
  <2>5. /\ reference.corpus_manifest_sha256 = manifest.sha256
        /\ ~ reference.seed_active
        /\ DOMAIN reference.results = ManifestIds(manifest)
    BY <2>2, <2>3, ValidCycle
  <2>6. Conforms(ran[cycle])
    BY <1>2, <2>2, <2>3, ControlledCycle DEF Conforms, Vouched
  <2>7. \A c \in 1 .. Cycles : Conforms(ran[c])
    BY <2>4, <2>6
  <2>8. ConclusionInv'
    BY <2>1, <2>2, <2>4, <2>5, <2>7
       DEF ConclusionInv, GreenMeansConformant, GreenMeansBoundReference, Conforms,
           Vouched, Agrees, manifest, reference, cycle
  <2>9. BootInv'
    BY <2>1, BootFrame DEF IInv
  <2>10. LaneTypeOK' /\ StepInv' /\ PipelineInv'
    BY <2>1, <2>2 DEF LaneTypeOK, SutSets, manifest, NoSet, cycle, StepInv, PipelineInv
  <2>11. HistoryInv'
    BY <2>1, <2>2 DEF HistoryInv, NonSeedsAgree, Agrees, manifest, reference, cycle
  <2> QED
    BY <2>8, <2>9, <2>10, <2>11 DEF IInv, JobInv
<1> QED
  BY <1>1, <1>2

-----------------------------------------------------------------------------
(* The invariant holds of every reachable state. *)

(* It holds of a job that has not started. *)
LEMMA InitIInv == Init => IInv
<1> SUFFICES ASSUME Init
             PROVE  IInv
  OBVIOUS
<1> USE BootAssumption, LaneAssumption DEF Init, BootInit
<1>1. cycle = 0 /\ ran \in Seq(Payloads \cup {<< >>}) /\ raw \in Seq(RawLines)
  BY DEF cycle
<1>2. BootInv
  BY BootSoundInit DEF BootInv, LinesInv, ScriptInv, ConsoleInv
<1>3. LaneTypeOK /\ StepInv /\ PipelineInv /\ ConclusionInv
  BY <1>1 DEF LaneTypeOK, StepInv, PipelineInv, ConclusionInv, GreenMeansConformant,
              GreenMeansBoundReference
<1>4. HistoryInv
  BY <1>1 DEF HistoryInv
<1> QED
  BY <1>2, <1>3, <1>4 DEF IInv, JobInv

(* Every step preserves it. *)
LEMMA NextIInv == IInv /\ [Next]_vars => IInv'
<1> SUFFICES ASSUME IInv, [Next]_vars
             PROVE  IInv'
  OBVIOUS
<1>1. CASE UNCHANGED vars
  <2>1. UNCHANGED laneVars /\ UNCHANGED <<bootVars, ran>>
    BY <1>1 DEF vars, laneVars
  <2> QED
    BY <2>1, JobFrame, BootFrame DEF IInv
<1>2. CASE GuestWrites \/ GuestOther \/ HostProgress
  <2>1. UNCHANGED laneVars
    BY <1>2 DEF GuestWrites, GuestOther, HostProgress
  <2> QED
    BY <1>2, <2>1, BootSteps, JobFrame DEF IInv
<1>3. CASE BootReturns
  <2>1. /\ step = "booting" /\ step' = "extract"
        /\ UNCHANGED <<repo, ran, raw, sut, control, verdict, bootVars>>
    BY <1>3 DEF BootReturns
  <2>2. LaneTypeOK' /\ PipelineInv'
    BY <2>1 DEF IInv, JobInv, LaneTypeOK, SutSets, manifest, NoSet, cycle, PipelineInv
  <2> QED
    BY <2>1, <2>2, GoesOn
<1>4. CASE JobCancelled
  BY <1>4, EndsUngreen DEF JobCancelled, Conclude
<1>5. CASE Ended
  BY <1>1, <1>5 DEF Ended
<1> QED
  BY <1>1, <1>2, <1>3, <1>4, <1>5, RenderSeedStep, BootGuestStep, ExtractStep, CollectSeededStep,
     DifferentialStep, CollectControlStep, NegativeControlStep, SelfTestStep DEF Next, JobStep

(* The inductive invariant is an invariant. *)
THEOREM Inductive == Spec => []IInv
  BY InitIInv, NextIInv, PTL DEF Spec

(* Every variable keeps its type, of the boot as of the job. *)
THEOREM TypeCorrect == Spec => []TypeOK
<1>1. IInv => TypeOK
  BY DEF IInv, BootInv, BootSound, JobInv, TypeOK
<1> QED
  BY <1>1, Inductive, PTL

(* A green lane vouches for the engine: whatever the corpus, the number of *)
(* cycles, the engine, the commit and the noise on the console are, every  *)
(* cycle ran and the engine printed what native hardware printed.          *)
THEOREM GreenIsConformant == Spec => []GreenMeansConformant
<1>1. IInv => GreenMeansConformant
  BY DEF IInv, JobInv, ConclusionInv
<1> QED
  BY <1>1, Inductive, PTL

(* The reference of a green lane is bound to its manifest and unmutated. *)
THEOREM GreenIsBound == Spec => []GreenMeansBoundReference
<1>1. IInv => GreenMeansBoundReference
  BY DEF IInv, JobInv, ConclusionInv
<1> QED
  BY <1>1, Inductive, PTL

-----------------------------------------------------------------------------
(* The lane as a gate. *)

(* Only a boot changes what the engine is known to have printed. *)
LEMMA ConformsFrame ==
  ASSUME UNCHANGED <<repo, ran>>
  PROVE  AllConform' = AllConform
  BY DEF AllConform, Conforms, Vouched, Agrees, manifest, reference, cycle

(* A step other than a boot decides only once, and green only for what     *)
(* conforms.                                                               *)
LEMMA GateStep ==
  ASSUME IInv, IInv', [Next]_vars
  PROVE  [G!Next]_(G!gateVars)
<1>1. AllConform \in BOOLEAN /\ AllConform' \in BOOLEAN
  BY DEF AllConform
<1>2. step # "end" => verdict = "none"
  BY DEF IInv, JobInv, StepInv
<1>3. verdict' \in {"none", "green", "red", "cancelled"}
      /\ (verdict' = "green" => AllConform')
  BY DEF IInv, JobInv, LaneTypeOK, ConclusionInv, GreenMeansConformant, AllConform
<1>4. CASE UNCHANGED vars
  BY <1>4, ConformsFrame DEF vars, laneVars, G!gateVars
<1>5. CASE BootGuest
  <2>1. verdict = "none" /\ UNCHANGED verdict
    BY <1>2, <1>5 DEF BootGuest
  <2> QED
    BY <1>1, <2>1 DEF G!Next, G!Observe
<1>6. CASE UNCHANGED <<repo, ran>> /\ (UNCHANGED verdict \/ step # "end")
  <2>1. AllConform' = AllConform
    BY <1>6, ConformsFrame
  <2>2. CASE UNCHANGED verdict
    BY <2>1, <2>2 DEF G!gateVars
  <2>3. CASE verdict' # verdict
    BY <1>2, <1>3, <1>6, <2>1, <2>3 DEF G!Next, G!Decide
  <2> QED
    BY <2>2, <2>3
<1>7. CASE Next /\ ~ BootGuest
  <2>1. CASE GuestWrites \/ GuestOther \/ HostProgress
    BY <1>6, <2>1 DEF GuestWrites, GuestOther, HostProgress, laneVars
  <2>2. CASE JobStep
    BY <1>6, <1>7, <2>2
       DEF JobStep, RenderSeed, BootReturns, ExtractCorpus, CollectSeeded, Differential,
           CollectControl, NegativeControl, SelfTest
  <2>3. CASE JobCancelled
    BY <1>6, <2>3 DEF JobCancelled
  <2>4. CASE Ended
    BY <1>4, <2>4 DEF Ended
  <2> QED
    BY <1>7, <2>1, <2>2, <2>3, <2>4 DEF Next
<1> QED
  BY <1>4, <1>5, <1>7

(* The lane never does what the gate does not allow: the safety part of    *)
(* ImplementsGate.  That it concludes is checked, not proved.              *)
THEOREM RefinesGate == Spec => G!Init /\ [][G!Next]_(G!gateVars)
<1>1. Init => G!Init
  BY DEF Init, G!Init, AllConform
<1>2. IInv /\ IInv' /\ [Next]_vars => [G!Next]_(G!gateVars)
  BY GateStep
<1> QED
  BY <1>1, <1>2, Inductive, PTL DEF Spec

-----------------------------------------------------------------------------
(* What a sound commit gives: the self-test passes.                        *)

SoundTests(m) ==
  /\ m.tests \in ManifestTests /\ Len(m.tests) > 1
  /\ \A j, k \in DOMAIN m.tests : m.tests[j].id = m.tests[k].id => j = k
  /\ \E s : SeedIds(m) = {s}
  /\ \A k \in DOMAIN m.tests : MutateOK(m.tests[k].arch_expected)

LEMMA TestsType ==
  ASSUME NEW m, m.tests \in ManifestTests
  PROVE  /\ Len(m.tests) \in Nat /\ DOMAIN m.tests = 1 .. Len(m.tests)
         /\ \A k \in DOMAIN m.tests :
              /\ m.tests[k].seed_mismatch \in BOOLEAN
              /\ m.tests[k].arch_expected \in Output
<1> DEFINE T == [id : STRING, seed_mismatch : BOOLEAN, arch_expected : Output]
<1>1. m.tests \in Seq(T)
  BY DEF ManifestTests
<1>2. Len(m.tests) \in Nat /\ DOMAIN m.tests = 1 .. Len(m.tests)
  BY <1>1, LenProperties
<1>3. \A k \in DOMAIN m.tests : m.tests[k] \in T
  BY <1>1, <1>2, ElementOfSeq
<1> QED
  BY <1>2, <1>3

LEMMA SoundManifestOK ==
  ASSUME NEW m, SoundTests(m)
  PROVE  ManifestOK(m) /\ SeedIds(m) \subseteq ManifestIds(m)
<1>1. m.tests # << >>
  BY DEF SoundTests
<1> QED
  BY <1>1 DEF SoundTests, ManifestOK, SeedIds, ManifestIds

(* What a test is expected to print can be mutated. *)
LEMMA ExpectedType ==
  ASSUME NEW m, SoundTests(m), NEW id \in ManifestIds(m)
  PROVE  MutateOK(Expected(m)[id]) /\ Expected(m)[id].val \in Words
<1> DEFINE c == CHOOSE k \in DOMAIN m.tests : m.tests[k].id = id
<1>1. c \in DOMAIN m.tests
  BY DEF ManifestIds
<1>2. Expected(m)[id] = m.tests[c].arch_expected
  BY DEF Expected
<1>3. m.tests[c].arch_expected \in Output
  BY <1>1, TestsType DEF SoundTests
<1> HIDE DEF c
<1> QED
  BY <1>1, <1>2, <1>3 DEF SoundTests, Output

(* The synthetic sets differ exactly where one of them was flipped. *)
LEMMA SyntheticPair ==
  ASSUME NEW m, SoundTests(m), NEW flipped \in SUBSET ManifestIds(m)
  PROVE  LET s == SyntheticSet(m, "sut", flipped)
             r == SyntheticSet(m, "reference", {})
         IN  WellFormedPair(m, s, r) /\ Mismatches(m, s, r) = flipped
<1> DEFINE s == SyntheticSet(m, "sut", flipped)
           r == SyntheticSet(m, "reference", {})
<1>1. WellFormedPair(m, s, r)
  BY SoundManifestOK DEF WellFormedPair, BoundTo, SyntheticSet
<1>2. ASSUME NEW id \in ManifestIds(m)
      PROVE  s.results[id] # r.results[id] <=> id \in flipped
  <2>1. r.results[id] = Expected(m)[id]
    BY DEF SyntheticSet
  <2>2. s.results[id] = IF id \in flipped THEN mutate(Expected(m)[id]) ELSE Expected(m)[id]
    BY DEF SyntheticSet
  <2>3. mutate(Expected(m)[id]) # Expected(m)[id]
    BY ExpectedType, MutateDiffers
  <2> QED
    BY <2>1, <2>2, <2>3
<1> HIDE DEF s, r
<1>3. Mismatches(m, s, r) = flipped
  BY <1>2 DEF Mismatches
<1> QED
  BY <1>1, <1>3 DEF s, r

(* There is a victim for scenario 3, and it is not a seed. *)
LEMMA VictimExists ==
  ASSUME NEW m, SoundTests(m)
  PROVE  \E v \in ManifestIds(m) : IsVictim(m, v) /\ v \notin SeedIds(m)
<1> DEFINE Plain == {k \in DOMAIN m.tests : ~ m.tests[k].seed_mismatch}
<1>1. /\ Len(m.tests) \in Nat /\ DOMAIN m.tests = 1 .. Len(m.tests) /\ Len(m.tests) > 1
      /\ \A j, k \in DOMAIN m.tests : m.tests[j].id = m.tests[k].id => j = k
  BY TestsType DEF SoundTests
<1>2. Plain # {}
  <2>1. SUFFICES ASSUME Plain = {}
                 PROVE  FALSE
    OBVIOUS
  <2>2. 1 \in DOMAIN m.tests /\ 2 \in DOMAIN m.tests
    BY <1>1
  <2>3. m.tests[1].id \in SeedIds(m) /\ m.tests[2].id \in SeedIds(m)
    BY <2>1, <2>2 DEF SeedIds
  <2>4. m.tests[1].id = m.tests[2].id
    BY <2>3 DEF SoundTests
  <2> QED
    BY <1>1, <2>2, <2>4
<1>3. Plain \subseteq Nat
  BY <1>1
<1>4. PICK k \in Plain : \A j \in Plain : k <= j
  BY <1>2, <1>3, LeastIndex
<1>5. \A j \in 1 .. (k - 1) : m.tests[j].seed_mismatch
  <2> SUFFICES ASSUME NEW j \in 1 .. (k - 1), ~ m.tests[j].seed_mismatch
               PROVE  FALSE
    OBVIOUS
  <2>1. j \in Plain /\ j \in Nat /\ k \in Nat /\ ~ (k <= j)
    BY <1>1
  <2> QED
    BY <1>4, <2>1
<1>6. m.tests[k].id \notin SeedIds(m)
  BY <1>1 DEF SeedIds
<1>7. m.tests[k].id \in ManifestIds(m) /\ IsVictim(m, m.tests[k].id)
  BY <1>5 DEF ManifestIds, IsVictim
<1> QED
  BY <1>6, <1>7

(* The self-test asks nothing more of a manifest than that. *)
THEOREM SelfTestAccepts ==
  ASSUME NEW m, SoundTests(m)
  PROVE  SelfTestOK(m)
<1> DEFINE ref == SyntheticSet(m, "reference", {})
           good == SyntheticSet(m, "sut", SeedIds(m))
           unseeded == SyntheticSet(m, "sut", {})
<1>1. PICK v \in ManifestIds(m) : IsVictim(m, v) /\ v \notin SeedIds(m)
  BY VictimExists
<1> DEFINE bad == SyntheticSet(m, "sut", SeedIds(m) \cup {v})
<1>2. SeedIds(m) \subseteq ManifestIds(m)
  BY SoundManifestOK
<1>3. /\ WellFormedPair(m, good, ref) /\ Mismatches(m, good, ref) = SeedIds(m)
      /\ WellFormedPair(m, unseeded, ref) /\ Mismatches(m, unseeded, ref) = {}
      /\ WellFormedPair(m, bad, ref) /\ Mismatches(m, bad, ref) = SeedIds(m) \cup {v}
  BY <1>2, SyntheticPair
<1>4. \A id \in ManifestIds(m) : MutateOK(Expected(m)[id])
  BY ExpectedType
<1>5. Cardinality(SeedIds(m)) = 1
  BY FS_Singleton DEF SoundTests
<1> HIDE DEF ref, good, unseeded, bad
<1>6. DiffExit(m, good, ref) = 0
  BY <1>3, VerdictByMismatches
<1>7. /\ DiffExit(m, unseeded, ref) = 1
      /\ good_corpus_passes(m, unseeded, ref) /\ ~ seed_detected(m, unseeded, ref)
  BY <1>3, VerdictByMismatches
<1>8. /\ DiffExit(m, bad, ref) = 1 /\ seed_detected(m, bad, ref)
      /\ Mismatches(m, bad, ref) \ SeedIds(m) = {v}
  BY <1>1, <1>3 DEF DiffExit, harness_valid, good_corpus_passes, seed_detected
<1> QED
  BY <1>1, <1>2, <1>4, <1>5, <1>6, <1>7, <1>8 DEF SelfTestOK, ref, good, unseeded, bad

-----------------------------------------------------------------------------
(* Red lanes.  A second invariant, on top of the first: the script is the  *)
(* rendered one, each of its lines is in the transcript at most once, and  *)
(* what is read from a transcript that survived is what was printed.       *)

(* The kinds of line by which each line of the script can be seen. *)
LineKinds == <<{"begin"}, {"b64", "b64bad"}, {"end"}>>

ShapeInv ==
  script # << >> =>
    /\ cycle >= 1
    /\ \/ script = CorpusScript(ran[cycle], 0)
       \/ ran[cycle] = << >> /\ \E rc \in Nat : script = CorpusScript(<< >>, rc)

OnceInv ==
  \A n \in 1 .. 3 :
    /\ \A i, j \in Where(LineKinds[n]) : i = j
    /\ Where(LineKinds[n]) # {} => n <= sent

AfterBoot == {"extract", "collect", "diff", "negcollect", "negdiff", "selftest"}
ReturnedInv == step \in AfterBoot => BootReturned

(* The extractor has read what the runner printed. *)
ReadInv ==
  step \in AfterBoot \ {"extract"} /\ Intact /\ ran[cycle] # << >> => raw = ran[cycle]

RedInv == ShapeInv /\ OnceInv /\ ReturnedInv /\ ReadInv /\ RedMeansCause

(* Nothing went wrong in the current cycle. *)
Faultless ==
  /\ RepoSound /\ cycle >= 1 /\ Intact /\ PrintedOnce(ran[cycle])
  /\ \A id \in ManifestIds(manifest) : Agrees(ran[cycle], id)

LEMMA RedMeansFault ==
  ASSUME LaneTypeOK
  PROVE  RedMeansCause <=> (verdict = "red" => ~ Faultless)
<1>1. cycle = 0 <=> ~ (cycle >= 1)
  BY DEF LaneTypeOK, cycle
<1> QED
  BY <1>1 DEF RedMeansCause, Faultless

(* An engine without defects prints something, as many lines as there are  *)
(* tests.                                                                  *)
LEMMA FaultlessPayload ==
  ASSUME LaneTypeOK, Faultless
  PROVE  /\ ran[cycle] \in Seq(WholeLines) /\ ran[cycle] # << >>
         /\ Len(ran[cycle]) = ExpectLines
         /\ SoundTests(manifest)
<1> DEFINE p == ran[cycle]
           n == Len(p)
           t == manifest.tests
<1>1. p \in Seq(WholeLines)
  BY PayloadType DEF Faultless
<1>2. SoundTests(manifest)
  BY ReposAssumption DEF LaneTypeOK, manifest, Faultless, RepoSound, SoundTests
<1>3. n \in Nat /\ DOMAIN p = 1 .. n
  BY <1>1, LenProperties
<1>4. Cardinality(RawIds(p)) = n
  BY <1>3, DistinctIds DEF Faultless, PrintedOnce, RawIds
<1>5. Len(t) \in Nat /\ DOMAIN t = 1 .. Len(t)
  BY <1>2, TestsType DEF SoundTests
<1>6. Cardinality(ManifestIds(manifest)) = Len(t)
  BY <1>2, <1>5, DistinctIds DEF SoundTests, ManifestIds
<1>7. n = Len(t) /\ Len(t) = ExpectLines /\ Len(t) > 1
  BY <1>4, <1>6 DEF Faultless, PrintedOnce, RepoSound
<1> QED
  BY <1>1, <1>2, <1>7

(* and is collected with and without the seed. *)
LEMMA FaultlessCollects ==
  ASSUME LaneTypeOK, Faultless, NEW seed \in BOOLEAN
  PROVE  /\ CollectOK(manifest, ran[cycle], "sut", seed)
         /\ \A id \in ManifestIds(manifest) :
              /\ parse_raw(ran[cycle])[id] = reference.results[id]
              /\ reference.results[id].val \in Words
<1> DEFINE p == ran[cycle]
<1>1. p \in Seq(WholeLines) /\ SoundTests(manifest)
  BY FaultlessPayload
<1>2. \A k \in DOMAIN p : p[k] \in WholeLines
  BY <1>1, LenProperties, ElementOfSeq
<1>3. ParseRawOK(p) /\ RawIds(p) = ManifestIds(manifest)
  BY <1>2 DEF ParseRawOK, WholeLines, Faultless, PrintedOnce
<1>4. ASSUME NEW id \in ManifestIds(manifest)
      PROVE  parse_raw(p)[id] = reference.results[id] /\ reference.results[id].val \in Words
  <2>1. PICK k \in DOMAIN p : p[k].id = id /\ p[k].out = reference.results[id]
    BY DEF Faultless, Agrees
  <2>2. PICK j \in DOMAIN p : p[j].id = id /\ parse_raw(p)[id] = p[j].out
    BY <1>3, ParsedLine
  <2>3. j = k
    BY <1>3, <2>1, <2>2 DEF ParseRawOK
  <2> QED
    BY <1>2, <2>1, <2>2, <2>3 DEF WholeLines, WholeOutput
<1>5. \A s \in SeedIds(manifest) : MutateOK(parse_raw(p)[s])
  <2>1. SeedIds(manifest) \subseteq ManifestIds(manifest)
    BY DEF SeedIds, ManifestIds
  <2> QED
    BY <1>4, <2>1 DEF Faultless, RepoSound
<1> QED
  BY <1>3, <1>4, <1>5 DEF CollectOK

-----------------------------------------------------------------------------
(* What is read from a transcript that survived. *)

LEMMA ScriptOf ==
  ASSUME NEW p, NEW rc
  PROVE  /\ Len(CorpusScript(p, rc)) = 3 /\ DOMAIN CorpusScript(p, rc) = 1 .. 3
         /\ CorpusScript(p, rc)[1] = CBegin
         /\ CorpusScript(p, rc)[2] = IF p = << >> THEN Junk ELSE B64(p)
         /\ CorpusScript(p, rc)[3] = CEnd(rc)
  BY DEF CorpusScript

(* The line the extractor takes is the only one of its kind. *)
LEMMA OnlyLine ==
  ASSUME LinesInv, OnceInv, NEW n \in 1 .. 3, NEW kinds, kinds = LineKinds[n],
         NEW i \in Where(kinds)
  PROVE  FirstLine(kinds) = console[i]
<1> DEFINE first == CHOOSE x \in Where(kinds) : \A y \in Where(kinds) : x <= y
<1>1. \A x, y \in Where(kinds) : x = y
  BY DEF OnceInv
<1>2. i \in Nat
  BY LenProperties DEF LinesInv, Where
<1>3. \A y \in Where(kinds) : i <= y
  BY <1>1, <1>2
<1>4. first \in Where(kinds)
  BY <1>3
<1> QED
  BY <1>1, <1>4 DEF FirstLine

LEMMA IntactReads ==
  ASSUME LinesInv, OnceInv, ShapeInv, Intact, ran[cycle] # << >>
  PROVE  /\ ExtractOK <=> Len(ran[cycle]) = ExpectLines
         /\ Extracted = ran[cycle]
<1> DEFINE p == ran[cycle]
<1>1. script = CorpusScript(p, 0)
  BY DEF ShapeInv, Intact
<1>2. script[1] = CBegin /\ script[2] = B64(p) /\ script[3] = CEnd(0) /\ DOMAIN script = 1 .. 3
  BY <1>1, ScriptOf
<1>3. PICK i \in DOMAIN console : console[i] = CBegin
  BY <1>2 DEF Intact
<1>4. PICK j \in DOMAIN console : console[j] = B64(p)
  BY <1>2 DEF Intact
<1>5. PICK k \in DOMAIN console : console[k] = CEnd(0)
  BY <1>2 DEF Intact
<1>6. i \in Where({"begin"}) /\ j \in Where({"b64", "b64bad"}) /\ k \in Where({"end"})
  BY <1>3, <1>4, <1>5 DEF Where, CBegin, B64, CEnd
<1>7. /\ LineKinds[1] = {"begin"} /\ LineKinds[2] = {"b64", "b64bad"} /\ LineKinds[3] = {"end"}
  BY DEF LineKinds
<1>8. FirstLine({"b64", "b64bad"}) = B64(p)
  BY <1>4, <1>6, <1>7, OnlyLine, 2 \in 1 .. 3
<1>9. FirstLine({"end"}) = CEnd(0)
  BY <1>5, <1>6, <1>7, OnlyLine, 3 \in 1 .. 3
<1> QED
  BY <1>6, <1>8, <1>9 DEF ExtractOK, Extracted, B64, CEnd

-----------------------------------------------------------------------------
(* The transcript keeps each line of the script at most once. *)

LEMMA KindsApart ==
  /\ \A n \in 1 .. 3 : "junk" \notin LineKinds[n]
  /\ \A n, m \in 1 .. 3 : \A k \in LineKinds[n] : k \in LineKinds[m] => n = m
<1>1. /\ LineKinds[1] = {"begin"} /\ LineKinds[2] = {"b64", "b64bad"} /\ LineKinds[3] = {"end"}
  BY DEF LineKinds
<1>2. \A n \in 1 .. 3 : n = 1 \/ n = 2 \/ n = 3
  OBVIOUS
<1> QED
  BY <1>1, <1>2

(* A line of the script is seen as a line of its kind, or not at all. *)
LEMMA SeenKind ==
  ASSUME ShapeInv, sent \in Nat, sent < Len(script), NEW seen \in Seen(script[sent + 1])
  PROVE  sent + 1 \in 1 .. 3 /\ seen.k \in LineKinds[sent + 1] \cup {"junk"}
<1>1. script # << >>
  <2>1. script = << >> => Len(script) = 0
    OBVIOUS
  <2> QED
    BY <2>1
<1>2. PICK p, rc : script = CorpusScript(p, rc)
  BY <1>1 DEF ShapeInv
<1>3. /\ Len(script) = 3 /\ script[1] = CBegin /\ script[3] = CEnd(rc)
      /\ script[2] = IF p = << >> THEN Junk ELSE B64(p)
  BY <1>2, ScriptOf
<1>4. sent + 1 = 1 \/ sent + 1 = 2 \/ sent + 1 = 3
  BY <1>3
<1>5. /\ LineKinds[1] = {"begin"} /\ LineKinds[2] = {"b64", "b64bad"} /\ LineKinds[3] = {"end"}
  BY DEF LineKinds
<1>6. CASE sent + 1 = 1
  BY <1>3, <1>5, <1>6 DEF Seen, CBegin, Junk
<1>7. CASE sent + 1 = 2
  <2>1. script[sent + 1] = Junk \/ script[sent + 1] = B64(p)
    BY <1>3, <1>7
  <2> QED
    BY <1>5, <1>7, <2>1 DEF Seen, Junk, B64, BadB64
<1>8. CASE sent + 1 = 3
  BY <1>3, <1>5, <1>8 DEF Seen, CEnd, Junk
<1> QED
  BY <1>4, <1>6, <1>7, <1>8

LEMMA AppendOnce ==
  ASSUME LinesInv, OnceInv, sent \in Nat, NEW line, line \in LineSet,
         console' = Append(console, line),
         \/ line.k = "junk" /\ sent' \in {sent, sent + 1}
         \/ sent + 1 \in 1 .. 3 /\ line.k \in LineKinds[sent + 1] /\ sent' = sent + 1
  PROVE  OnceInv'
<1>1. /\ Len(console) \in Nat /\ DOMAIN console = 1 .. Len(console)
      /\ DOMAIN console' = 1 .. Len(console) + 1
      /\ \A i \in 1 .. Len(console) : console'[i] = console[i]
      /\ console'[Len(console) + 1] = line
  BY LenProperties, AppendProperties DEF LinesInv
<1> SUFFICES ASSUME NEW n \in 1 .. 3
             PROVE  /\ \A i, j \in Where(LineKinds[n])' : i = j
                    /\ Where(LineKinds[n])' # {} => n <= sent'
  BY DEF OnceInv, LineKinds
<1> DEFINE K == LineKinds[n]
           W == {i \in DOMAIN console' : console'[i].k \in K}
<1>2. Where(LineKinds[n])' = W
  BY DEF Where, LineKinds
<1>3. /\ \A i, j \in Where(K) : i = j
      /\ Where(K) # {} => n <= sent
  BY DEF OnceInv
<1>4. \A i \in W : i \in Where(K) \/ (i = Len(console) + 1 /\ line.k \in K)
  BY <1>1 DEF Where
<1>5. CASE line.k \notin K
  BY <1>2, <1>3, <1>4, <1>5
<1>6. CASE line.k \in K
  <2>1. n = sent + 1 /\ sent' = n
    BY <1>6, KindsApart
  <2>2. Where(K) = {}
    BY <1>3, <2>1
  <2> QED
    BY <1>2, <1>4, <2>1, <2>2
<1> QED
  BY <1>5, <1>6

(* A step of the boot cannot come after it, and reaches no verdict. *)
LEMMA BootRed ==
  ASSUME IInv, RedInv, step # "end", GuestWrites \/ GuestOther \/ HostProgress
  PROVE  RedInv'
<1>1. /\ BootSound /\ LinesInv /\ LaneTypeOK /\ sent \in Nat
      /\ ShapeInv /\ OnceInv /\ ReturnedInv
  BY DEF IInv, BootInv, JobInv, RedInv, BootSound, BootTypeOK
<1>2. /\ UNCHANGED <<repo, step, ran, raw, sut, control, verdict>>
      /\ \E line : WriteLine(line) \/ WriteNoise(line) \/ PowerDown(line) \/ QuietStep
  BY DEF GuestWrites, GuestOther, HostProgress, laneVars, QuietStep
<1>3. step \notin AfterBoot
  BY <1>1, <1>2, ReturnedIsOver DEF ReturnedInv
<1>4. ReturnedInv' /\ ReadInv'
  BY <1>2, <1>3 DEF ReturnedInv, ReadInv
<1>5. verdict' = "none"
  BY <1>2 DEF IInv, JobInv, StepInv
<1>6. RedMeansCause'
  BY <1>5 DEF RedMeansCause
<1>7. UNCHANGED script
  BY DEF GuestWrites, GuestOther, HostProgress, WriteLine, WriteNoise, PowerDown, QuietStep,
         ScriptEnds, SystemOff, GuestResets, QemuDies, HostStep, QemuExits, TimeoutKills,
         QemuEnds, EmitRunResult, EmitFails
<1>8. ShapeInv'
  BY <1>1, <1>2, <1>7 DEF ShapeInv, cycle
<1>9. OnceInv'
  <2>1. CASE GuestWrites
    <3>1. PICK seen \in Seen(script[sent + 1]) : WriteLine(seen)
      BY <2>1 DEF GuestWrites
    <3>2. sent + 1 \in 1 .. 3 /\ seen.k \in LineKinds[sent + 1] \cup {"junk"}
      BY <1>1, <2>1, SeenKind DEF GuestWrites
    <3>3. seen \in LineSet
      BY <1>1, <2>1, SeenLine DEF GuestWrites, IInv
    <3> QED
      BY <1>1, <3>1, <3>2, <3>3, AppendOnce DEF WriteLine
  <2>2. CASE WriteNoise(Junk) \/ PowerDown(Junk)
    <3>1. Junk \in LineSet /\ Junk.k = "junk"
      BY DEF LineSet, Junk
    <3> QED
      BY <1>1, <2>2, <3>1, AppendOnce DEF WriteNoise, PowerDown
  <2>3. CASE QuietStep
    <3>1. UNCHANGED <<sent, console>>
      BY <2>3, QuietKeepsLines
    <3> QED
      BY <1>1, <3>1 DEF OnceInv, Where, LineKinds
  <2> QED
    BY <2>1, <2>2, <2>3 DEF GuestOther, HostProgress, QuietStep
<1> QED
  BY <1>4, <1>6, <1>8, <1>9 DEF RedInv

-----------------------------------------------------------------------------
(* No step of the job fails a cycle in which nothing went wrong. *)

LEMMA FaultlessExtracts ==
  ASSUME IInv, RedInv, Faultless
  PROVE  ExtractOK /\ Extracted = ran[cycle]
<1>1. ran[cycle] # << >> /\ Len(ran[cycle]) = ExpectLines
  BY FaultlessPayload DEF IInv, JobInv
<1> QED
  BY <1>1, IntactReads DEF IInv, BootInv, RedInv, Faultless

LEMMA FaultlessDiffs ==
  ASSUME LaneTypeOK, Faultless
  PROVE  /\ DiffExit(manifest, SeededSet(manifest, ran[cycle]), reference) = 0
         /\ DiffExit(manifest, ControlSet(manifest, ran[cycle]), reference) = 1
<1>1. ManifestOK(manifest)
  BY FaultlessPayload, SoundManifestOK
<1>2. \A id \in ManifestIds(manifest) :
        /\ parse_raw(ran[cycle])[id] = reference.results[id]
        /\ reference.results[id].val \in Words
  BY FaultlessCollects
<1>3. /\ BoundTo(reference, "reference", manifest) /\ ~ reference.seed_active
      /\ DOMAIN reference.results = ManifestIds(manifest)
  BY DEF Faultless, RepoSound
<1> QED
  BY <1>1, <1>2, <1>3, AgreementServes

LEMMA FaultlessPasses ==
  ASSUME IInv, RedInv, Faultless, JobStep
  PROVE  verdict' # "red"
<1>1. LaneTypeOK /\ StepInv /\ PipelineInv /\ ReadInv /\ Intact /\ cycle >= 1
  BY DEF IInv, JobInv, RedInv, Faultless
<1>2. ran[cycle] # << >> /\ SelfTestOK(manifest)
  BY <1>1, FaultlessPayload, SelfTestAccepts
<1>3. step \in AfterBoot \ {"extract"} => raw = ran[cycle]
  BY <1>1, <1>2 DEF ReadInv
<1>4. step # "end" => verdict # "red"
  BY <1>1 DEF StepInv
<1>5. CASE RenderSeed
  BY <1>1, <1>5 DEF RenderSeed, StepInv
<1>6. CASE BootGuest \/ BootReturns
  BY <1>4, <1>6 DEF BootGuest, BootReturns
<1>7. CASE ExtractCorpus
  BY <1>4, <1>7, FaultlessExtracts DEF ExtractCorpus
<1>8. CASE CollectSeeded
  BY <1>1, <1>3, <1>4, <1>8, FaultlessCollects DEF CollectSeeded, AfterBoot
<1>9. CASE Differential
  <2>1. DiffExit(manifest, sut, reference) = 0
    BY <1>1, <1>3, <1>9, FaultlessDiffs DEF Differential, PipelineInv, AfterBoot
  <2>2. AfterValid
    BY <1>9, <2>1 DEF Differential
  <2> QED
    BY <1>4, <1>9, <2>2, LaneAssumption DEF Differential, AfterValid, Conclude
<1>10. CASE CollectControl
  BY <1>1, <1>3, <1>4, <1>10, FaultlessCollects DEF CollectControl, AfterBoot
<1>11. CASE NegativeControl
  <2>1. DiffExit(manifest, control, reference) = 1
    BY <1>1, <1>3, <1>11, FaultlessDiffs DEF NegativeControl, PipelineInv, AfterBoot
  <2> QED
    BY <1>4, <1>11, <2>1 DEF NegativeControl
<1>12. CASE SelfTest
  BY <1>2, <1>12 DEF SelfTest, Conclude
<1> QED
  BY <1>5, <1>6, <1>7, <1>8, <1>9, <1>10, <1>11, <1>12 DEF JobStep

(* Every step keeps the second invariant. *)

LEMMA BootGuestRed ==
  ASSUME IInv, RedInv, BootGuest
  PROVE  RedInv'
<1>1. /\ cycle \in Nat /\ ran \in Seq(Payloads \cup {<< >>}) /\ verdict' = "none"
      /\ step' = "booting"
  BY DEF BootGuest, IInv, JobInv, LaneTypeOK, StepInv, cycle
<1>2. PICK p \in Payloads \cup {<< >>} :
        /\ ran' = Append(ran, p)
        /\ \/ StartBoot(CorpusScript(p, 0))
           \/ p = << >> /\ \E rc \in Nat : StartBoot(CorpusScript(<< >>, rc))
           \/ RefuseBoot
  BY LaneAssumption DEF BootGuest
<1>3. cycle' >= 1 /\ ran'[cycle'] = p
  BY <1>1, <1>2, AppendProperties DEF cycle
<1>4. /\ console' = << >>
      /\ \/ script' = CorpusScript(p, 0)
         \/ p = << >> /\ \E rc \in Nat : script' = CorpusScript(<< >>, rc)
         \/ script' = << >>
  BY <1>2 DEF StartBoot, RefuseBoot
<1>5. ShapeInv'
  BY <1>3, <1>4 DEF ShapeInv
<1>6. OnceInv'
  <2>1. DOMAIN console' = {}
    BY <1>4
  <2> QED
    BY <2>1 DEF OnceInv, Where
<1> QED
  BY <1>1, <1>5, <1>6 DEF RedInv, ReturnedInv, ReadInv, RedMeansCause, AfterBoot

LEMMA JobRed ==
  ASSUME IInv, IInv', RedInv, JobStep \/ JobCancelled, ~ BootGuest
  PROVE  RedInv'
<1>1. UNCHANGED <<repo, ran, bootVars>>
  BY DEF JobStep, JobCancelled, RenderSeed, BootReturns, ExtractCorpus, CollectSeeded,
         Differential, CollectControl, NegativeControl, SelfTest
<1>2. UNCHANGED <<qemu, script, sent, console, run_result, cycle>>
  BY <1>1 DEF bootVars, cycle
<1>3. ShapeInv' /\ OnceInv'
  BY <1>1, <1>2 DEF RedInv, ShapeInv, OnceInv, Where, LineKinds
<1>4. ReturnedInv'
  <2>1. BootReturned' = BootReturned
    BY <1>2 DEF BootReturned, NoResult
  <2>2. step' \in AfterBoot => step \in AfterBoot \/ BootReturned
    BY DEF AfterBoot, JobStep, JobCancelled, RenderSeed, BootReturns, ExtractCorpus, CollectSeeded,
           Differential, AfterValid, CollectControl, NegativeControl, SelfTest, Conclude, Fail
  <2> QED
    BY <2>1, <2>2 DEF RedInv, ReturnedInv
<1>5. Intact' = Intact
  BY <1>2 DEF Intact
<1>6. ReadInv'
  <2>1. CASE ExtractCorpus
    <3>1. Intact /\ ran[cycle] # << >> => Extracted = ran[cycle]
      BY IntactReads DEF IInv, BootInv, RedInv
    <3> QED
      BY <1>1, <1>2, <1>5, <2>1, <3>1 DEF ExtractCorpus, ReadInv, AfterBoot, Fail, Conclude
  <2>2. CASE ~ ExtractCorpus
    <3>1. UNCHANGED raw
      BY <2>2 DEF JobStep, JobCancelled, RenderSeed, BootReturns, CollectSeeded,
                  Differential, CollectControl, NegativeControl, SelfTest
    <3>2. step' \in AfterBoot \ {"extract"} => step \in AfterBoot \ {"extract"}
      BY <2>2 DEF AfterBoot, JobStep, JobCancelled, RenderSeed, BootReturns, CollectSeeded,
                  Differential, AfterValid, CollectControl, NegativeControl, SelfTest, Conclude, Fail
    <3> QED
      BY <1>1, <1>2, <1>5, <3>1, <3>2 DEF RedInv, ReadInv
  <2> QED
    BY <2>1, <2>2
<1>7. RedMeansCause'
  <2>1. Faultless' = Faultless
    BY <1>1, <1>2, <1>5 DEF Faultless, RepoSound, PrintedOnce, Agrees, manifest, reference
  <2>2. Faultless => verdict' # "red"
    BY FaultlessPasses DEF JobCancelled, Conclude
  <2>3. RedMeansCause' <=> (verdict' = "red" => ~ Faultless')
    <3>1. cycle' = 0 <=> ~ (cycle' >= 1)
      BY DEF IInv, JobInv, LaneTypeOK, cycle
    <3> QED
      BY <3>1 DEF RedMeansCause, Faultless
  <2> QED
    BY <2>1, <2>2, <2>3
<1> QED
  BY <1>3, <1>4, <1>6, <1>7 DEF RedInv

LEMMA StutterRed ==
  ASSUME RedInv, UNCHANGED vars
  PROVE  RedInv'
<1>1. UNCHANGED <<qemu, script, sent, console, run_result, repo, step, ran, raw, verdict>>
  BY DEF vars, bootVars, laneVars
<1>2. cycle' = cycle /\ Intact' = Intact
  BY <1>1 DEF cycle, Intact
<1>3. RedMeansCause'
  BY <1>1, <1>2 DEF RedInv, RedMeansCause, RepoSound, PrintedOnce, Agrees, manifest, reference
<1> QED
  BY <1>1, <1>2, <1>3 DEF RedInv, ShapeInv, OnceInv, Where, LineKinds, ReturnedInv, BootReturned,
     NoResult, ReadInv

LEMMA InitRed == Init => RedInv
<1> SUFFICES ASSUME Init
             PROVE  RedInv
  OBVIOUS
<1>1. script = << >> /\ DOMAIN console = {} /\ step = "render" /\ verdict = "none"
  BY DEF Init, BootInit
<1> QED
  BY <1>1 DEF RedInv, ShapeInv, OnceInv, Where, ReturnedInv, ReadInv, RedMeansCause, AfterBoot

(* A lane is not red without a reason: for every corpus, engine, number of *)
(* cycles and amount of noise, whatever the guest, QEMU and the timeout do.*)
THEOREM RedHasCause == Spec => []RedMeansCause
<1>1. IInv /\ IInv' /\ RedInv /\ [Next]_vars => RedInv'
  <2> SUFFICES ASSUME IInv, IInv', RedInv, [Next]_vars
               PROVE  RedInv'
    OBVIOUS
  <2>1. CASE step # "end" /\ (GuestWrites \/ GuestOther \/ HostProgress)
    BY <2>1, BootRed
  <2>2. CASE BootGuest
    BY <2>2, BootGuestRed
  <2>3. CASE (JobStep \/ JobCancelled) /\ ~ BootGuest
    BY <2>3, JobRed
  <2>4. CASE Ended \/ UNCHANGED vars
    BY <2>4, StutterRed DEF Ended
  <2> QED
    BY <2>1, <2>2, <2>3, <2>4 DEF Next
<1>2. RedInv => RedMeansCause
  BY DEF RedInv
<1> QED
  BY <1>1, <1>2, InitRed, Inductive, PTL DEF Spec
=============================================================================

-------------------------- MODULE DiffEngineProofs --------------------------
(***************************************************************************)
(* What the collector and the differential engine establish, for every     *)
(* manifest, raw output and reference.                                     *)
(***************************************************************************)
EXTENDS DiffEngine, TLAPS, FiniteSetTheorems

(* A manifest has finitely many seeds, so that counting them makes sense.  *)
LEMMA FiniteSeeds ==
  ASSUME NEW m, m.tests \in ManifestTests
  PROVE  IsFiniteSet(SeedIds(m)) /\ SeedIds(m) \subseteq ManifestIds(m)
<1>1. SeedIds(m) \subseteq ManifestIds(m)
  BY DEF SeedIds, ManifestIds
<1>2. /\ Len(m.tests) \in Nat
      /\ DOMAIN m.tests = 1 .. Len(m.tests)
  BY DEF ManifestTests
<1>3. IsFiniteSet(DOMAIN m.tests)
  <2>1. IsFiniteSet(1 .. Len(m.tests))
    <3>1. 1 \in Int /\ Len(m.tests) \in Int
      BY <1>2
    <3> QED
      BY <3>1, FS_Interval
  <2> QED
    BY <1>2, <2>1
<1> DEFINE f == [k \in DOMAIN m.tests |-> m.tests[k].id]
<1>4. f \in Surjection(DOMAIN m.tests, ManifestIds(m))
  BY DEF Surjection, ManifestIds
<1>5. IsFiniteSet(ManifestIds(m))
  BY <1>3, <1>4, FS_Surjection
<1> QED
  BY <1>1, <1>5, FS_Subset

(* Flipping bit 0 stays within the register width, and changes the value. *)
LEMMA FlipBit0Type ==
  ASSUME NEW v \in Words
  PROVE  FlipBit0(v) \in Words /\ FlipBit0(v) # v
  BY WordPairsAssumption DEF Words, FlipBit0

(* A mutated output is an output again, whatever follows its value. *)
LEMMA MutateType ==
  ASSUME NEW out \in Output
  PROVE  mutate(out) \in Output
<1>1. out.val \in Words /\ out.nzcv \in Flags \cup {"partial"}
  BY DEF Output
<1>2. FlipBit0(out.val) \in Words
  BY <1>1, FlipBit0Type
<1> QED
  BY <1>1, <1>2 DEF mutate, Output, Heads

(* What the collector parsed for an id is the output of a line with this id.*)
LEMMA ParsedLine ==
  ASSUME NEW lines, NEW id \in RawIds(lines)
  PROVE  \E k \in DOMAIN lines : lines[k].id = id /\ parse_raw(lines)[id] = lines[k].out
<1>1. PICK k \in DOMAIN lines : lines[k].id = id
  BY DEF RawIds
<1> DEFINE c == CHOOSE j \in DOMAIN lines : lines[j].id = id
<1>2. c \in DOMAIN lines /\ lines[c].id = id
  BY <1>1
<1>3. parse_raw(lines)[id] = lines[c].out
  BY DEF parse_raw
<1> QED
  BY <1>2, <1>3

(* A set the collector writes is of the right shape. *)
LEMMA CollectType ==
  ASSUME NEW m, NEW lines \in Seq(RawLines), NEW seed \in BOOLEAN,
         CollectOK(m, lines, "sut", seed)
  PROVE  Collect(m, lines, "sut", seed) \in
           [side : {"sut"}, corpus_manifest_version : {m.version},
            corpus_manifest_sha256 : {m.sha256}, seed_active : BOOLEAN,
            results : [ManifestIds(m) -> Output]]
<1> DEFINE s == Collect(m, lines, "sut", seed)
<1>1. ASSUME NEW id \in ManifestIds(m)
      PROVE  parse_raw(lines)[id] \in Output
  <2>1. id \in RawIds(lines) /\ ParseRawOK(lines)
    BY DEF CollectOK
  <2>2. PICK k \in DOMAIN lines : parse_raw(lines)[id] = lines[k].out
    BY <2>1, ParsedLine
  <2>3. lines[k] \in RawLines /\ lines[k].kind = "tab"
    BY <2>1, <2>2 DEF ParseRawOK
  <2>4. lines[k] # NoTabLine
    BY <2>3 DEF NoTabLine
  <2>5. lines[k] \in [kind : {"tab"}, id : STRING, out : Output]
    BY <2>3, <2>4 DEF RawLines
  <2> QED
    BY <2>2, <2>5
<1>2. ASSUME NEW id \in ManifestIds(m)
      PROVE  (IF "sut" = "sut" /\ seed /\ id \in SeedIds(m)
              THEN mutate(parse_raw(lines)[id]) ELSE parse_raw(lines)[id]) \in Output
  BY <1>1, MutateType
<1>3. s.results \in [ManifestIds(m) -> Output]
  BY <1>2 DEF Collect
<1> QED
  BY <1>3 DEF Collect

(* The exit status tells the three verdicts apart. *)
LEMMA DiffExitMeans ==
  ASSUME NEW m, NEW sut, NEW ref
  PROVE  DiffExit(m, sut, ref) = 0 <=> WellFormedPair(m, sut, ref) /\ harness_valid(m, sut, ref)
<1>1. CASE ~ WellFormedPair(m, sut, ref)
  BY <1>1 DEF DiffExit
<1>2. CASE WellFormedPair(m, sut, ref) /\ harness_valid(m, sut, ref)
  BY <1>2 DEF DiffExit
<1>3. CASE WellFormedPair(m, sut, ref) /\ ~ harness_valid(m, sut, ref)
  BY <1>3 DEF DiffExit
<1> QED
  BY <1>1, <1>2, <1>3

(* Only the seed entries of a seeded SUT set differ from what was parsed,  *)
(* and an unseeded set has what was parsed everywhere.                     *)
LEMMA CollectedResults ==
  ASSUME NEW m, NEW lines, NEW seed \in BOOLEAN, NEW id \in ManifestIds(m),
         ~ seed \/ id \notin SeedIds(m)
  PROVE  Collect(m, lines, "sut", seed).results[id] = parse_raw(lines)[id]
  BY DEF Collect

(* The set a lane diffs, and the one of its negative control. *)
SeededSet(m, lines) == Collect(m, lines, "sut", TRUE)
ControlSet(m, lines) == Collect(m, lines, "sut", FALSE)

(* A seeded set the engine accepts agrees with the reference on every test *)
(* that is not a seed entry.                                               *)
THEOREM SeededValidMeans ==
  ASSUME NEW m, NEW lines, NEW ref,
         DiffExit(m, SeededSet(m, lines), ref) = 0
  PROVE  /\ WellFormedPair(m, SeededSet(m, lines), ref)
         /\ \A id \in ManifestIds(m) :
              id \notin SeedIds(m) => parse_raw(lines)[id] = ref.results[id]
<1> DEFINE s == SeededSet(m, lines)
<1>1. WellFormedPair(m, s, ref) /\ harness_valid(m, s, ref)
  BY DiffExitMeans
<1>2. ASSUME NEW id \in ManifestIds(m), id \notin SeedIds(m)
      PROVE  parse_raw(lines)[id] = ref.results[id]
  <2>1. s.results[id] = ref.results[id]
    BY <1>1, <1>2 DEF harness_valid, good_corpus_passes, Mismatches
  <2> QED
    BY <1>2, <2>1, CollectedResults DEF SeededSet
<1> QED
  BY <1>1, <1>2

(* With one seed entry, a set that the engine accepts when it is seeded    *)
(* and rejects when it is not agrees with the reference everywhere: this   *)
(* is what the negative control adds.                                      *)
THEOREM ControlRejectedMeans ==
  ASSUME NEW m, NEW lines, NEW ref,
         \E seedId : SeedIds(m) = {seedId},
         DiffExit(m, SeededSet(m, lines), ref) = 0,
         DiffExit(m, ControlSet(m, lines), ref) # 0
  PROVE  \A id \in ManifestIds(m) : parse_raw(lines)[id] = ref.results[id]
<1> DEFINE s == SeededSet(m, lines)
           c == ControlSet(m, lines)
<1>0. PICK seedId : SeedIds(m) = {seedId}
  OBVIOUS
<1>1. /\ WellFormedPair(m, SeededSet(m, lines), ref)
      /\ \A id \in ManifestIds(m) :
           id \notin SeedIds(m) => parse_raw(lines)[id] = ref.results[id]
  BY SeededValidMeans
<1>2. WellFormedPair(m, c, ref)
  BY <1>1 DEF WellFormedPair, BoundTo, Collect, SeededSet, ControlSet
<1>3. ~ harness_valid(m, c, ref)
  BY <1>2, DiffExitMeans
<1>4. \A id \in ManifestIds(m) : c.results[id] = parse_raw(lines)[id]
  BY CollectedResults DEF ControlSet
<1>5. good_corpus_passes(m, c, ref)
  BY <1>1, <1>4 DEF good_corpus_passes, Mismatches
<1>6. seedId \notin Mismatches(m, c, ref)
  BY <1>0, <1>3, <1>5 DEF harness_valid, seed_detected
<1>7. seedId \in ManifestIds(m) => parse_raw(lines)[seedId] = ref.results[seedId]
  BY <1>4, <1>6 DEF Mismatches
<1> QED
  BY <1>0, <1>1, <1>7

-----------------------------------------------------------------------------
(* What is accepted: an engine without defects, and its self-test.         *)

(* Records with distinct ids are as many as their ids. *)
LEMMA DistinctIds ==
  ASSUME NEW lines, NEW n \in Nat, DOMAIN lines = 1 .. n,
         \A j, k \in DOMAIN lines : lines[j].id = lines[k].id => j = k
  PROVE  Cardinality({lines[k].id : k \in DOMAIN lines}) = n
<1> DEFINE ids == {lines[k].id : k \in 1 .. n}
           f == [k \in 1 .. n |-> lines[k].id]
<1>1. f \in Bijection(1 .. n, ids)
  <2>1. f \in [1 .. n -> ids]
    OBVIOUS
  <2>2. \A a, b \in 1 .. n : f[a] = f[b] => a = b
    OBVIOUS
  <2>3. \A t \in ids : \E k \in 1 .. n : f[k] = t
    OBVIOUS
  <2> HIDE DEF f, ids
  <2> QED
    BY <2>1, <2>2, <2>3 DEF Bijection, Injection, IsInjective, Surjection
<1>2. IsFiniteSet(1 .. n) /\ Cardinality(1 .. n) = n
  <2>1. 1 \in Int /\ n \in Int
    OBVIOUS
  <2>2. IsFiniteSet(1 .. n) /\ Cardinality(1 .. n) = IF 1 > n THEN 0 ELSE n - 1 + 1
    BY <2>1, FS_Interval
  <2> QED
    BY <2>2
<1>3. ExistsBijection(1 .. n, ids)
  BY <1>1 DEF ExistsBijection
<1> QED
  BY <1>2, <1>3, FS_Bijection

(* A mutated output is another one. *)
LEMMA MutateDiffers ==
  ASSUME NEW out, out.val \in Words
  PROVE  mutate(out) # out
<1>1. FlipBit0(out.val) # out.val
  BY FlipBit0Type
<1>2. mutate(out).val # out.val
  BY <1>1 DEF mutate
<1> QED
  BY <1>2

(* Two sets bound to a manifest are VALID when they differ exactly in the  *)
(* seeds, and INVALID when they do not differ at all.                      *)
LEMMA VerdictByMismatches ==
  ASSUME NEW m, NEW sut, NEW ref, WellFormedPair(m, sut, ref)
  PROVE  /\ Mismatches(m, sut, ref) = SeedIds(m) => DiffExit(m, sut, ref) = 0
         /\ Mismatches(m, sut, ref) = {} =>
              /\ DiffExit(m, sut, ref) = 1
              /\ good_corpus_passes(m, sut, ref) /\ ~ seed_detected(m, sut, ref)
<1>1. SeedIds(m) # {}
  BY DEF WellFormedPair, ManifestOK
<1> QED
  BY <1>1 DEF DiffExit, harness_valid, good_corpus_passes, seed_detected

(* An engine that printed what the reference says is accepted with the     *)
(* seed, and rejected without it.                                          *)
THEOREM AgreementServes ==
  ASSUME NEW m, NEW lines, NEW ref, ManifestOK(m),
         BoundTo(ref, "reference", m), ~ ref.seed_active, DOMAIN ref.results = ManifestIds(m),
         \A id \in ManifestIds(m) :
           parse_raw(lines)[id] = ref.results[id] /\ ref.results[id].val \in Words
  PROVE  /\ DiffExit(m, SeededSet(m, lines), ref) = 0
         /\ DiffExit(m, ControlSet(m, lines), ref) = 1
<1> DEFINE s == SeededSet(m, lines)
           c == ControlSet(m, lines)
<1>1. SeedIds(m) \subseteq ManifestIds(m)
  BY DEF SeedIds, ManifestIds
<1>2. WellFormedPair(m, s, ref) /\ WellFormedPair(m, c, ref)
  BY DEF WellFormedPair, BoundTo, Collect, SeededSet, ControlSet
<1>3. ASSUME NEW id \in ManifestIds(m)
      PROVE  /\ c.results[id] = ref.results[id]
             /\ id \notin SeedIds(m) => s.results[id] = ref.results[id]
             /\ id \in SeedIds(m) => s.results[id] # ref.results[id]
  <2>1. id \in SeedIds(m) => s.results[id] = mutate(ref.results[id])
    BY DEF Collect, SeededSet
  <2> QED
    BY <2>1, MutateDiffers, CollectedResults DEF SeededSet, ControlSet
<1>4. Mismatches(m, s, ref) = SeedIds(m) /\ Mismatches(m, c, ref) = {}
  BY <1>1, <1>3 DEF Mismatches
<1> QED
  BY <1>2, <1>4, VerdictByMismatches

(* The negative control decides exactly what the seeded comparison leaves  *)
(* open: of the raw outputs accepted with the seed it rejects those that   *)
(* agree with the reference on the seed test too.                          *)
THEOREM ControlTells ==
  ASSUME NEW m, NEW lines, NEW ref,
         \E seedId : SeedIds(m) = {seedId},
         \A id \in ManifestIds(m) : ref.results[id].val \in Words,
         DiffExit(m, SeededSet(m, lines), ref) = 0
  PROVE  DiffExit(m, ControlSet(m, lines), ref) # 0 <=>
           \A id \in ManifestIds(m) : parse_raw(lines)[id] = ref.results[id]
<1>1. ASSUME DiffExit(m, ControlSet(m, lines), ref) # 0
      PROVE  \A id \in ManifestIds(m) : parse_raw(lines)[id] = ref.results[id]
  BY <1>1, ControlRejectedMeans
<1>2. ASSUME \A id \in ManifestIds(m) : parse_raw(lines)[id] = ref.results[id]
      PROVE  DiffExit(m, ControlSet(m, lines), ref) # 0
  <2>1. WellFormedPair(m, SeededSet(m, lines), ref)
    BY SeededValidMeans
  <2>2. DiffExit(m, ControlSet(m, lines), ref) = 1
    BY <1>2, <2>1, AgreementServes DEF WellFormedPair
  <2> QED
    BY <2>2
<1> QED
  BY <1>1, <1>2
=============================================================================

----------------------------- MODULE DiffEngine -----------------------------
(***************************************************************************)
(* harness/diff_corpus.py, the engine that decides a differential, and     *)
(* harness/selftest_diff.py, which runs it on three synthetic pairs.       *)
(* Nothing here reads arch_expected except the self-test, which            *)
(* synthesises its result sets from it.                                    *)
(***************************************************************************)
EXTENDS ResultSets

(* load_manifest: at least one test, ids distinct, at least one seed. *)
ManifestOK(m) ==
  /\ m.tests # << >>
  /\ \A j, k \in DOMAIN m.tests : m.tests[j].id = m.tests[k].id => j = k
  /\ SeedIds(m) # {}

(* Mutant: the version is compared, the hash is not. *)
BoundToVersion(r, side, m) ==
  r.side = side /\ r.corpus_manifest_version = m.version

(* load_results: the set is of the expected side and bound to these bytes. *)
BoundTo(r, side, m) ==
  /\ r.side = side
  /\ r.corpus_manifest_version = m.version
  /\ r.corpus_manifest_sha256 = m.sha256

(* Mutant: no side may be seeded. *)
UnseededPair(m, sut, ref) ==
  /\ ManifestOK(m)
  /\ BoundTo(sut, "sut", m) /\ BoundTo(ref, "reference", m)
  /\ ~ ref.seed_active /\ ~ sut.seed_active
  /\ DOMAIN sut.results = ManifestIds(m) /\ DOMAIN ref.results = ManifestIds(m)

WellFormedPair(m, sut, ref) ==
  /\ ManifestOK(m)
  /\ BoundTo(sut, "sut", m)
  /\ BoundTo(ref, "reference", m)
  /\ ~ ref.seed_active
  /\ DOMAIN sut.results = ManifestIds(m)
  /\ DOMAIN ref.results = ManifestIds(m)

Mismatches(m, sut, ref) == {id \in ManifestIds(m) : sut.results[id] # ref.results[id]}

good_corpus_passes(m, sut, ref) == Mismatches(m, sut, ref) \subseteq SeedIds(m)
seed_detected(m, sut, ref) == SeedIds(m) \subseteq Mismatches(m, sut, ref)

harness_valid(m, sut, ref) ==
  good_corpus_passes(m, sut, ref) /\ seed_detected(m, sut, ref)

(* main: 2 structural error, 0 VALID, 1 INVALID. *)
DiffExit(m, sut, ref) ==
  IF ~ WellFormedPair(m, sut, ref) THEN 2
  ELSE IF harness_valid(m, sut, ref) THEN 0 ELSE 1

-----------------------------------------------------------------------------
(* selftest_diff.build_sets: the result sets synthesised from arch_expected,*)
(* with the ids of flipped mutated on the SUT side.                        *)
Expected(m) ==
  [id \in ManifestIds(m) |->
     m.tests[CHOOSE k \in DOMAIN m.tests : m.tests[k].id = id].arch_expected]

SyntheticSet(m, side, flipped) ==
  [side |-> side,
   corpus_manifest_version |-> m.version,
   corpus_manifest_sha256 |-> m.sha256,
   seed_active |-> (side = "sut" /\ flipped # {}),
   results |-> [id \in ManifestIds(m) |->
                  IF id \in flipped THEN mutate(Expected(m)[id]) ELSE Expected(m)[id]]]

(* The victim of scenario 3 is the first test that is not a seed. *)
IsVictim(m, v) ==
  \E k \in DOMAIN m.tests :
    /\ m.tests[k].id = v
    /\ ~ m.tests[k].seed_mismatch
    /\ \A j \in 1 .. (k - 1) : m.tests[j].seed_mismatch

(* main: scenario 1 accepts the seeded pair, 2 rejects the unseeded one,   *)
(* 3 rejects a divergence and names exactly the victim; 1 and 2 also       *)
(* require the count of seeds to be one.                                   *)
SelfTestOK(m) ==
  LET ref      == SyntheticSet(m, "reference", {})
      good     == SyntheticSet(m, "sut", SeedIds(m))
      unseeded == SyntheticSet(m, "sut", {})
  IN /\ \A s \in SeedIds(m) : MutateOK(Expected(m)[s])
     /\ DiffExit(m, good, ref) = 0
     /\ Cardinality(SeedIds(m)) = 1
     /\ DiffExit(m, unseeded, ref) = 1
     /\ good_corpus_passes(m, unseeded, ref)
     /\ ~ seed_detected(m, unseeded, ref)
     /\ \E v \in ManifestIds(m) :
          /\ IsVictim(m, v)
          /\ MutateOK(Expected(m)[v])
          /\ LET bad == SyntheticSet(m, "sut", SeedIds(m) \cup {v})
             IN /\ DiffExit(m, bad, ref) = 1
                /\ seed_detected(m, bad, ref)
                /\ Mismatches(m, bad, ref) \ SeedIds(m) = {v}
=============================================================================

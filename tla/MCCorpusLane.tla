---------------------------- MODULE MCCorpusLane ----------------------------
(* Small instances of CorpusLane: a corpus of two or three tests. *)
EXTENDS CorpusLane

MCFlags == {"none", "0x6"}

Out(v, f) == [head |-> "padded", val |-> v, nzcv |-> f]
Test(id, seed, out) == [id |-> id, seed_mismatch |-> seed, arch_expected |-> out]
Manifest(tests, sha) == [tests |-> tests, version |-> 1, sha256 |-> sha]
Reference(m, seeded, results) ==
  [side |-> "reference", corpus_manifest_version |-> m.version,
   corpus_manifest_sha256 |-> m.sha256, seed_active |-> seeded, results |-> results]

(* One seed, placed first or last; its output has flags or not. *)
Adds == Test("adds", FALSE, Out(0, "0x6"))
Seed == Test("seed", TRUE, Out(2, "none"))
Seed2 == Test("adds", TRUE, Out(0, "0x6"))
SeedLast == Manifest(<<Adds, Seed>>, "sha1")
SeedFirst == Manifest(<<Seed, Adds>>, "sha2")
TwoSeeds == Manifest(<<Seed2, Seed>>, "sha3")
NoSeed == Manifest(<<Adds, [Seed EXCEPT !.seed_mismatch = FALSE]>>, "sha4")
Twice == Manifest(<<Adds, Seed, Seed>>, "sha5")

Native == [id \in {"adds", "seed"} |-> IF id = "adds" THEN Out(0, "0x6") ELSE Out(2, "none")]
Runner == [binary |-> "runner1", pinned |-> "runner1"]
Good(m) == [manifest |-> m, reference |-> Reference(m, FALSE, Native), runner |-> Runner]

MCRepos ==
  {Good(m) : m \in {SeedLast, SeedFirst, TwoSeeds, NoSeed, Twice}} \cup
  {[Good(SeedLast) EXCEPT !.runner.binary = "runner2"]} \cup
  {[manifest |-> SeedLast, reference |-> r, runner |-> Runner] :
     r \in {Reference(SeedFirst, FALSE, Native),
            Reference(SeedLast, TRUE, Native),
            Reference(SeedLast, FALSE, [id \in {"adds"} |-> Out(0, "0x6")]),
            [Reference(SeedLast, FALSE, Native) EXCEPT !.side = "sut"]}}

(* The engine computes each test right, one bit off, or wrong otherwise;   *)
(* the runner may also be a build with a test more or less.                *)
Results == {<<a, s>> : a \in {Out(0, "0x6"), Out(1, "0x6"), Out(0, "none")},
                       s \in {Out(2, "none"), Out(3, "none"), Out(0, "none")}}
MCPayloads ==
  {<<RawLine("adds", r[1]), RawLine("seed", r[2])>> : r \in Results} \cup
  {<<RawLine("adds", Out(0, "0x6"))>>,
   <<RawLine("adds", Out(0, "0x6")), RawLine("adds", Out(0, "0x6"))>>,
   <<RawLine("adds", Out(0, "0x6")), RawLine("adds", Out(0, "0x6")), RawLine("seed", Out(2, "none"))>>,
   <<RawLine("adds", Out(0, "0x6")), RawLine("other", Out(2, "none"))>>,
   <<RawLine("adds", Out(0, "0x6")), RawLine("seed", [Out(2, "none") EXCEPT !.head = "text"])>>}

(* For several cycles: fewer commits and engines. *)
MCSoakRepos == {Good(m) : m \in {SeedLast, SeedFirst, TwoSeeds}}
MCSoakPayloads == {<<RawLine("adds", a), RawLine("seed", s)>> :
                     a \in {Out(0, "0x6"), Out(1, "0x6")}, s \in {Out(2, "none"), Out(3, "none")}}

MCDeathCodes == {134, 137}
MCCrashRcs == {132}
=============================================================================

-------------------------- MODULE MCNativeReference --------------------------
(* Corpora of two tests, of which one is the seed; in the second corpus    *)
(* the other one is a store-exclusive.                                     *)
EXTENDS NativeReference

MCFlags == {"none", "0x6"}

Out(v, f) == [head |-> "padded", val |-> v, nzcv |-> f]
Nzcv == [head |-> "text", val |-> 0, nzcv |-> "none"]
Adds == Out(0, "0x6")
Add == Out(2, "none")
Stored == Out(1, "none")
NotStored == Out(0, "none")

Test(id, seed, out) == [id |-> id, seed_mismatch |-> seed, arch_expected |-> out]
Manifest(tests, sha) == [tests |-> tests, version |-> 1, sha256 |-> sha]

(* Sound, and unsound in each way a commit may be. *)
Sound == Manifest(<<Test("adds", FALSE, Adds), Test("seed", TRUE, Add)>>, "sha1")
SeedFirst == Manifest(<<Test("seed", TRUE, Add), Test("adds", FALSE, Adds)>>, "sha2")
NoSeed == Manifest(<<Test("adds", FALSE, Adds), Test("seed", FALSE, Add)>>, "sha3")
AllSeeds == Manifest(<<Test("adds", TRUE, Adds), Test("seed", TRUE, Add)>>, "sha4")
Twice == Manifest(<<Test("adds", FALSE, Adds), Test("seed", TRUE, Add), Test("seed", TRUE, Add)>>, "sha5")
TextSeed == Manifest(<<Test("adds", FALSE, Adds), Test("seed", TRUE, Nzcv)>>, "sha6")
Longer == Manifest(<<Test("adds", FALSE, Adds), Test("seed", TRUE, Add), Test("other", FALSE, Add)>>, "sha7")

Table == [id \in {"adds", "seed", "other"} |-> IF id = "adds" THEN Adds ELSE Add]
Prints(id) == IF id = "adds" THEN {Adds} ELSE {Add}
CommitOf(m, runner) ==
  [corpus |-> "harness", manifest |-> m, runner |-> runner, expect |-> Table,
   native |-> [id \in {"adds", "seed", "other"} |-> Prints(id)]]

Manifests == {Sound, SeedFirst, NoSeed, AllSeeds, Twice, TextSeed, Longer}
HarnessCommits ==
  {CommitOf(m, <<"adds", "seed">>) : m \in Manifests} \cup
  {CommitOf(Sound, <<"adds", "other">>), CommitOf(Sound, <<"adds">>),
   CommitOf(Sound, <<"adds", "adds">>), CommitOf(Sound, <<"adds", "seed", "other">>),
   CommitOf(Longer, <<"adds", "seed", "other">>),
   [CommitOf(Sound, <<"adds", "seed">>) EXCEPT !.native["seed"] = {Nzcv}]}

(* valid_corpus_runner.c: the value loaded back is the old one when the    *)
(* exclusive store has failed.                                             *)
Exclusive(m, runner) ==
  [corpus |-> "valid", manifest |-> m, runner |-> runner,
   expect |-> [id \in {"stxr", "seed"} |-> IF id = "stxr" THEN Stored ELSE Add],
   native |-> [id \in {"stxr", "seed"} |-> IF id = "stxr" THEN {Stored, NotStored} ELSE {Add}]]
ValidManifest == Manifest(<<Test("stxr", FALSE, Stored), Test("seed", TRUE, Add)>>, "sha8")
ValidCommits ==
  {Exclusive(ValidManifest, <<"stxr", "seed">>), Exclusive(ValidManifest, <<"seed", "stxr">>),
   Exclusive(Sound, <<"stxr", "seed">>), Exclusive(ValidManifest, <<"stxr">>),
   [Exclusive(ValidManifest, <<"stxr", "seed">>) EXCEPT !.expect["stxr"] = NotStored],
   [Exclusive(ValidManifest, <<"stxr", "seed">>) EXCEPT !.expect["seed"] = Adds]}

MCCommits == HarnessCommits \cup ValidCommits

Host(um, virt, emulated) == [um |-> um, virt |-> virt, emulated |-> emulated]
(* The emulated host with no answer has no systemd-detect-virt. *)
MCHosts == {Host("aarch64", "none", FALSE), Host("aarch64", "microsoft", FALSE),
            Host("aarch64", "qemu", TRUE), Host("aarch64", "", TRUE),
            Host("x86_64", "none", FALSE)}
MCEmulated == {Adds, Add, Stored}
=============================================================================

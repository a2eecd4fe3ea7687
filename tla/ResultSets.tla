----------------------------- MODULE ResultSets -----------------------------
(***************************************************************************)
(* The data of the differential harness, and the collector that makes it:  *)
(* the corpus manifest, the raw lines corpus_runner prints, and the        *)
(* gae-diff/results@1 set that collect_results.py binds to the manifest.   *)
(*                                                                         *)
(* An output is the text after the tab.  Its leading token is either a     *)
(* full "0x%016x" ("padded"), some other hexadecimal text ("short"), or    *)
(* not a number at all ("text").  What follows it is one of Flags, or      *)
(* "partial": less than the suffix that test prints.  Both formats are of  *)
(* fixed width, so an output that was cut equals no whole one, and whole   *)
(* outputs are the same text exactly when all three fields agree.          *)
(***************************************************************************)
EXTENDS Naturals, Sequences, FiniteSets

CONSTANTS WordPairs,   \* register values are 0 .. 2*WordPairs-1 (2^63 pairs in the program)
          Flags        \* the nzcv suffixes told apart, "none" included

ASSUME WordPairsAssumption == WordPairs \in Nat \ {0}
ASSUME FlagsAssumption == "none" \in Flags /\ "partial" \notin Flags

Words == 0 .. (2 * WordPairs - 1)
Heads == {"padded", "short", "text"}
Output == [head : Heads, val : Words, nzcv : Flags \cup {"partial"}]
WholeOutput == [head : {"padded", "text"}, val : Words, nzcv : Flags]

(* A raw line: its id and output, or a line with no tab in it. *)
RawLine(id, out) == [kind |-> "tab", id |-> id, out |-> out]
NoTabLine == [kind |-> "notab"]
RawLines == [kind : {"tab"}, id : STRING, out : Output] \cup {NoTabLine}

(* What the runner itself prints: whole lines only. *)
WholeLines == [kind : {"tab"}, id : STRING, out : WholeOutput]

(* What the manifest says.  tests is the array in file order. *)
ManifestTests == Seq([id : STRING, seed_mismatch : BOOLEAN, arch_expected : Output])
ManifestIds(m) == {m.tests[k].id : k \in DOMAIN m.tests}
SeedIds(m) == {m.tests[k].id : k \in {j \in DOMAIN m.tests : m.tests[j].seed_mismatch}}

-----------------------------------------------------------------------------
(* parse_raw: every line has a tab, and no id comes twice. *)
ParseRawOK(lines) ==
  /\ \A k \in DOMAIN lines : lines[k].kind = "tab"
  /\ \A j, k \in DOMAIN lines : lines[j].id = lines[k].id => j = k

RawIds(lines) == {lines[k].id : k \in DOMAIN lines}

parse_raw(lines) ==
  [id \in RawIds(lines) |-> lines[CHOOSE k \in DOMAIN lines : lines[k].id = id].out]

(* mutate: flip bit 0 of the leading value, print it padded again and keep *)
(* the nzcv suffix.  int(.., 16) raises on a head that is not a number.    *)
FlipBit0(v) == IF v % 2 = 0 THEN v + 1 ELSE v - 1
MutateOK(out) == out.head # "text"
mutate(out) == [head |-> "padded", val |-> FlipBit0(out.val), nzcv |-> out.nzcv]

(* main: the collector exits 0 only when nothing is missing, extra, or     *)
(* unparsable, and never for a seeded reference.                           *)
CollectOK(m, lines, side, seed) ==
  /\ ~ (side = "reference" /\ seed)
  /\ ParseRawOK(lines)
  /\ RawIds(lines) = ManifestIds(m)
  /\ seed => \A s \in SeedIds(m) : MutateOK(parse_raw(lines)[s])

Collect(m, lines, side, seed) ==
  [side |-> side,
   corpus_manifest_version |-> m.version,
   corpus_manifest_sha256 |-> m.sha256,
   seed_active |-> (side = "sut" /\ seed),
   results |-> [id \in ManifestIds(m) |->
                  IF side = "sut" /\ seed /\ id \in SeedIds(m)
                  THEN mutate(parse_raw(lines)[id])
                  ELSE parse_raw(lines)[id]]]
=============================================================================

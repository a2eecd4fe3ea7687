----------------------------- MODULE SmokeLane ------------------------------
(***************************************************************************)
(* The smoke test of the per-change lane: sut/smoke/render_seed.py turns   *)
(* the command manifest into a guest script, run_guest.sh boots it, and    *)
(* sut/smoke/parse_transcript.py judges the transcript and the result.     *)
(***************************************************************************)
EXTENDS SerialBoot, Integers

CONSTANTS Commands,   \* the manifest: [id, expect_rc, mode, expect], in order
          Height,     \* bound: lines a command prints, blank lines after its last
          Outcomes,   \* what a command may do, by id: [rc, out], out[1 .. Height]
          Carries     \* the expected texts within each text and each argv, by id

ASSUME CommandsAssumption ==
  /\ Commands \in Seq([id : STRING, expect_rc : Int, expect : STRING,
                       mode : {"none", "equals", "contains"}])
  /\ \A i, j \in DOMAIN Commands : Commands[i].id = Commands[j].id => i = j

ASSUME OutcomesAssumption ==
  /\ Height \in Nat \ {0}
  /\ \A c \in DOMAIN Commands : \A o \in Outcomes[Commands[c].id] :
       \A k \in 1 .. Height : o.out[k].k = "out"

VARIABLES step,       \* the job's next step
          did,        \* history: what each command did in the guest
          verdict     \* "none", or the conclusion

laneVars == <<step, did, verdict>>
vars == <<bootVars, laneVars>>

-----------------------------------------------------------------------------
(* The lines of the smoke transcript. *)

MBegin == [k |-> "mbegin"]
MEnd == [k |-> "mend", ok |-> 1]
CmdBegin(id) == [k |-> "begin", id |-> id]
CmdEnd(id, rc) == [k |-> "end", id |-> id, rc |-> rc]
(* A line of output; inner is a sentinel or marker that occurs within it,  *)
(* or Junk, and alone says that it is the whole line.                      *)
Out(text, inner, alone) == [k |-> "out", text |-> text, inner |-> inner, alone |-> alone]
Marker == [k |-> "marker"]     \* one of shutdown.expect_console_markers_any
Junk == [k |-> "junk"]         \* matches nothing and carries no expected text

(* The rendered script: BEGIN, output and END of each command in order,    *)
(* then END ok=1 whatever the commands returned.                           *)
SmokeScript(d) ==
  <<MBegin>> \o
  [i \in 1 .. (Height + 2) * Len(Commands) |->
     LET c == ((i - 1) \div (Height + 2)) + 1
         k == (i - 1) % (Height + 2)
     IN CASE k = 0 -> CmdBegin(Commands[c].id)
          [] k \in 1 .. Height -> d[c].out[k]
          [] OTHER -> CmdEnd(Commands[c].id, d[c].rc)] \o
  <<MEnd>>

-----------------------------------------------------------------------------
(* parse_transcript.py.  Its sentinel patterns are anchored: a sentinel    *)
(* within a line of output is not one, but a line of output that is all a  *)
(* sentinel is one, whoever wrote it.                                      *)

(* What a pattern finds that is not anchored. *)
MatchWithin(line) == IF line.k = "out" THEN line.inner ELSE line

Match(line) ==
  IF line.k # "out" THEN line ELSE IF line.alone THEN line.inner ELSE Junk

IsBegin(i) == Match(console[i]).k = "begin"
IdAt(i) == Match(console[i]).id
EndsBlock(j, i) == Match(console[j]).k = "end" /\ IdAt(j) = IdAt(i)

(* A block is <<line of BEGIN, line of END>>: the END is the first of its  *)
(* id, and a block that is never closed ends after the last line.          *)
Closes(j, i) ==
  /\ i < j /\ \A m \in i + 1 .. j - 1 : ~ EndsBlock(m, i)
  /\ j \in DOMAIN console => EndsBlock(j, i)

Blocks ==
  {b \in (1 .. Len(console)) \X (1 .. Len(console) + 1) : IsBegin(b[1]) /\ Closes(b[2], b[1])}

(* Every BEGIN opens a block, except within one that is open. *)
IsParse(blocks) ==
  \A i \in DOMAIN console : IsBegin(i) =>
    ((\E b \in blocks : b[1] = i) <=> ~ \E b \in blocks : b[1] < i /\ i < b[2])

parse_commands == CHOOSE blocks \in SUBSET Blocks : IsParse(blocks)

IsBlank(line) == line.k = "out" /\ line.text = "blank"

(* What strip() leaves of the lines is exactly this text. *)
StripsTo(lines, text) ==
  LET shown == {k \in DOMAIN lines : ~ IsBlank(lines[k])}
  IN IF text = "blank" THEN shown = {}
     ELSE \E k \in shown : shown = {k} /\ lines[k].k = "out" /\ lines[k].text = text

(* Mutant: a searched text must be the whole output. *)
MeetsWholeText(cmd, lines) ==
  cmd.mode # "none" =>
    \E k \in DOMAIN lines : lines[k].k = "out" /\ lines[k].text = cmd.expect

(* A BEGIN shows the argv of its command. *)
Carried(line) ==
  CASE line.k = "out" -> Carries[line.text]
    [] line.k = "begin" -> Carries[line.id]
    [] OTHER -> {}

MeetsText(cmd, lines) ==
  CASE cmd.mode = "none" -> TRUE
    [] cmd.mode = "equals" -> StripsTo(lines, cmd.expect)
    [] cmd.mode = "contains" -> \E k \in DOMAIN lines : cmd.expect \in Carried(lines[k])

(* A later block of an id replaces an earlier one, and a block that was    *)
(* never closed has no rc.                                                 *)
CommandOK(cmd, blocks) ==
  \E b \in blocks :
    /\ IdAt(b[1]) = cmd.id
    /\ \A later \in blocks : IdAt(later[1]) = cmd.id => later[1] <= b[1]
    /\ b[2] <= Len(console)
    /\ Match(console[b[2]]).rc = cmd.expect_rc
    /\ MeetsText(cmd, SubSeq(console, b[1] + 1, b[2] - 1))

Appears(line) == \E i \in DOMAIN console : Match(console[i]) = line

(* first_match: a marker is searched for within a line. *)
MarkerSeen == \E i \in DOMAIN console : Marker \in {console[i], MatchWithin(console[i])}

(* Mutant: the console marker alone is a shutdown. *)
shutdown_seen == MarkerSeen

shutdown_ok ==
  /\ MarkerSeen
  /\ ~ run_result.timed_out
  /\ run_result.exit_code = 0

passed ==
  /\ Appears(MBegin)
  /\ \A c \in DOMAIN Commands : CommandOK(Commands[c], parse_commands)
  /\ Appears(MEnd)
  /\ shutdown_ok

-----------------------------------------------------------------------------
Init ==
  /\ BootInit
  /\ step = "render" /\ did = << >> /\ verdict = "none"

(* render_seed.py writes the guest script, and xorriso the seed image, or  *)
(* one of them fails.                                                      *)
RenderSeed ==
  /\ step = "render"
  /\ \/ step' = "boot" /\ UNCHANGED verdict
     \/ step' = "end" /\ verdict' = "red"
  /\ UNCHANGED <<did, bootVars>>

Behaviours ==
  {d \in [DOMAIN Commands -> UNION {Outcomes[Commands[c].id] : c \in DOMAIN Commands}] :
     \A c \in DOMAIN Commands : d[c] \in Outcomes[Commands[c].id]}

BootGuest ==
  /\ step = "boot" /\ step' = "booting"
  /\ \/ \E d \in Behaviours : did' = d /\ StartBoot(SmokeScript(d))
     \/ RefuseBoot /\ UNCHANGED did
  /\ UNCHANGED verdict

(* A line arrives whole, or broken by another writer of the console. *)
GuestWrites ==
  /\ sent < Len(script)
  /\ \E seen \in {script[sent + 1], Junk} : WriteLine(seen)
  /\ UNCHANGED laneVars

GuestOther ==
  /\ \/ WriteNoise(Junk)
     \/ ScriptEnds
     \/ \E seen \in {Marker, Junk} : PowerDown(seen)
     \/ SystemOff
     \/ GuestResets
     \/ QemuDies
  /\ UNCHANGED laneVars

HostProgress == HostStep /\ UNCHANGED laneVars

BootReturns ==
  /\ step = "booting" /\ BootReturned
  /\ step' = "parse"
  /\ UNCHANGED <<did, verdict, bootVars>>

(* Without a run-result.json the parser cannot even start. *)
ParseTranscript ==
  /\ step = "parse" /\ step' = "end"
  /\ verdict' = IF run_result # NoResult /\ passed THEN "green" ELSE "red"
  /\ UNCHANGED <<did, bootVars>>

JobStep == RenderSeed \/ BootGuest \/ BootReturns \/ ParseTranscript

JobCancelled ==
  /\ step # "end" /\ step' = "end" /\ verdict' = "cancelled"
  /\ UNCHANGED <<did, bootVars>>

Ended == step = "end" /\ UNCHANGED vars

Next ==
  \/ step # "end" /\ (GuestWrites \/ GuestOther \/ HostProgress)
  \/ JobStep
  \/ JobCancelled
  \/ Ended

(* As in the corpus lanes: only the host makes progress for certain. *)
Fairness == WF_vars(step # "end" /\ HostProgress) /\ WF_vars(JobStep)

Spec == Init /\ [][Next]_vars /\ Fairness

-----------------------------------------------------------------------------
(* Properties. *)

(* The type invariant. *)
TypeOK ==
  /\ BootTypeOK
  /\ Len(console) <= Len(script) + MaxNoise + 1
  /\ did # << >> => \A c \in DOMAIN Commands : did[c] \in Outcomes[Commands[c].id]
  /\ step \in {"render", "boot", "booting", "parse", "end"}
  /\ verdict \in {"none", "green", "red", "cancelled"}

(* What the manifest expects of a command, of what the guest really did.   *)
Met(c) ==
  LET text(k) == did[c].out[k].text
      shown == {k \in 1 .. Height : text(k) # "blank"}
  IN /\ did[c].rc = Commands[c].expect_rc
     /\ Commands[c].mode = "equals" =>
          /\ \A k, m \in shown : k = m
          /\ {text(k) : k \in shown} = {Commands[c].expect} \ {"blank"}
     /\ Commands[c].mode = "contains" =>
          \E k \in 1 .. Height : Commands[c].expect \in Carries[text(k)]

(* The sentinels that a command itself prints, each as a whole line. *)
Printed(c) == {did[c].out[k].inner : k \in {m \in 1 .. Height : did[c].out[m].alone}}

(* Some command prints a BEGIN or an END of this one. *)
Forged(c) ==
  \E e \in DOMAIN Commands : \E s \in Printed(e) :
    s.k \in {"begin", "end"} /\ s.id = Commands[c].id

(* A command prints its own END. *)
ClosesItself(c) == \E s \in Printed(c) : s.k = "end" /\ s.id = Commands[c].id

(* The guest ended the machine by itself. *)
GuestEnded == script # << >> /\ guest \in {"halted", "reset"} /\ exit_code = 0

(* The guest ran the whole script and did all that the manifest expects.   *)
Done == GuestEnded /\ sent = Len(script) /\ \A c \in DOMAIN Commands : Met(c)

Good ==
  /\ GuestEnded
  /\ sent = Len(script) \/ \E c \in DOMAIN Commands : MEnd \in Printed(c)
  /\ \A c \in DOMAIN Commands : Met(c) \/ Forged(c)

(* A green smoke test means that neither the timeout nor a crash ended     *)
(* QEMU, that every command of the manifest whose sentinels no command     *)
(* prints as a whole line really did in the guest what the manifest        *)
(* expects, and that the script ran to its end unless a command prints     *)
(* that line; however the transcript was broken, and whatever sentinels    *)
(* occur within the lines of the output.                                   *)
GreenMeansMet == verdict = "green" => Good

(* Nothing fell into a command's block. *)
BlocksUndisturbed ==
  \A i, j \in DOMAIN console :
    (console[i].k \in {"begin", "out"} /\ i < j /\ console[j] = Junk) =>
       \E m \in i + 1 .. j - 1 : console[m].k = "end"

(* Every line of the script has come through somewhere, and a marker. *)
Intact ==
  /\ \A i \in DOMAIN script : \E j \in DOMAIN console : console[j] = script[i]
  /\ \E j \in DOMAIN console : console[j] = Marker

(* The smoke test is red only for a reason: a guest that did everything    *)
(* passes, with kernel messages between the blocks of its transcript, if   *)
(* the host could record how its boot ended.  No sentinel that a command   *)
(* prints spoils that, but its own END.                                    *)
RedMeansCause ==
  verdict = "red" =>
    \/ ~ Done \/ ~ Intact \/ ~ BlocksUndisturbed \/ qemu = "unrecorded"
    \/ \E c \in DOMAIN Commands : ClosesItself(c)

(* The lane implements the gate. *)
G == INSTANCE Gate WITH Verdicts <- {"red", "cancelled"}, good <- Good, verdict <- verdict
ImplementsGate == G!Spec

(* The power-off as the command manifest describes it: QEMU exits because  *)
(* the guest called PSCI SYSTEM_OFF.                                       *)
GreenMeansPoweredOff == verdict = "green" => guest = "halted"
=============================================================================

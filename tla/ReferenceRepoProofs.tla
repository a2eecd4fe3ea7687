------------------------ MODULE ReferenceRepoProofs -------------------------
(***************************************************************************)
(* However many versions, developers' pushes, dispatches and runs there    *)
(* are: what arrives on main, and what becomes of the runs.                *)
(***************************************************************************)
EXTENDS ReferenceRepo, SequenceTheorems, TLAPS

RefPhases == {"queued", "built", "failed", "unchanged", "published", "rejected"}
RefRunsOf(n) == [dir : Dirs, base : 1 .. n, env : Envs \cup {"none"}, phase : RefPhases]

CIEvents == {"push", "schedule", "workflow_dispatch"}
CIStatuses == {"pending", "running", "superseded", "green", "red"}
CIRunsOf(n) == [sha : 1 .. n, event : CIEvents, status : CIStatuses]

(* A native run that succeeded ran somewhere. *)
BuiltSomewhere ==
  \A r \in DOMAIN refRuns : refRuns[r].phase = "built" => refRuns[r].env \in Envs

(* Run r may still be, or should have been, the one that makes the head's  *)
(* bundle in d: it is for the head's sources, and nothing was published in *)
(* d since its commit.                                                     *)
Answers(r, d) ==
  /\ refRuns[r].dir = d
  /\ refRuns[r].phase \in {"queued", "built", "failed", "rejected"}
  /\ main[refRuns[r].base].src[d] = Tip.src[d]
  /\ main[refRuns[r].base].bundle[d] = Tip.bundle[d]

StaleIsAnswered ==
  \A d \in Dirs : Tip.bundle[d].of # Tip.src[d] => \E r \in DOMAIN refRuns : Answers(r, d)

(* SupersededByNewer, of any sequence of runs. *)
NewerIn(runs) ==
  \A r \in InPhase(runs, "superseded") :
    \E n \in DOMAIN runs :
      n > r /\ runs[n].status # "superseded" /\ runs[n].sha >= runs[r].sha

(* The inductive invariant, in parts: main, the native runs, the CI runs.  *)
MainInv == main \in Seq(Commits) /\ main # << >> /\ ArrivesBound /\ PublishesOnlyItsBundle
RefInv == refRuns \in Seq(RefRunsOf(Len(main))) /\ BuiltSomewhere /\ StaleIsAnswered
CIInv == ciRuns \in Seq(CIRunsOf(Len(main))) /\ NewerIn(ciRuns)
BoundInv == pushes \in 0 .. MaxPushes /\ dispatches \in 0 .. MaxDispatches

IInv == MainInv /\ RefInv /\ CIInv /\ BoundInv

-----------------------------------------------------------------------------
(* Main. *)

(* The head of main is a commit. *)
LEMMA TipIsCommit ==
  ASSUME main \in Seq(Commits), main # << >>
  PROVE  /\ Len(main) \in Nat \ {0} /\ DOMAIN main = 1 .. Len(main)
         /\ Tip \in Commits /\ \A i \in 1 .. Len(main) : main[i] \in Commits
<1>1. Len(main) \in Nat \ {0} /\ DOMAIN main = 1 .. Len(main)
  BY EmptySeq, LenProperties
<1>2. \A i \in 1 .. Len(main) : main[i] \in Commits
  BY ElementOfSeq
<1> QED
  BY <1>1, <1>2 DEF Tip

(* The fields of a commit. *)
LEMMA CommitType ==
  ASSUME NEW c \in Commits
  PROVE  /\ c.src \in [Dirs -> Versions] /\ c.sut \in Suts /\ c.author \in {"dev", "bot"}
         /\ c.bundle \in [Dirs -> Bundles]
         /\ c = [src |-> c.src, sut |-> c.sut, author |-> c.author, bundle |-> c.bundle]
  BY DEF Commits

(* A commit on top of main keeps the invariant of main if it keeps to it.  *)
LEMMA MainGrows ==
  ASSUME MainInv, NEW c \in Commits, main' = Append(main, c),
         \A d \in Dirs : c.bundle[d] # Tip.bundle[d] => c.bundle[d].of = c.src[d],
         c.author = "bot" =>
           /\ c.src = Tip.src /\ c.sut = Tip.sut
           /\ \E d \in Dirs : [c.bundle EXCEPT ![d] = Tip.bundle[d]] = Tip.bundle
  PROVE  /\ MainInv'
         /\ Len(main') = Len(main) + 1 /\ Tip' = c
         /\ \A i \in 1 .. Len(main) : main'[i] = main[i]
<1>1. /\ main \in Seq(Commits) /\ Len(main) \in Nat \ {0} /\ DOMAIN main = 1 .. Len(main)
  BY TipIsCommit DEF MainInv
<1>2. /\ main' \in Seq(Commits) /\ main' # << >> /\ Len(main') = Len(main) + 1
      /\ \A i \in 1 .. Len(main) : main'[i] = main[i]
      /\ main'[Len(main) + 1] = c
  BY <1>1, AppendProperties
<1>3. Tip' = c
  BY <1>2 DEF Tip
<1>4. ASSUME NEW i \in 2 .. Len(main')
      PROVE  \/ /\ i \in 2 .. Len(main)
                /\ main'[i] = main[i] /\ main'[i - 1] = main[i - 1]
             \/ main'[i] = c /\ main'[i - 1] = Tip
  BY <1>1, <1>2 DEF Tip
<1>5. ArrivesBound'
  BY <1>4 DEF MainInv, ArrivesBound
<1>6. PublishesOnlyItsBundle'
  <2> DEFINE Own(new, old) ==
               new.author = "bot" =>
                 /\ new.src = old.src /\ new.sut = old.sut
                 /\ \E d \in Dirs : [new.bundle EXCEPT ![d] = old.bundle[d]] = old.bundle
  <2>1. Own(c, Tip) /\ \A i \in 2 .. Len(main) : Own(main[i], main[i - 1])
    BY DEF MainInv, PublishesOnlyItsBundle
  <2> HIDE DEF Own
  <2>2. \A i \in 2 .. Len(main') : Own(main'[i], main'[i - 1])
    BY <1>4, <2>1
  <2> QED
    BY <2>2 DEF Own, PublishesOnlyItsBundle
<1> QED
  BY <1>2, <1>3, <1>5, <1>6 DEF MainInv

(* Main stays as it is. *)
LEMMA MainStays ==
  ASSUME MainInv, UNCHANGED main
  PROVE  /\ MainInv' /\ Tip' = Tip /\ Len(main') = Len(main) /\ Len(main') >= Len(main)
         /\ \A i \in 1 .. Len(main) : main'[i] = main[i]
<1>1. ArrivesBound'
  BY DEF MainInv, ArrivesBound
<1>2. PublishesOnlyItsBundle'
  BY DEF MainInv, PublishesOnlyItsBundle
<1>3. Len(main) \in Nat
  BY TipIsCommit DEF MainInv
<1> QED
  BY <1>1, <1>2, <1>3 DEF MainInv, Tip

-----------------------------------------------------------------------------
(* The runs of generic-ci.yml. *)

(* A new run takes the place of the one that waits. *)
LEMMA EnqueueType ==
  ASSUME NEW n \in Nat, NEW runs \in Seq(CIRunsOf(n)), NewerIn(runs),
         NEW sha \in 1 .. n, \A i \in DOMAIN runs : runs[i].sha <= sha,
         NEW event \in CIEvents
  PROVE  /\ Enqueue(runs, sha, event) \in Seq(CIRunsOf(n))
         /\ NewerIn(Enqueue(runs, sha, event))
<1> DEFINE kept == [i \in DOMAIN runs |->
                      IF runs[i].status = "pending"
                      THEN [runs[i] EXCEPT !.status = "superseded"] ELSE runs[i]]
           new == [sha |-> sha, event |-> event,
                   status |-> IF InPhase(runs, "running") # {} THEN "pending" ELSE "running"]
           q == Append(kept, new)
<1>1. Len(runs) \in Nat /\ DOMAIN runs = 1 .. Len(runs)
  BY LenProperties
<1>2. ASSUME NEW i \in 1 .. Len(runs)
      PROVE  kept[i] \in CIRunsOf(n) /\ kept[i].sha = runs[i].sha
  <2>1. runs[i] \in CIRunsOf(n)
    BY ElementOfSeq
  <2> QED
    BY <1>1, <2>1 DEF CIRunsOf, CIStatuses
<1>3. kept \in [1 .. Len(runs) -> CIRunsOf(n)]
  BY <1>1, <1>2
<1>4. kept \in Seq(CIRunsOf(n)) /\ Len(kept) = Len(runs)
  BY <1>1, <1>3, SeqDef, LenProperties
<1>5. new \in CIRunsOf(n) /\ new.sha = sha /\ new.status # "superseded"
  BY DEF CIRunsOf, CIStatuses
<1>6. Enqueue(runs, sha, event) = q
  BY DEF Enqueue
<1> HIDE DEF kept, new
<1>7. /\ q \in Seq(CIRunsOf(n)) /\ Len(q) = Len(runs) + 1
      /\ \A i \in 1 .. Len(runs) : q[i] = kept[i]
      /\ q[Len(runs) + 1] = new
  BY <1>4, <1>5, AppendProperties
<1>8. DOMAIN q = 1 .. Len(runs) + 1
  BY <1>7, LenProperties
<1> HIDE DEF q
<1>9. ASSUME NEW r \in InPhase(q, "superseded")
      PROVE  \E k \in DOMAIN q :
               k > r /\ q[k].status # "superseded" /\ q[k].sha >= q[r].sha
  <2>1. r \in 1 .. Len(runs)
    BY <1>1, <1>5, <1>7, <1>8 DEF InPhase
  <2>2. q[r].sha = runs[r].sha /\ runs[r].sha <= sha /\ runs[r].sha \in Nat
    <3>1. runs[r] \in CIRunsOf(n)
      BY <2>1, ElementOfSeq
    <3>2. runs[r].sha \in 1 .. n /\ r \in DOMAIN runs
      BY <1>1, <2>1, <3>1 DEF CIRunsOf
    <3> QED
      BY <1>2, <1>7, <2>1, <3>2
  <2>3. Len(runs) + 1 \in DOMAIN q /\ Len(runs) + 1 > r
    BY <1>1, <1>8, <2>1
  <2> QED
    BY <1>5, <1>7, <2>2, <2>3
<1> QED
  BY <1>6, <1>7, <1>9 DEF NewerIn

(* The run in progress comes to its result. *)
LEMMA FinishType ==
  ASSUME NEW n \in Nat, NEW runs \in Seq(CIRunsOf(n)), NewerIn(runs),
         NEW r \in InPhase(runs, "running"), NEW result \in {"green", "red"}
  PROVE  /\ Finish(runs, r, result) \in Seq(CIRunsOf(n))
         /\ NewerIn(Finish(runs, r, result))
<1> DEFINE f == Finish(runs, r, result)
<1>1. Len(runs) \in Nat /\ DOMAIN runs = 1 .. Len(runs) /\ DOMAIN f = 1 .. Len(runs)
  BY LenProperties DEF Finish
<1>2. ASSUME NEW i \in 1 .. Len(runs)
      PROVE  /\ f[i] \in CIRunsOf(n) /\ f[i].sha = runs[i].sha
             /\ f[i].status = "superseded" <=> runs[i].status = "superseded"
  <2>1. runs[i] \in CIRunsOf(n) /\ r \in DOMAIN runs /\ runs[r].status = "running"
    BY ElementOfSeq DEF InPhase
  <2>2. f[i] = IF i = r THEN [runs[i] EXCEPT !.status = result]
               ELSE IF runs[i].status = "pending" THEN [runs[i] EXCEPT !.status = "running"]
               ELSE runs[i]
    BY <1>1 DEF Finish
  <2> QED
    BY <2>1, <2>2 DEF CIRunsOf, CIStatuses
<1>3. f \in [1 .. Len(runs) -> CIRunsOf(n)]
  BY <1>1, <1>2 DEF Finish
<1>4. f \in Seq(CIRunsOf(n))
  BY <1>1, <1>3, SeqDef
<1> HIDE DEF f
<1>5. NewerIn(f)
  BY <1>1, <1>2 DEF NewerIn, InPhase
<1> QED
  BY <1>4, <1>5 DEF f

(* Runs are of main, and still are when it has grown. *)
LEMMA RunsStay ==
  ASSUME MainInv, RefInv, CIInv, NEW n \in Nat, n >= Len(main)
  PROVE  /\ refRuns \in Seq(RefRunsOf(n)) /\ ciRuns \in Seq(CIRunsOf(n))
         /\ \A i \in DOMAIN ciRuns : ciRuns[i].sha \in 1 .. Len(main)
<1>1. Len(main) \in Nat
  BY TipIsCommit DEF MainInv
<1>2. RefRunsOf(Len(main)) \subseteq RefRunsOf(n) /\ CIRunsOf(Len(main)) \subseteq CIRunsOf(n)
  BY <1>1 DEF RefRunsOf, CIRunsOf
<1>3. refRuns \in Seq(RefRunsOf(n)) /\ ciRuns \in Seq(CIRunsOf(n))
  BY <1>2, SeqMonotonic DEF RefInv, CIInv
<1>4. ASSUME NEW i \in DOMAIN ciRuns
      PROVE  ciRuns[i].sha \in 1 .. Len(main)
  <2>1. ciRuns[i] \in CIRunsOf(Len(main))
    BY LenProperties, ElementOfSeq DEF CIInv
  <2> QED
    BY <2>1 DEF CIRunsOf
<1> QED
  BY <1>3, <1>4

-----------------------------------------------------------------------------
(* The native runs. *)

(* A run answers for a directory while its own phase, and what the head    *)
(* has in that directory, stay as they are.                                *)
LEMMA AnswersKept ==
  ASSUME MainInv, RefInv, NEW d \in Dirs, NEW r \in DOMAIN refRuns, Answers(r, d),
         \A i \in 1 .. Len(main) : main'[i] = main[i],
         Tip'.src[d] = Tip.src[d], Tip'.bundle[d] = Tip.bundle[d],
         refRuns'[r].dir = refRuns[r].dir, refRuns'[r].base = refRuns[r].base,
         refRuns'[r].phase \in {"queued", "built", "failed", "rejected"}
  PROVE  Answers(r, d)'
<1>1. refRuns[r].base \in 1 .. Len(main)
  <2>1. refRuns[r] \in RefRunsOf(Len(main))
    BY LenProperties, ElementOfSeq DEF RefInv
  <2> QED
    BY <2>1 DEF RefRunsOf
<1> QED
  BY <1>1 DEF Answers

(* New runs join the ones there are. *)
LEMMA RunsJoin ==
  ASSUME MainInv, RefInv, CIInv, Len(main') \in Nat, Len(main') >= Len(main),
         \A i \in 1 .. Len(main) : main'[i] = main[i],
         NEW fresh \in Seq(RefRunsOf(Len(main'))), refRuns' = refRuns \o fresh,
         \A k \in DOMAIN fresh : fresh[k].phase = "queued",
         \A d \in Dirs :
           \/ Tip'.src[d] = Tip.src[d] /\ Tip'.bundle[d] = Tip.bundle[d]
           \/ \E k \in DOMAIN fresh : fresh[k].dir = d /\ main'[fresh[k].base] = Tip'
  PROVE  RefInv'
<1>1. refRuns \in Seq(RefRunsOf(Len(main')))
  BY RunsStay
<1>2. /\ Len(refRuns) \in Nat /\ DOMAIN refRuns = 1 .. Len(refRuns)
      /\ Len(fresh) \in Nat /\ DOMAIN fresh = 1 .. Len(fresh)
  BY <1>1, LenProperties
<1>3. /\ refRuns' \in Seq(RefRunsOf(Len(main')))
      /\ Len(refRuns') = Len(refRuns) + Len(fresh)
      /\ \A i \in 1 .. Len(refRuns) + Len(fresh) :
           refRuns'[i] = IF i <= Len(refRuns) THEN refRuns[i] ELSE fresh[i - Len(refRuns)]
  BY <1>1, ConcatProperties
<1>4. DOMAIN refRuns' = 1 .. Len(refRuns) + Len(fresh)
  BY <1>3, LenProperties
<1>5. /\ \A i \in DOMAIN refRuns : i \in DOMAIN refRuns' /\ refRuns'[i] = refRuns[i]
      /\ \A k \in DOMAIN fresh : /\ k + Len(refRuns) \in DOMAIN refRuns'
                               /\ refRuns'[k + Len(refRuns)] = fresh[k]
      /\ \A i \in DOMAIN refRuns' :
           \/ i \in DOMAIN refRuns
           \/ i - Len(refRuns) \in DOMAIN fresh /\ refRuns'[i] = fresh[i - Len(refRuns)]
  BY <1>2, <1>3, <1>4
<1>6. BuiltSomewhere'
  BY <1>5 DEF RefInv, BuiltSomewhere
<1>7. ASSUME NEW d \in Dirs, Tip'.bundle[d].of # Tip'.src[d]
      PROVE  \E r \in DOMAIN refRuns' : Answers(r, d)'
  <2>1. CASE Tip'.src[d] = Tip.src[d] /\ Tip'.bundle[d] = Tip.bundle[d]
    <3>1. PICK r \in DOMAIN refRuns : Answers(r, d)
      BY <1>7, <2>1 DEF RefInv, StaleIsAnswered
    <3>2. r \in DOMAIN refRuns' /\ refRuns'[r] = refRuns[r]
      BY <1>5
    <3>3. refRuns'[r].phase \in {"queued", "built", "failed", "rejected"}
      BY <3>1, <3>2 DEF Answers
    <3> QED
      BY <2>1, <3>1, <3>2, <3>3, AnswersKept
  <2>2. CASE \E k \in DOMAIN fresh : fresh[k].dir = d /\ main'[fresh[k].base] = Tip'
    <3>1. PICK k \in DOMAIN fresh : fresh[k].dir = d /\ main'[fresh[k].base] = Tip'
      BY <2>2
    <3>2. PICK j \in DOMAIN refRuns' : refRuns'[j] = fresh[k]
      BY <1>5
    <3>3. Answers(j, d)'
      BY <3>1, <3>2 DEF Answers
    <3> QED
      BY <3>2, <3>3
  <2> QED
    BY <2>1, <2>2
<1>8. StaleIsAnswered'
  BY <1>7 DEF StaleIsAnswered
<1> QED
  BY <1>3, <1>6, <1>8 DEF RefInv

(* One run changes its phase. *)
LEMMA RunMoves ==
  ASSUME MainInv, RefInv, CIInv, MainInv', Len(main') >= Len(main),
         \A i \in 1 .. Len(main) : main'[i] = main[i],
         NEW r \in DOMAIN refRuns, NEW new \in RefRunsOf(Len(main)),
         refRuns' = [refRuns EXCEPT ![r] = new],
         new.dir = refRuns[r].dir, new.base = refRuns[r].base,
         new.phase = "built" => new.env \in Envs,
         \A d \in Dirs :
           \/ Tip'.bundle[d].of = Tip'.src[d]
           \/ /\ Tip'.src[d] = Tip.src[d] /\ Tip'.bundle[d] = Tip.bundle[d]
              /\ Answers(r, d) => new.phase \in {"queued", "built", "failed", "rejected"}
  PROVE  RefInv'
<1>1. Len(main) \in Nat /\ Len(main') \in Nat
  BY TipIsCommit, LenProperties DEF MainInv
<1>2. refRuns \in Seq(RefRunsOf(Len(main'))) /\ new \in RefRunsOf(Len(main'))
  <2>1. refRuns \in Seq(RefRunsOf(Len(main')))
    BY <1>1, RunsStay
  <2>2. RefRunsOf(Len(main)) \subseteq RefRunsOf(Len(main'))
    BY <1>1 DEF RefRunsOf
  <2> QED
    BY <2>1, <2>2
<1>3. Len(refRuns) \in Nat /\ DOMAIN refRuns = 1 .. Len(refRuns)
  BY <1>2, LenProperties
<1>4. refRuns' \in Seq(RefRunsOf(Len(main'))) /\ DOMAIN refRuns' = DOMAIN refRuns
  BY <1>2, <1>3, ExceptSeq
<1>5. refRuns'[r] = new /\ \A i \in DOMAIN refRuns : i # r => refRuns'[i] = refRuns[i]
  OBVIOUS
<1>6. BuiltSomewhere'
  BY <1>4, <1>5 DEF RefInv, BuiltSomewhere
<1>7. ASSUME NEW d \in Dirs, Tip'.bundle[d].of # Tip'.src[d]
      PROVE  \E i \in DOMAIN refRuns' : Answers(i, d)'
  <2>1. /\ Tip'.src[d] = Tip.src[d] /\ Tip'.bundle[d] = Tip.bundle[d]
        /\ Answers(r, d) => new.phase \in {"queued", "built", "failed", "rejected"}
    BY <1>7
  <2>2. PICK i \in DOMAIN refRuns : Answers(i, d)
    BY <1>7, <2>1 DEF RefInv, StaleIsAnswered
  <2>3. /\ refRuns'[i].dir = refRuns[i].dir /\ refRuns'[i].base = refRuns[i].base
        /\ refRuns'[i].phase \in {"queued", "built", "failed", "rejected"}
    BY <1>5, <2>1, <2>2 DEF Answers
  <2> QED
    BY <1>4, <2>1, <2>2, <2>3, AnswersKept
<1>8. StaleIsAnswered'
  BY <1>7 DEF StaleIsAnswered
<1> QED
  BY <1>4, <1>6, <1>8 DEF RefInv

-----------------------------------------------------------------------------
(* The steps. *)

(* It holds of a repository as it is found. *)
LEMMA InitIInv == Init => IInv
<1> SUFFICES ASSUME Init
             PROVE  IInv
  OBVIOUS
<1>1. /\ main = <<FirstCommit>> /\ FirstCommit \in Commits
      /\ \A d \in Dirs : FirstCommit.bundle[d].of = FirstCommit.src[d]
  BY RepoAssumption DEF Init
<1>2. main \in Seq(Commits) /\ main # << >> /\ Len(main) = 1 /\ Tip = FirstCommit
  BY <1>1 DEF Tip
<1>3. MainInv
  BY <1>2 DEF MainInv, ArrivesBound, PublishesOnlyItsBundle
<1>4. refRuns \in Seq(RefRunsOf(Len(main))) /\ BuiltSomewhere
  BY DEF Init, BuiltSomewhere
<1>5. StaleIsAnswered
  BY <1>1, <1>2 DEF StaleIsAnswered
<1>6. CIInv
  BY DEF Init, CIInv, NewerIn, InPhase
<1>7. BoundInv
  BY RepoAssumption DEF Init, BoundInv
<1> QED
  BY <1>3, <1>4, <1>5, <1>6, <1>7 DEF IInv, RefInv

(* Every directory that changed gets a run for the commit that is pushed.  *)
LEMMA TriggeredRuns ==
  ASSUME MainInv, NEW changed \in SUBSET Dirs
  PROVE  /\ Triggered(changed) \in Seq(RefRunsOf(Len(main) + 1))
         /\ \A k \in DOMAIN Triggered(changed) : Triggered(changed)[k].phase = "queued"
         /\ \A d \in changed : \E k \in DOMAIN Triggered(changed) :
              /\ Triggered(changed)[k].dir = d
              /\ Triggered(changed)[k].base = Len(main) + 1
<1> DEFINE T == RefRunsOf(Len(main) + 1)
           s1 == IF "reference" \in changed THEN <<RefRun("reference")>> ELSE << >>
           s2 == IF "reference-valid" \in changed THEN <<RefRun("reference-valid")>> ELSE << >>
           q == s1 \o s2
           Fresh(run, d) == run.phase = "queued" /\ run.dir = d /\ run.base = Len(main) + 1
<1>1. Len(main) \in Nat
  BY TipIsCommit DEF MainInv
<1>2. \A d \in Dirs : RefRun(d) \in T /\ Fresh(RefRun(d), d)
  BY <1>1 DEF RefRun, RefRunsOf, RefPhases
<1> HIDE DEF T, Fresh
<1>3. /\ s1 \in Seq(T) /\ Len(s1) = (IF "reference" \in changed THEN 1 ELSE 0)
      /\ \A k \in 1 .. Len(s1) : s1[k] = RefRun("reference")
  BY <1>2 DEF Dirs
<1>4. /\ s2 \in Seq(T) /\ Len(s2) = (IF "reference-valid" \in changed THEN 1 ELSE 0)
      /\ \A k \in 1 .. Len(s2) : s2[k] = RefRun("reference-valid")
  BY <1>2 DEF Dirs
<1> HIDE DEF s1, s2
<1>5. /\ q \in Seq(T) /\ Len(q) = Len(s1) + Len(s2)
      /\ \A i \in 1 .. Len(s1) + Len(s2) :
           q[i] = IF i <= Len(s1) THEN s1[i] ELSE s2[i - Len(s1)]
  BY <1>3, <1>4, ConcatProperties
<1>6. DOMAIN q = 1 .. Len(q)
  BY <1>5, LenProperties
<1> HIDE DEF q
<1>7. \A k \in DOMAIN q : \E d \in Dirs : q[k] = RefRun(d)
  BY <1>3, <1>4, <1>5, <1>6 DEF Dirs
<1>8. \A d \in changed : \E k \in DOMAIN q : q[k] = RefRun(d)
  <2>1. CASE "reference" \in changed
    <3>1. 1 \in DOMAIN q /\ q[1] = RefRun("reference")
      BY <1>3, <1>4, <1>5, <1>6, <2>1
    <3>2. "reference-valid" \in changed => 2 \in DOMAIN q /\ q[2] = RefRun("reference-valid")
      BY <1>3, <1>4, <1>5, <1>6, <2>1
    <3> QED
      BY <3>1, <3>2 DEF Dirs
  <2>2. CASE "reference" \notin changed
    <3>1. "reference-valid" \in changed => 1 \in DOMAIN q /\ q[1] = RefRun("reference-valid")
      BY <1>3, <1>4, <1>5, <1>6, <2>2
    <3> QED
      BY <2>2, <3>1 DEF Dirs
  <2> QED
    BY <2>1, <2>2
<1>9. Triggered(changed) = q
  BY DEF Triggered, q, s1, s2
<1> QED
  BY <1>2, <1>5, <1>7, <1>8, <1>9 DEF T, Fresh

(* A developer pushes. *)
LEMMA PushStep == ASSUME IInv, Push PROVE IInv'
<1> USE DEF IInv
<1>1. PICK v \in [Dirs -> Versions], s \in Suts :
        LET changed == {d \in Dirs : v[d] # Tip.src[d]}
        IN /\ main' = Append(main, [Tip EXCEPT !.src = v, !.sut = s, !.author = "dev"])
           /\ refRuns' = refRuns \o Triggered(changed)
           /\ ciRuns' = IF s # Tip.sut \/ "reference" \in changed
                        THEN Enqueue(ciRuns, Len(main) + 1, "push") ELSE ciRuns
  BY DEF Push
<1> DEFINE changed == {d \in Dirs : v[d] # Tip.src[d]}
           c == [Tip EXCEPT !.src = v, !.sut = s, !.author = "dev"]
<1>2. Tip \in Commits /\ Len(main) \in Nat
  BY TipIsCommit DEF MainInv
<1>3. /\ c \in Commits /\ c.src = v /\ c.author = "dev" /\ c.bundle = Tip.bundle
  BY <1>2, CommitType DEF Commits
<1>4. /\ MainInv' /\ Len(main') = Len(main) + 1 /\ Tip' = c
      /\ \A i \in 1 .. Len(main) : main'[i] = main[i]
  <2> HIDE DEF c
  <2>1. main' = Append(main, c)
    BY <1>1 DEF c
  <2> QED
    BY <1>3, <2>1, MainGrows
<1> HIDE DEF c
<1>5. main'[Len(main')] = Tip'
  BY DEF Tip
<1>6. RefInv'
  <2> DEFINE fresh == Triggered(changed)
  <2>1. changed \in SUBSET Dirs /\ refRuns' = refRuns \o fresh
    BY <1>1
  <2>2. \A d \in Dirs : d \in changed \/ (Tip'.src[d] = Tip.src[d] /\ Tip'.bundle[d] = Tip.bundle[d])
    BY <1>3, <1>4
  <2> HIDE DEF changed
  <2>3. /\ fresh \in Seq(RefRunsOf(Len(main) + 1))
        /\ \A k \in DOMAIN fresh : fresh[k].phase = "queued"
        /\ \A d \in changed : \E k \in DOMAIN fresh :
             fresh[k].dir = d /\ fresh[k].base = Len(main) + 1
    BY <2>1, TriggeredRuns
  <2> HIDE DEF fresh
  <2>4. Len(main') = Len(main) + 1 /\ main'[Len(main) + 1] = Tip'
    BY <1>4, <1>5
  <2>5. /\ fresh \in Seq(RefRunsOf(Len(main')))
        /\ \A k \in DOMAIN fresh : fresh[k].phase = "queued"
        /\ \A d \in Dirs :
             \/ Tip'.src[d] = Tip.src[d] /\ Tip'.bundle[d] = Tip.bundle[d]
             \/ \E k \in DOMAIN fresh : fresh[k].dir = d /\ main'[fresh[k].base] = Tip'
    BY <2>2, <2>3, <2>4
  <2>6. Len(main') \in Nat /\ Len(main') >= Len(main)
    BY <1>2, <1>4
  <2> QED
    BY <1>4, <2>1, <2>5, <2>6, RunsJoin
<1>7. CIInv'
  <2>1. Len(main) + 1 \in Nat /\ Len(main) + 1 >= Len(main)
    BY <1>2
  <2>2. ciRuns \in Seq(CIRunsOf(Len(main) + 1)) /\ NewerIn(ciRuns)
    BY <2>1, RunsStay DEF CIInv
  <2>3. \A i \in DOMAIN ciRuns : ciRuns[i].sha <= Len(main) + 1
    <3>1. \A i \in DOMAIN ciRuns : ciRuns[i].sha \in 1 .. Len(main)
      BY <2>1, RunsStay
    <3> QED
      BY <1>2, <3>1
  <2>4. /\ Enqueue(ciRuns, Len(main) + 1, "push") \in Seq(CIRunsOf(Len(main) + 1))
        /\ NewerIn(Enqueue(ciRuns, Len(main) + 1, "push"))
    <3>1. "push" \in CIEvents /\ Len(main) + 1 \in 1 .. Len(main) + 1
      BY <1>2 DEF CIEvents
    <3> QED
      BY <2>1, <2>2, <2>3, <3>1, EnqueueType
  <2>5. ciRuns' = Enqueue(ciRuns, Len(main) + 1, "push") \/ ciRuns' = ciRuns
    BY <1>1
  <2> QED
    BY <1>4, <2>2, <2>4, <2>5 DEF CIInv
<1>8. BoundInv'
  BY RepoAssumption DEF Push, BoundInv
<1> QED
  BY <1>4, <1>6, <1>7, <1>8

(* A workflow is started on the head of main. *)
LEMMA DispatchStep == ASSUME IInv, Dispatch PROVE IInv'
<1> USE DEF IInv
<1>1. UNCHANGED <<main, pushes>> /\ MainInv' /\ BoundInv'
  BY RepoAssumption, MainStays DEF Dispatch, BoundInv
<1>2. Len(main) \in Nat \ {0} /\ Tip' = Tip
  BY <1>1, TipIsCommit DEF MainInv, Tip
<1>3. CASE UNCHANGED refRuns /\ \E event \in {"schedule", "workflow_dispatch"} :
             ciRuns' = Enqueue(ciRuns, Len(main), event)
  <2>1. RefInv'
    BY <1>1, <1>2, <1>3 DEF RefInv, BuiltSomewhere, StaleIsAnswered, Answers
  <2>2. PICK event \in CIEvents : ciRuns' = Enqueue(ciRuns, Len(main), event)
    BY <1>3 DEF CIEvents
  <2>3. \A i \in DOMAIN ciRuns : ciRuns[i].sha <= Len(main)
    <3>1. \A i \in DOMAIN ciRuns : ciRuns[i].sha \in 1 .. Len(main)
      BY <1>2, RunsStay
    <3> QED
      BY <1>2, <3>1
  <2>4. ciRuns' \in Seq(CIRunsOf(Len(main))) /\ NewerIn(ciRuns')
    <3>1. Len(main) \in 1 .. Len(main)
      BY <1>2
    <3> QED
      BY <1>2, <2>2, <2>3, <3>1, EnqueueType DEF CIInv
  <2> QED
    BY <1>1, <2>1, <2>4 DEF CIInv
<1>4. CASE UNCHANGED ciRuns /\ \E d \in Dirs :
             refRuns' = Append(refRuns, [RefRun(d) EXCEPT !.base = Len(main)])
  <2>1. PICK d \in Dirs : refRuns' = Append(refRuns, [RefRun(d) EXCEPT !.base = Len(main)])
    BY <1>4
  <2> DEFINE run == [RefRun(d) EXCEPT !.base = Len(main)]
             fresh == <<run>>
  <2>2. run \in RefRunsOf(Len(main)) /\ run.phase = "queued"
    BY <1>2 DEF RefRun, RefRunsOf, RefPhases
  <2>3. refRuns' = refRuns \o fresh
    <3>1. refRuns \in Seq(RefRunsOf(Len(main)))
      BY DEF RefInv
    <3> HIDE DEF run
    <3> QED
      BY <2>1, <2>2, <3>1, AppendIsConcat DEF run
  <2>4. fresh \in Seq(RefRunsOf(Len(main'))) /\ \A k \in DOMAIN fresh : fresh[k].phase = "queued"
    <3> HIDE DEF run
    <3> QED
      BY <1>1, <2>2
  <2> HIDE DEF run, fresh
  <2>5. RefInv'
    BY <1>1, <1>2, <2>3, <2>4, RunsJoin
  <2> QED
    BY <1>1, <1>4, <2>5 DEF CIInv
<1> QED
  BY <1>1, <1>3, <1>4 DEF Dispatch

(* A native run succeeds or fails. *)
LEMMA BuildStep == ASSUME IInv, BuildReference PROVE IInv'
<1> USE DEF IInv
<1>1. /\ UNCHANGED <<main, ciRuns, pushes, dispatches>>
      /\ MainInv' /\ CIInv' /\ BoundInv' /\ Tip' = Tip
  BY MainStays DEF BuildReference, CIInv, BoundInv
<1>2. PICK r \in DOMAIN refRuns :
        \/ \E e \in Envs : refRuns' = [refRuns EXCEPT ![r].phase = "built", ![r].env = e]
        \/ refRuns' = [refRuns EXCEPT ![r].phase = "failed"]
  BY DEF BuildReference
<1>3. refRuns[r] \in RefRunsOf(Len(main))
  BY LenProperties, ElementOfSeq DEF RefInv
<1>4. PICK new \in RefRunsOf(Len(main)) :
        /\ refRuns' = [refRuns EXCEPT ![r] = new]
        /\ new.dir = refRuns[r].dir /\ new.base = refRuns[r].base
        /\ new.phase \in {"built", "failed"} /\ (new.phase = "built" => new.env \in Envs)
  <2>1. ASSUME NEW e \in Envs, refRuns' = [refRuns EXCEPT ![r].phase = "built", ![r].env = e]
        PROVE  \E new \in RefRunsOf(Len(main)) :
                 /\ refRuns' = [refRuns EXCEPT ![r] = new]
                 /\ new.dir = refRuns[r].dir /\ new.base = refRuns[r].base
                 /\ new.phase \in {"built", "failed"} /\ (new.phase = "built" => new.env \in Envs)
    <3> DEFINE new == [refRuns[r] EXCEPT !.phase = "built", !.env = e]
    <3>1. /\ new \in RefRunsOf(Len(main)) /\ new.phase = "built" /\ new.env = e
          /\ new.dir = refRuns[r].dir /\ new.base = refRuns[r].base
      BY <1>3 DEF RefRunsOf, RefPhases
    <3>2. refRuns' = [refRuns EXCEPT ![r] = new]
      BY <2>1
    <3> HIDE DEF new
    <3> QED
      BY <3>1, <3>2
  <2>2. ASSUME refRuns' = [refRuns EXCEPT ![r].phase = "failed"]
        PROVE  \E new \in RefRunsOf(Len(main)) :
                 /\ refRuns' = [refRuns EXCEPT ![r] = new]
                 /\ new.dir = refRuns[r].dir /\ new.base = refRuns[r].base
                 /\ new.phase \in {"built", "failed"} /\ (new.phase = "built" => new.env \in Envs)
    <3> DEFINE new == [refRuns[r] EXCEPT !.phase = "failed"]
    <3>1. /\ new \in RefRunsOf(Len(main)) /\ new.phase = "failed"
          /\ new.dir = refRuns[r].dir /\ new.base = refRuns[r].base
      BY <1>3 DEF RefRunsOf, RefPhases
    <3>2. refRuns' = [refRuns EXCEPT ![r] = new]
      BY <2>2
    <3> HIDE DEF new
    <3> QED
      BY <3>1, <3>2
  <2> QED
    BY <1>2, <2>1, <2>2
<1>6. Len(main') >= Len(main) /\ \A i \in 1 .. Len(main) : main'[i] = main[i]
  BY <1>1, TipIsCommit DEF MainInv
<1>7. RefInv'
  BY <1>1, <1>4, <1>6, RunMoves
<1> QED
  BY <1>1, <1>7

(* A bundle is published, or is not. *)
LEMMA PublishStep == ASSUME IInv, PublishReference PROVE IInv'
<1> USE DEF IInv
<1>1. PICK r \in DOMAIN refRuns : Publish(r)
  BY DEF PublishReference
<1> DEFINE run == refRuns[r]
           base == main[run.base]
           moved(phase) == [run EXCEPT !.phase = phase]
<1>2. /\ run \in RefRunsOf(Len(main)) /\ run.phase = "built" /\ run.env \in Envs
      /\ Len(main) \in Nat \ {0} /\ Tip \in Commits
  <2>1. run \in RefRunsOf(Len(main))
    BY LenProperties, ElementOfSeq DEF RefInv
  <2> QED
    BY <1>1, <2>1, TipIsCommit DEF Publish, RefInv, BuiltSomewhere, MainInv
<1>3. run.dir \in Dirs /\ run.base \in 1 .. Len(main) /\ base \in Commits
  BY <1>2, TipIsCommit DEF RefRunsOf, MainInv
<1>4. \A phase \in RefPhases :
        /\ moved(phase) \in RefRunsOf(Len(main)) /\ moved(phase).phase = phase
        /\ moved(phase).dir = run.dir /\ moved(phase).base = run.base
  BY <1>2 DEF RefRunsOf
<1>5. UNCHANGED <<ciRuns, pushes, dispatches>> /\ BoundInv'
  BY <1>1 DEF Publish, BoundInv
<1>6. CASE NothingToCommit(run) /\ UNCHANGED main /\ refRuns' = [refRuns EXCEPT ![r] = moved("unchanged")]
  <2>1. /\ MainInv' /\ CIInv' /\ Tip' = Tip /\ Len(main') >= Len(main)
        /\ \A i \in 1 .. Len(main) : main'[i] = main[i]
    BY <1>5, <1>6, MainStays DEF CIInv
  <2>2. base.bundle[run.dir].of = base.src[run.dir]
    BY <1>6 DEF NothingToCommit, Bundle
  <2>3. \A d \in Dirs : Answers(r, d) => Tip.bundle[d].of = Tip.src[d]
    BY <2>2 DEF Answers
  <2>4. \A d \in Dirs : Tip'.bundle[d].of = Tip'.src[d] \/ ~ Answers(r, d)
    BY <2>1, <2>3
  <2>5. "unchanged" \in RefPhases
    BY DEF RefPhases
  <2> DEFINE new == moved("unchanged")
  <2>6. /\ new \in RefRunsOf(Len(main)) /\ new.phase = "unchanged"
        /\ new.dir = refRuns[r].dir /\ new.base = refRuns[r].base
        /\ refRuns' = [refRuns EXCEPT ![r] = new]
    BY <1>4, <1>6, <2>5
  <2> HIDE DEF new
  <2>7. RefInv'
    BY <2>1, <2>4, <2>6, RunMoves
  <2> QED
    BY <1>5, <2>1, <2>7
<1>7. CASE UNCHANGED main /\ refRuns' = [refRuns EXCEPT ![r] = moved("rejected")]
  <2>1. /\ MainInv' /\ CIInv' /\ Tip' = Tip /\ Len(main') >= Len(main)
        /\ \A i \in 1 .. Len(main) : main'[i] = main[i]
    BY <1>5, <1>7, MainStays DEF CIInv
  <2>2. "rejected" \in RefPhases
    BY DEF RefPhases
  <2> DEFINE new == moved("rejected")
  <2>3. /\ new \in RefRunsOf(Len(main)) /\ new.phase = "rejected"
        /\ new.dir = refRuns[r].dir /\ new.base = refRuns[r].base
        /\ refRuns' = [refRuns EXCEPT ![r] = new]
    BY <1>4, <1>7, <2>2
  <2> HIDE DEF new
  <2>4. RefInv'
    BY <2>1, <2>3, RunMoves
  <2> QED
    BY <1>5, <2>1, <2>4
<1>8. CASE /\ run.base = Len(main) /\ main' = Append(main, Publication(run))
           /\ refRuns' = [refRuns EXCEPT ![r] = moved("published")]
  <2> DEFINE c == Publication(run)
  <2>1. base = Tip
    BY <1>8 DEF Tip
  <2>2. Bundle(run) \in Bundles /\ Bundle(run).of = Tip.src[run.dir]
    BY <1>2, <1>3, <2>1, CommitType DEF Bundle, Bundles
  <2>3. /\ c \in Commits /\ c.src = Tip.src /\ c.sut = Tip.sut
        /\ c.bundle = [Tip.bundle EXCEPT ![run.dir] = Bundle(run)]
    BY <1>2, <1>3, <2>1, <2>2, CommitType DEF Publication, Commits
  <2>4. Tip.bundle \in [Dirs -> Bundles]
    BY <1>2, CommitType
  <2> HIDE DEF c
  <2>5. \A d \in Dirs : c.bundle[d] = IF d = run.dir THEN Bundle(run) ELSE Tip.bundle[d]
    BY <2>3, <2>4
  <2>6. [c.bundle EXCEPT ![run.dir] = Tip.bundle[run.dir]] = Tip.bundle
    BY <1>3, <2>3, <2>4
  <2>7. /\ MainInv' /\ Len(main') = Len(main) + 1 /\ Tip' = c
        /\ \A i \in 1 .. Len(main) : main'[i] = main[i]
    <3>1. main' = Append(main, c)
      BY <1>8 DEF c
    <3>2. \A d \in Dirs : c.bundle[d] # Tip.bundle[d] => c.bundle[d].of = c.src[d]
      BY <2>2, <2>3, <2>5
    <3> QED
      BY <1>3, <2>3, <2>6, <3>1, <3>2, MainGrows
  <2>8. Len(main') \in Nat /\ Len(main') >= Len(main)
    BY <1>2, <2>7
  <2>9. CIInv'
    <3>1. ciRuns \in Seq(CIRunsOf(Len(main')))
      BY <2>8, RunsStay
    <3> QED
      BY <1>5, <3>1 DEF CIInv
  <2>10. "published" \in RefPhases
    BY DEF RefPhases
  <2> DEFINE new == moved("published")
  <2>11. /\ new \in RefRunsOf(Len(main)) /\ new.phase = "published"
         /\ new.dir = refRuns[r].dir /\ new.base = refRuns[r].base
         /\ refRuns' = [refRuns EXCEPT ![r] = new]
    BY <1>4, <1>8, <2>10
  <2>12. \A d \in Dirs :
          \/ Tip'.bundle[d].of = Tip'.src[d]
          \/ /\ Tip'.src[d] = Tip.src[d] /\ Tip'.bundle[d] = Tip.bundle[d]
             /\ ~ Answers(r, d)
    BY <2>2, <2>3, <2>5, <2>7 DEF Answers
  <2> HIDE DEF new
  <2>13. RefInv'
    BY <2>7, <2>8, <2>11, <2>12, RunMoves
  <2> QED
    BY <1>5, <2>7, <2>9, <2>13
<1> QED
  BY <1>1, <1>6, <1>7, <1>8 DEF Publish

(* A run of generic-ci.yml concludes. *)
LEMMA FinishStep == ASSUME IInv, FinishCI PROVE IInv'
<1> USE DEF IInv
<1>1. UNCHANGED <<main, refRuns, pushes, dispatches>> /\ Len(main) \in Nat
  BY TipIsCommit DEF FinishCI, MainInv
<1>2. MainInv' /\ RefInv' /\ BoundInv'
  BY <1>1, MainStays DEF RefInv, BuiltSomewhere, StaleIsAnswered, Answers, BoundInv
<1>3. PICK r \in InPhase(ciRuns, "running"), result \in {"green", "red"} :
        ciRuns' = Finish(ciRuns, r, result)
  BY DEF FinishCI
<1>4. ciRuns' \in Seq(CIRunsOf(Len(main))) /\ NewerIn(ciRuns')
  BY <1>1, <1>3, FinishType DEF CIInv
<1> QED
  BY <1>1, <1>2, <1>4 DEF CIInv

(* Every step preserves it. *)
LEMMA NextIInv == IInv /\ [Next]_vars => IInv'
<1> SUFFICES ASSUME IInv, [Next]_vars
             PROVE  IInv'
  OBVIOUS
<1>1. CASE UNCHANGED vars
  BY <1>1, MainStays DEF vars, IInv, RefInv, BuiltSomewhere, StaleIsAnswered, Answers,
                         CIInv, BoundInv
<1>2. CASE Next
  BY <1>1, <1>2, PushStep, DispatchStep, BuildStep, PublishStep, FinishStep DEF Next, Idle
<1> QED
  BY <1>1, <1>2

(* The inductive invariant is an invariant. *)
THEOREM Inductive == Spec => []IInv
  BY InitIInv, NextIInv, PTL DEF Spec

(* The repository and the runs on it keep their types. *)
THEOREM TypeCorrect == Spec => []TypeOK
<1>1. IInv => TypeOK
  BY DEF IInv, MainInv, RefInv, CIInv, BoundInv, TypeOK, RefRunsOf, CIRunsOf, RefPhases,
         CIEvents, CIStatuses
<1> QED
  BY <1>1, Inductive, PTL

(* Whatever the workflows and developers do to main at once, a bundle      *)
(* arrives only on the sources it was made from.                           *)
THEOREM BundlesArriveBound == Spec => []ArrivesBound
<1>1. IInv => ArrivesBound
  BY DEF IInv, MainInv
<1> QED
  BY <1>1, Inductive, PTL

(* A publication changes nothing but its own bundle.                       *)
THEOREM PublicationsAreNarrow == Spec => []PublishesOnlyItsBundle
<1>1. IInv => PublishesOnlyItsBundle
  BY DEF IInv, MainInv
<1> QED
  BY <1>1, Inductive, PTL

(* A head that is left with a bundle of other sources has a run to blame,  *)
(* a run for these very sources that failed or was overtaken.              *)
THEOREM StaleHeadExplained == Spec => []StaleHasCause
<1>1. IInv => StaleHasCause
  BY DEF IInv, RefInv, StaleIsAnswered, Answers, RefRunsDone, StaleHasCause
<1> QED
  BY <1>1, Inductive, PTL

(* Only a newer run of generic-ci.yml replaces one that waits.             *)
THEOREM DroppedForNewer == Spec => []SupersededByNewer
<1>1. IInv => SupersededByNewer
  BY DEF IInv, CIInv, NewerIn, SupersededByNewer
<1> QED
  BY <1>1, Inductive, PTL

-----------------------------------------------------------------------------
(* A commit is only ever put on top of main. *)
LEMMA MainOnlyAppended ==
  ASSUME IInv, Next
  PROVE  UNCHANGED main \/ \E c \in Commits : main' = Append(main, c)
<1>1. Tip \in Commits /\ main \in Seq(Commits) /\ main # << >>
  BY TipIsCommit DEF IInv, MainInv
<1>2. CASE Push
  <2>1. PICK v \in [Dirs -> Versions], s \in Suts :
          main' = Append(main, [Tip EXCEPT !.src = v, !.sut = s, !.author = "dev"])
    BY <1>2 DEF Push
  <2>2. [Tip EXCEPT !.src = v, !.sut = s, !.author = "dev"] \in Commits
    BY <1>1, CommitType DEF Commits
  <2> QED
    BY <2>1, <2>2
<1>3. CASE PublishReference
  <2>1. PICK r \in DOMAIN refRuns : Publish(r)
    BY <1>3 DEF PublishReference
  <2>2. refRuns[r] \in RefRunsOf(Len(main)) /\ refRuns[r].env \in Envs
    <3>1. refRuns[r] \in RefRunsOf(Len(main))
      BY LenProperties, ElementOfSeq DEF IInv, RefInv
    <3> QED
      BY <2>1, <3>1 DEF Publish, IInv, RefInv, BuiltSomewhere
  <2>3. refRuns[r].dir \in Dirs /\ main[refRuns[r].base] \in Commits
    BY <1>1, <2>2, TipIsCommit DEF RefRunsOf
  <2>4. Bundle(refRuns[r]) \in Bundles
    BY <2>2, <2>3, CommitType DEF Bundle, Bundles
  <2>5. Publication(refRuns[r]) \in Commits
    BY <2>3, <2>4, CommitType DEF Publication, Commits
  <2> QED
    BY <2>1, <2>5 DEF Publish
<1>4. CASE Dispatch \/ BuildReference \/ FinishCI \/ Idle
  BY <1>4 DEF Dispatch, BuildReference, FinishCI, Idle, vars
<1> QED
  BY <1>2, <1>3, <1>4 DEF Next

(* Nothing that was pushed is lost, since no push is forced.               *)
THEOREM HistoryKept == Spec => OnlyGrows
<1>1. IInv /\ [Next]_vars => [Len(main') >= Len(main) /\ SubSeq(main', 1, Len(main)) = main]_main
  <2> SUFFICES ASSUME IInv, Next, main' # main
               PROVE  Len(main') >= Len(main) /\ SubSeq(main', 1, Len(main)) = main
    BY DEF vars
  <2>1. PICK c \in Commits : main' = Append(main, c)
    BY MainOnlyAppended
  <2>2. main \in Seq(Commits) /\ Len(main) \in Nat /\ \A i \in 1 .. Len(main) : main[i] \in Commits
    BY TipIsCommit DEF IInv, MainInv
  <2>3. Len(main') = Len(main) + 1 /\ \A i \in 1 .. Len(main) : main'[i] = main[i]
    BY <2>1, <2>2, AppendProperties
  <2>4. /\ SubSeq(main', 1, Len(main)) \in Seq(Commits)
        /\ Len(SubSeq(main', 1, Len(main))) = Len(main)
        /\ \A i \in 1 .. Len(main) : SubSeq(main', 1, Len(main))[i] = main[i]
    <3>1. 1 \in Int /\ Len(main) \in Int /\ \A i \in 1 .. Len(main) : main'[i] \in Commits
      BY <2>2, <2>3
    <3> DEFINE sub == SubSeq(main', 1, Len(main))
    <3>2. /\ sub \in Seq(Commits)
          /\ Len(sub) = IF 1 <= Len(main) THEN Len(main) - 1 + 1 ELSE 0
          /\ \A i \in 1 .. Len(main) - 1 + 1 : sub[i] = main'[1 + i - 1]
      BY <3>1, SubSeqProperties
    <3> HIDE DEF sub
    <3>3. Len(sub) = Len(main) /\ \A i \in 1 .. Len(main) : sub[i] = main[i]
      BY <2>2, <2>3, <3>2
    <3> QED
      BY <3>2, <3>3 DEF sub
  <2>5. SubSeq(main', 1, Len(main)) = main
    BY <2>2, <2>4, SeqEqual
  <2> QED
    BY <2>2, <2>3, <2>5
<1> QED
  BY <1>1, Inductive, PTL DEF Spec, OnlyGrows
=============================================================================

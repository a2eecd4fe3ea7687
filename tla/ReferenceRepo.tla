--------------------------- MODULE ReferenceRepo ----------------------------
(***************************************************************************)
(* The main branch and the three workflows that act on it by themselves:   *)
(* arm64-reference.yml and arm64-valid-corpus-reference.yml, which run a   *)
(* corpus natively and push the bundle back to main, and generic-ci.yml,   *)
(* which judges a commit by the bundle committed with it.  Git and GitHub  *)
(* Actions are external: triggers, the concurrency group and the           *)
(* fast-forward rule of a plain git push are modelled as the workflow      *)
(* files use them.  What one job of generic-ci.yml does is CorpusLane.     *)
(***************************************************************************)
EXTENDS Naturals, Sequences, FiniteSets

CONSTANTS Versions,      \* contents of harness/ and of harness-valid/
          Suts,          \* contents of sut/
          GoodSuts,      \* those that give an engine which conforms
          Envs,          \* runner images a native run may get
          FirstCommit,   \* main as it is found, with bundles of its sources
          MaxPushes,     \* bound: pushes by developers
          MaxDispatches  \* bound: scheduled and manual runs

(* The bundle directories; src[d] is the tree each is made from. *)
Dirs == {"reference", "reference-valid"}

Bundles == [of : Versions, env : Envs]
Commits == [src : [Dirs -> Versions], sut : Suts, author : {"dev", "bot"},
            bundle : [Dirs -> Bundles]]

ASSUME RepoAssumption ==
  /\ GoodSuts \subseteq Suts
  /\ FirstCommit \in Commits
  /\ \A d \in Dirs : FirstCommit.bundle[d].of = FirstCommit.src[d]
  /\ MaxPushes \in Nat /\ MaxDispatches \in Nat

VARIABLES main,        \* the commits of main, oldest first
          refRuns,     \* runs of the two reference workflows, in trigger order
          ciRuns,      \* runs of generic-ci.yml on main, in trigger order
          pushes, dispatches

vars == <<main, refRuns, ciRuns, pushes, dispatches>>

Tip == main[Len(main)]
RefRun(d) == [dir |-> d, base |-> Len(main) + 1, phase |-> "queued", env |-> "none"]

-----------------------------------------------------------------------------
(* The concurrency group of generic-ci.yml, cancel-in-progress false: one  *)
(* run is in progress, one waits, and a newer one replaces the one waiting.*)

InPhase(runs, status) == {i \in DOMAIN runs : runs[i].status = status}

(* Mutant: while a run waits, a new one is dropped. *)
EnqueueUnlessFull(runs, sha, event) ==
  LET status == CASE InPhase(runs, "pending") # {} -> "superseded"
                  [] InPhase(runs, "running") # {} -> "pending"
                  [] OTHER -> "running"
  IN Append(runs, [sha |-> sha, event |-> event, status |-> status])

Enqueue(runs, sha, event) ==
  LET busy == InPhase(runs, "running") # {}
      kept == [i \in DOMAIN runs |->
                 IF runs[i].status = "pending" THEN [runs[i] EXCEPT !.status = "superseded"]
                 ELSE runs[i]]
  IN Append(kept, [sha |-> sha, event |-> event,
                   status |-> IF busy THEN "pending" ELSE "running"])

(* Mutant: the run that waits is forgotten. *)
FinishOnly(runs, r, result) == [runs EXCEPT ![r].status = result]

(* The run in progress ends and the one that waits starts. *)
Finish(runs, r, result) ==
  [i \in DOMAIN runs |->
     IF i = r THEN [runs[i] EXCEPT !.status = result]
     ELSE IF runs[i].status = "pending" THEN [runs[i] EXCEPT !.status = "running"]
     ELSE runs[i]]

-----------------------------------------------------------------------------
Init ==
  /\ main = <<FirstCommit>>
  /\ refRuns = << >> /\ ciRuns = << >>
  /\ pushes = 0 /\ dispatches = 0

(* Mutant: both paths filters name harness/. *)
TriggeredByHarness(changed) ==
  IF "reference" \in changed THEN <<RefRun("reference"), RefRun("reference-valid")>> ELSE << >>

(* The reference workflows that a push of these trees triggers.  Paths     *)
(* filters: harness/** and harness-valid/**, one for each workflow.        *)
Triggered(changed) ==
  (IF "reference" \in changed THEN <<RefRun("reference")>> ELSE << >>) \o
  (IF "reference-valid" \in changed THEN <<RefRun("reference-valid")>> ELSE << >>)

(* A developer pushes a commit that changes source trees.  generic-ci.yml  *)
(* is triggered by sut/** and harness/**, not by harness-valid/**.         *)
Push ==
  /\ pushes < MaxPushes /\ pushes' = pushes + 1
  /\ \E v \in [Dirs -> Versions], s \in Suts :
       LET changed == {d \in Dirs : v[d] # Tip.src[d]}
       IN /\ changed # {} \/ s # Tip.sut
          /\ main' = Append(main, [Tip EXCEPT !.src = v, !.sut = s, !.author = "dev"])
          /\ refRuns' = refRuns \o Triggered(changed)
          /\ ciRuns' = IF s # Tip.sut \/ "reference" \in changed
                       THEN Enqueue(ciRuns, Len(main) + 1, "push") ELSE ciRuns
  /\ UNCHANGED dispatches

(* cron starts the soak lane and workflow_dispatch any workflow, on Tip. *)
Dispatch ==
  /\ dispatches < MaxDispatches /\ dispatches' = dispatches + 1
  /\ \/ /\ \E event \in {"schedule", "workflow_dispatch"} :
             ciRuns' = Enqueue(ciRuns, Len(main), event)
        /\ UNCHANGED refRuns
     \/ /\ \E d \in Dirs : refRuns' = Append(refRuns, [RefRun(d) EXCEPT !.base = Len(main)])
        /\ UNCHANGED ciRuns
  /\ UNCHANGED <<main, pushes>>

-----------------------------------------------------------------------------
(* A reference workflow works on the commit that triggered it, whatever    *)
(* has happened to main since.  The silicon gate, the compiler, the corpus *)
(* or the collector may fail it.                                           *)
BuildReference ==
  \E r \in DOMAIN refRuns :
    /\ refRuns[r].phase = "queued"
    /\ \/ \E e \in Envs :
            refRuns' = [refRuns EXCEPT ![r].phase = "built", ![r].env = e]
       \/ refRuns' = [refRuns EXCEPT ![r].phase = "failed"]
    /\ UNCHANGED <<main, ciRuns, pushes, dispatches>>

Bundle(run) == [of |-> main[run.base].src[run.dir], env |-> run.env]

(* git diff --cached --quiet: the bundle is what is committed already. *)
NothingToCommit(run) == Bundle(run) = main[run.base].bundle[run.dir]

(* The commit on top of the one checked out. *)
Publication(run) ==
  [main[run.base] EXCEPT !.bundle[run.dir] = Bundle(run), !.author = "bot"]

(* Mutant: the bundle is rebased onto whatever main has become. *)
PublishRebased(r) ==
  /\ refRuns[r].phase = "built"
  /\ refRuns' = [refRuns EXCEPT ![r].phase = "published"]
  /\ main' = Append(main, [Tip EXCEPT !.bundle[refRuns[r].dir] = Bundle(refRuns[r]), !.author = "bot"])
  /\ UNCHANGED <<ciRuns, pushes, dispatches>>

(* Mutant: its tree, as checked out, is committed on whatever main is.     *)
PublishOwnTree(r) ==
  /\ refRuns[r].phase = "built"
  /\ refRuns' = [refRuns EXCEPT ![r].phase = "published"]
  /\ main' = Append(main, Publication(refRuns[r]))
  /\ UNCHANGED <<ciRuns, pushes, dispatches>>

(* Mutant: git push --force. *)
PublishForced(r) ==
  /\ refRuns[r].phase = "built"
  /\ refRuns' = [refRuns EXCEPT ![r].phase = "published"]
  /\ main' = Append(SubSeq(main, 1, refRuns[r].base), Publication(refRuns[r]))
  /\ UNCHANGED <<ciRuns, pushes, dispatches>>

(* Mutant: the publishing job does not wait for the native run. *)
PublishAlways(r) ==
  /\ refRuns[r].phase \in {"queued", "built", "failed"}
  /\ refRuns[r].base = Len(main)
  /\ refRuns' = [refRuns EXCEPT ![r].phase = "published"]
  /\ main' = Append(main, Publication(refRuns[r]))
  /\ UNCHANGED <<ciRuns, pushes, dispatches>>

(* git push without force: accepted only while main is what was checked    *)
(* out.  A rejected push ends the job red, under set -e, and is not tried  *)
(* again.  A push with the workflow's own token, and marked [skip ci],     *)
(* triggers no workflow.                                                   *)
Publish(r) ==
  /\ refRuns[r].phase = "built"
  /\ IF NothingToCommit(refRuns[r])
     THEN refRuns' = [refRuns EXCEPT ![r].phase = "unchanged"] /\ UNCHANGED main
     ELSE IF refRuns[r].base = Len(main)
     THEN /\ refRuns' = [refRuns EXCEPT ![r].phase = "published"]
          /\ main' = Append(main, Publication(refRuns[r]))
     ELSE refRuns' = [refRuns EXCEPT ![r].phase = "rejected"] /\ UNCHANGED main
  /\ UNCHANGED <<ciRuns, pushes, dispatches>>

PublishReference == \E r \in DOMAIN refRuns : Publish(r)

(* What the lanes may conclude of a commit; anything may end them red.     *)
MayPass(c) == c.bundle["reference"].of = c.src["reference"] /\ c.sut \in GoodSuts

FinishCI ==
  \E r \in InPhase(ciRuns, "running") :
    /\ \E result \in {"green", "red"} :
         /\ result = "green" => MayPass(main[ciRuns[r].sha])
         /\ ciRuns' = Finish(ciRuns, r, result)
    /\ UNCHANGED <<main, refRuns, pushes, dispatches>>

(* Developers may stop at any time. *)
Idle ==
  /\ \A r \in DOMAIN refRuns : refRuns[r].phase \notin {"queued", "built"}
  /\ InPhase(ciRuns, "running") = {}
  /\ UNCHANGED vars

Next == Push \/ Dispatch \/ BuildReference \/ PublishReference \/ FinishCI \/ Idle

(* Jobs have time limits, so GitHub sees every one of them to an end. *)
Fairness == WF_vars(BuildReference) /\ WF_vars(PublishReference) /\ WF_vars(FinishCI)

Spec == Init /\ [][Next]_vars /\ Fairness

-----------------------------------------------------------------------------
(* Properties. *)

(* The type invariant. *)
TypeOK ==
  /\ main \in Seq(Commits) /\ main # << >>
  /\ refRuns \in Seq([dir : Dirs, base : 1 .. Len(main), env : Envs \cup {"none"},
                      phase : {"queued", "built", "failed", "unchanged", "published", "rejected"}])
  /\ ciRuns \in Seq([sha : 1 .. Len(main), event : {"push", "schedule", "workflow_dispatch"},
                     status : {"pending", "running", "superseded", "green", "red"}])
  /\ pushes \in 0 .. MaxPushes /\ dispatches \in 0 .. MaxDispatches

(* Every bundle that arrives on main was made from the source tree of the  *)
(* very commit it arrives with, however the two workflows and developers   *)
(* race; so a bundle never vouches for a corpus it was not run from, and a *)
(* stale one is always a commit of a developer.                            *)
ArrivesBound ==
  \A i \in 2 .. Len(main), d \in Dirs :
    main[i].bundle[d] # main[i - 1].bundle[d] => main[i].bundle[d].of = main[i].src[d]

(* A publication changes nothing but its own bundle: no source, and not    *)
(* the bundle of the other workflow.                                       *)
PublishesOnlyItsBundle ==
  \A i \in 2 .. Len(main) : main[i].author = "bot" =>
    /\ main[i].src = main[i - 1].src /\ main[i].sut = main[i - 1].sut
    /\ \E d \in Dirs : [main[i].bundle EXCEPT ![d] = main[i - 1].bundle[d]] = main[i - 1].bundle

(* Nothing that was pushed is ever lost from main.                         *)
OnlyGrows ==
  [][Len(main') >= Len(main) /\ SubSeq(main', 1, Len(main)) = main]_main

RefRunsDone == \A r \in DOMAIN refRuns : refRuns[r].phase \notin {"queued", "built"}

(* When both workflows have come to rest and the head's bundle is not of   *)
(* the head's sources, a run for exactly these sources did not make it:    *)
(* it failed, or its push was overtaken by another one.                    *)
StaleHasCause ==
  \A d \in Dirs :
    RefRunsDone /\ Tip.bundle[d].of # Tip.src[d] =>
      \E r \in DOMAIN refRuns :
        /\ refRuns[r].dir = d /\ refRuns[r].phase \in {"failed", "rejected"}
        /\ main[refRuns[r].base].src[d] = Tip.src[d]

(* A run that was dropped while it waited has a newer one that was not:    *)
(* it is in progress, waits, or has come to a result, on a commit that is  *)
(* not older.                                                              *)
SupersededByNewer ==
  \A r \in InPhase(ciRuns, "superseded") :
    \E n \in DOMAIN ciRuns :
      n > r /\ ciRuns[n].status # "superseded" /\ ciRuns[n].sha >= ciRuns[r].sha

(* No run stays in progress or waiting for ever, the ones that queue       *)
(* behind another included.                                                *)
RunsConclude ==
  <>[](RefRunsDone /\ InPhase(ciRuns, "running") = {} /\ InPhase(ciRuns, "pending") = {})

-----------------------------------------------------------------------------
(* What a comment says and the workflow does not do. *)

(* generic-ci.yml: the per-change lane runs on each change.  At the least, *)
(* the newest push that triggers it is not dropped.                        *)
NewestChangeTested ==
  \A r \in DOMAIN ciRuns :
    (ciRuns[r].event = "push" /\ \A n \in DOMAIN ciRuns : ciRuns[n].event = "push" => n <= r) =>
      ciRuns[r].status # "superseded"
=============================================================================

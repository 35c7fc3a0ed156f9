----------------------------- MODULE ReleaseRuns -----------------------------
(***************************************************************************)
(* The benchmark around the grading: the dataset is frozen, candidates are *)
(* pooled from it, and after the review the sealed release judgments are   *)
(* opened in recorded runs only, each started in a ledger, drafted, signed *)
(* off by the owner and completed.  The release gates read all that is on  *)
(* disk, except the sealed judgments, and say whether it may be released.  *)
(* The calls are people's: one at a time, in any order.                    *)
(***************************************************************************)
EXTENDS Grading

CONSTANTS
  Runs,      \* run_ids of release runs
  Purposes,  \* of runs: a subset of {"milestone", "final"}
  MaxPools   \* bound: ids of pools (a run id and a time given by the operator)

VARIABLES
  systems,  \* the generation of the production rankings under runs/; 0: none yet
  ledger,   \* run -> its events in release-runs-v2.jsonl, in order
  draft,    \* run -> its draft report
  report,   \* run -> its approved report (the "versioned" copy)
  final     \* reports/final-v2.json

\* What is frozen, the snapshot that binds a pool to it, reports and events of runs.
Manifest == [at: Nat, src: SourceTexts, index: SUBSET Queries]
Snapshot == [manifest: Manifest, systems: Nat, pool: Pool]
Report == [manifest: Manifest, qrels: Qrels, systems: Nat, corrected: Nat]
RunEvent == [phase: {"started", "failed", "completed"}, purpose: Purposes,
             manifest: Manifest, report: Report \cup {None, Torn}]

ASSUME ReleaseAssumption ==
  /\ MaxPools \in Nat
  /\ \A ids \in SUBSET Queries : ids \notin {None, Torn}
  /\ \A x \in {None, Torn} : x \notin Manifest /\ x \notin Snapshot /\ x \notin Report

vars == <<src, disk, said, pipelines, troubles, systems, ledger, draft, report, final>>
releaseVars == <<systems, ledger, draft, report, final>>

Init ==
  /\ GradingInit
  /\ systems = 0
  /\ ledger = [r \in Runs |-> <<>>]
  /\ draft = [r \in Runs |-> None]
  /\ report = [r \in Runs |-> None]
  /\ final = None

(***************************************************************************)
(* freezeDatasetV2 links the index of the release queries into place and   *)
(* then the manifest; neither replaces a file.  The number of troubles     *)
(* so far tells manifests apart, as frozen_at does.                        *)
(***************************************************************************)
ReleaseIds == {q \in Queries : src.split[q] = "release"}

Freeze ==
  /\ disk["index"] = None
  /\ \/ /\ disk["manifest"] = None
        /\ disk' = [disk EXCEPT !["index"] = ReleaseIds,
                                !["manifest"] = [at |-> troubles, src |-> src,
                                                 index |-> ReleaseIds]]
        /\ Troubled(0)
     \/ /\ disk' = [disk EXCEPT !["index"] = ReleaseIds]
        /\ \/ disk["manifest"] # None /\ Troubled(0)
           \/ Troubled(1)
  /\ UNCHANGED <<src, said, pipelines, releaseVars>>

\* Somebody removes a freeze, or what is left of one, to freeze again.
Thaw ==
  /\ Troubled(IF disk["manifest"] = None \/ disk["manifest"].src # src THEN 0 ELSE 1)
  /\ disk["index"] # None
  /\ disk' = [disk EXCEPT !["index"] = None, !["manifest"] = None]
  /\ UNCHANGED <<src, said, pipelines, releaseVars>>

\* verifyFrozenDataset: no frozen byte has changed, and the index is the manifest's.
Frozen ==
  /\ Whole("manifest") /\ disk["manifest"].src = src
  /\ disk["index"] = disk["manifest"].index

\* Mutant: the dataset the pool was built from is not bound.
Binding_NoManifest(pool) == [systems |-> systems, pool |-> pool]

\* What currentBinding hashes.
Binding(pool) == [manifest |-> disk["manifest"], systems |-> systems, pool |-> pool]

(***************************************************************************)
(* build-pool replaces the pool, and then the snapshot that binds it; the  *)
(* old snapshot stays when the production rankings are not there yet, or   *)
(* when the call dies in between.                                          *)
(***************************************************************************)
BuildPool(id) ==
  LET pool == [id |-> id, src |-> src] IN
  /\ Frozen
  /\ \/ /\ systems > 0
        /\ disk' = [disk EXCEPT !["pool"] = pool, !["snapshot"] = Binding(pool)]
        /\ Troubled(0)
     \/ /\ disk' = [disk EXCEPT !["pool"] = pool]
        /\ \/ systems = 0 /\ Troubled(0)
           \/ systems > 0 /\ Troubled(1)
  /\ UNCHANGED <<src, said, pipelines, releaseVars>>

\* The production systems answer the queries (again); pooled or not.
RunSystems ==
  /\ systems' = systems + 1
  /\ Troubled(IF systems = 0 THEN 0 ELSE 1)
  /\ UNCHANGED <<src, disk, said, pipelines, ledger, draft, report, final>>

\* verifyPoolSnapshot
PoolCurrent ==
  /\ Frozen /\ systems > 0
  /\ Whole("pool") /\ Whole("snapshot")
  /\ disk["snapshot"] = Binding(disk["pool"])

(***************************************************************************)
(* recordReleaseRunEvent: a run is started once and ends once.  A run is   *)
(* completed with the bytes of its report; that they are a report is not   *)
(* looked at, so two files that a crash left empty agree.                  *)
(***************************************************************************)
Event(phase, purpose, bytes) ==
  [phase |-> phase, purpose |-> purpose, manifest |-> disk["manifest"], report |-> bytes]

\* Exactly one event, "started", of the manifest that is frozen now.
Open(r) ==
  Len(ledger[r]) = 1 /\ ledger[r][1].manifest = disk["manifest"]

\* Bound: a run is started when there is something to open; earlier is the same.
Start(r, purpose) ==
  /\ Whole("summary") /\ PoolCurrent
  /\ Frozen /\ ledger[r] = <<>>
  /\ ledger' = [ledger EXCEPT ![r] = <<Event("started", purpose, None)>>]
  /\ UNCHANGED <<src, disk, said, pipelines, troubles, systems, draft, report, final>>

\* Bound: not before there is a draft; earlier it is one run fewer.
Fail(r) ==
  /\ draft[r] # None
  /\ Frozen /\ Open(r)
  /\ ledger' = [ledger EXCEPT ![r] = Append(@, Event("failed", @[1].purpose, None))]
  /\ UNCHANGED <<src, disk, said, pipelines, troubles, systems, draft, report, final>>

\* Mutant: the canonical report is not compared with the run's own.
Complete_AnyReport(r) ==
  /\ Frozen /\ Open(r)
  /\ report[r] # None
  /\ ledger' = [ledger EXCEPT ![r] = Append(@, Event("completed", @[1].purpose, report[r]))]
  /\ UNCHANGED <<src, disk, said, pipelines, troubles, systems, draft, report, final>>

Complete(r) ==
  /\ Frozen /\ Open(r)
  /\ report[r] # None
  /\ ledger[r][1].purpose = "final" => final = report[r]
  /\ ledger' = [ledger EXCEPT ![r] = Append(@, Event("completed", @[1].purpose, report[r]))]
  /\ UNCHANGED <<src, disk, said, pipelines, troubles, systems, draft, report, final>>

(***************************************************************************)
(* generate-report release: only in an open run are the sealed judgments   *)
(* read.  evaluationInputHashes are the judgments and the rankings.        *)
(***************************************************************************)
ReleaseReadable ==
  Whole("release") /\ DOMAIN disk["release"] \subseteq Of("release")

Draft(r) ==
  /\ PoolCurrent /\ Open(r)
  /\ ReleaseReadable /\ Whole("summary")
  /\ \E w \in Writes([draft |-> draft[r]], <<"draft">>,
         [draft |-> [manifest |-> disk["manifest"], qrels |-> disk["release"],
                     systems |-> systems, corrected |-> disk["summary"].corrected]]) :
       /\ draft' = [draft EXCEPT ![r] = w.files.draft]
       /\ Troubled(w.died)
  /\ UNCHANGED <<src, disk, said, pipelines, systems, ledger, report, final>>

DraftCurrent(d) ==
  /\ d.manifest = disk["manifest"]
  /\ d.qrels = disk["release"] /\ d.systems = systems

\* finalize-report, with the owner's sign-off of this very draft.
FinalizeReport(r) ==
  LET names == IF ledger[r][1].purpose = "final" THEN <<"report", "final">> ELSE <<"report">>
  IN /\ PoolCurrent /\ Open(r)
     /\ draft[r] \notin {None, Torn} /\ ReleaseReadable /\ DraftCurrent(draft[r])
     /\ \E w \in Writes([report |-> report[r], final |-> final], names,
                        [f \in {"report", "final"} |-> draft[r]]) :
          /\ report' = [report EXCEPT ![r] = w.files.report]
          /\ final' = w.files.final
          /\ Troubled(w.died)
     /\ UNCHANGED <<src, disk, said, pipelines, systems, ledger, draft>>

\* After a crash somebody removes the files of the run that are not whole.
Sweep(r) ==
  /\ Torn \in {draft[r], report[r], final}
  /\ draft' = [draft EXCEPT ![r] = IF @ = Torn THEN None ELSE @]
  /\ report' = [report EXCEPT ![r] = IF @ = Torn THEN None ELSE @]
  /\ final' = IF final = Torn THEN None ELSE final
  /\ UNCHANGED <<src, disk, said, pipelines, troubles, systems, ledger>>

(***************************************************************************)
(* release-gates: the gates of this model, all of which must pass.         *)
(***************************************************************************)
CompletedFinal(r) ==
  \E i \in DOMAIN ledger[r] : ledger[r][i].phase = "completed" /\ ledger[r][i].purpose = "final"

ReviewCurrent ==
  LET s == disk["summary"] IN
  /\ Whole("dev") /\ Whole("summary")
  /\ s.split = src.split /\ s.dev = disk["dev"]
  /\ DOMAIN s.dev = Of("development") /\ DOMAIN s.release = Of("release")
  /\ s.rejected = {}

\* The report's hash of the judgments is taken over records with sorted keys, the
\* summary's over records as they are: only empty lists have the same hash.
SameHash(sorted, plain) == sorted = plain /\ DOMAIN plain = {}

ReportCurrent ==
  /\ final \notin {None, Torn}
  /\ SameHash(final.qrels, disk["summary"].release) /\ final.systems = systems
  /\ final.manifest = disk["manifest"]
  /\ final.corrected = disk["summary"].corrected

\* The gates that do not read the report: "pool", "holdout-ledger", "isolation",
\* "blindness", "owner-review".
Judged ==
  /\ PoolCurrent
  /\ \E r \in Runs : CompletedFinal(r)
  /\ ReviewCurrent
  /\ Whole("audit") /\ disk["audit"].sources = Sources

Ready == Judged /\ ReportCurrent

Next ==
  \/ GradingNext /\ UNCHANGED releaseVars
  \/ Freeze
  \/ Thaw
  \/ \E id \in 1 .. MaxPools : BuildPool(id)
  \/ RunSystems
  \/ \E r \in Runs, p \in Purposes : Start(r, p)
  \/ \E r \in Runs :
       Fail(r) \/ Complete(r) \/ Draft(r) \/ FinalizeReport(r) \/ Sweep(r)

Spec == Init /\ [][Next]_vars

(***************************************************************************)
(* Properties                                                              *)
(***************************************************************************)

\* What the graders and the adjudicator of the files on disk say of a pair.
Verdict(p) ==
  IF p \in Disagreements THEN said["c"].grades[p] ELSE said["a"].grades[p]

\* When the gates of the grading pass, every pair of the pool has one judgment, in
\* the split it has now; it is the grade two runs gave independently, or a third
\* one where they differ, or a correction by the owner; none of them wrote a query
\* or a resource, and all of them saw the texts as they are now, and the pool that
\* is there, which was pooled from the same texts.
JudgedIndependently ==
  Judged =>
    /\ disk["mapping"].sources = Sources /\ disk["pool"].src = src
    /\ Cardinality({said["a"].by, said["b"].by}) = 2
    /\ \A p \in Pairs :
         LET q == IF p \in Of("release") THEN disk["summary"].release[p] ELSE disk["dev"][p] IN
         /\ q.status = "approved" <=> q.grade = Verdict(p)
         /\ q.by \notin Authors
         /\ p \in Disagreements => q.by \notin {said["a"].by, said["b"].by}

\* A final run that was completed with a report keeps it: the canonical report
\* is that report, its judgments are of the release queries of the manifest the
\* run was started with, and no second final run is completed with another one.
FinalStands ==
  \A r \in Runs : CompletedFinal(r) /\ ledger[r][2].report # Torn =>
    /\ final = ledger[r][2].report
    /\ final.manifest = ledger[r][1].manifest
    /\ \A p \in DOMAIN final.qrels : p[1] \in final.manifest.index

\* The last file of a bundle commits it: when it is whole, so are the others.
LastFileCommits ==
  /\ \A i \in DOMAIN Bundles :
       Whole(Bundles[i][Len(Bundles[i])]) => \A f \in Range(Bundles[i]) : Whole(f)
  /\ Whole("manifest") => Whole("index")

\* reports/README.md:20: the final report is "bound to the current qrels and five
\* system runs".  Where it is, and all else is in order, the gates pass.  They never
\* do: see the README.
CurrentReportPasses ==
  Judged /\ final \notin {None, Torn} /\ DraftCurrent(final) => Ready

\* report-v2.ts:255: only an approved report "may occupy a completed release-report
\* path".  It fails after a crash: see the README.
CompletedIsReport ==
  \A r \in Runs : CompletedFinal(r) => ledger[r][2].report # Torn
==============================================================================

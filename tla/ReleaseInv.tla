----------------------------- MODULE ReleaseInv -----------------------------
(* The inductive invariants behind the theorems of ReleaseProofs. *)
EXTENDS ReleaseRuns

\* What a file holds when it is whole.
Content(f) ==
  CASE f = "pool" -> Pool
    [] f = "index" -> SUBSET Queries
    [] f = "manifest" -> Manifest
    [] f = "snapshot" -> Snapshot
    [] f \in {"packs", "mapping"} -> Pack
    [] f \in {"adjpack", "adjmapping"} -> AdjudicationPack
    [] f = "raw" -> RawJudgments
    [] f = "calibration" -> CalibrationRows
    [] f = "audit" -> Audit
    [] f \in {"dev", "release"} -> Qrels
    [] f = "summary" -> Summary

FileTypeOK ==
  /\ DOMAIN disk = Files
  /\ \A f \in Files : Whole(f) => disk[f] \in Content(f)
  /\ Torn \notin {disk["index"], disk["manifest"]}

RunTypeOK ==
  /\ systems \in Nat
  /\ ledger \in [Runs -> Seq(RunEvent)] /\ \A r \in Runs : Len(ledger[r]) <= 2
  /\ draft \in [Runs -> Report \cup {None, Torn}]
  /\ report \in [Runs -> Report \cup {None, Torn}]
  /\ final \in Report \cup {None, Torn}

GradingTypeOK ==
  /\ src \in SourceTexts /\ pipelines \in Nat /\ troubles \in Nat
  /\ said \in [Slots -> Handed \cup {None}]
  /\ FileTypeOK

\* Every variable holds values of its type.
TypeOK == GradingTypeOK /\ RunTypeOK

-----------------------------------------------------------------------------
(* The grading: a phase's files are there only while what they follow from is. *)

\* Two graders who wrote nothing have the packs.
PacksApart ==
  /\ Whole("packs") => /\ disk["packs"].a # disk["packs"].b
                       /\ {disk["packs"].a, disk["packs"].b} \cap Authors = {}
  /\ Whole("mapping") => disk["mapping"] = disk["packs"]

\* What a grader handed in is about the packs that are there.
GradersAnswer ==
  \A s \in {"a", "b"} : said[s] # None =>
    /\ Whole("packs") /\ Answers(s, disk["packs"], disk["packs"][s])
    /\ said[s].grades \in [Pairs -> Grades]

BothAnswer == Whole("mapping") /\ said["a"] # None /\ said["b"] # None

\* Who adjudicates is asked about what the two graders differ on, and answers that.
AdjudicatorAnswers ==
  /\ Whole("adjpack") =>
       /\ BothAnswer
       /\ disk["adjpack"].pipe = disk["mapping"].pipe /\ disk["adjpack"].pairs = Disagreements
  /\ Whole("adjmapping") => disk["adjmapping"] = disk["adjpack"]
  /\ said["c"] # None => BothAnswer /\ said["c"].grades \in [Disagreements -> Grades]

\* The raw judgments are those of who is in charge of the pair, as handed in.
RawIsSelected ==
  Whole("raw") =>
    /\ BothAnswer
    /\ Disagreements # {} => Adjudicated
    /\ \A p \in Pairs : disk["raw"][p] = Selected(p)

AuditIsMapped ==
  Whole("audit") => Whole("raw") /\ disk["audit"].sources = disk["mapping"].sources

\* A reviewed judgment is approved where the owner kept the raw grade.
ReviewIsOfRaw ==
  Whole("summary") =>
    /\ Whole("raw")
    /\ \A part \in {"dev", "release"} : \A p \in DOMAIN disk["summary"][part] :
         LET q == disk["summary"][part][p] IN
         /\ q.by = disk["raw"][p].by
         /\ q.status = "approved" <=> q.grade = disk["raw"][p].grade

\* A manifest is of one moment's sources, and a snapshot of one manifest's pool.
FreezeAgrees ==
  /\ disk["manifest"] # None =>
       disk["manifest"].index = {q \in Queries : disk["manifest"].src.split[q] = "release"}
  /\ Whole("snapshot") => disk["snapshot"].pool.src = disk["snapshot"].manifest.src

GradingInv ==
  /\ LastFileCommits /\ PacksApart /\ GradersAnswer /\ AdjudicatorAnswers
  /\ RawIsSelected /\ AuditIsMapped /\ ReviewIsOfRaw

-----------------------------------------------------------------------------
(* The release runs. *)

\* A run's report is of the manifest the run was started with.
ReportOfRun ==
  \A r \in Runs : report[r] \notin {None, Torn} =>
    /\ ledger[r] # <<>> /\ report[r].manifest = ledger[r][1].manifest
    /\ \A p \in DOMAIN report[r].qrels : p[1] \in report[r].manifest.index

\* Runs start once and end once, and a final run is completed with its own report,
\* which is the final report.
EndsOnce ==
  \A r \in Runs :
    /\ ledger[r] # <<>> => ledger[r][1].phase = "started"
    /\ CompletedFinal(r) /\ ledger[r][2].report # Torn =>
         /\ ledger[r][2].report # None
         /\ final = ledger[r][2].report /\ report[r] = ledger[r][2].report

Inv == TypeOK /\ GradingInv /\ FreezeAgrees /\ ReportOfRun /\ EndsOnce
=============================================================================

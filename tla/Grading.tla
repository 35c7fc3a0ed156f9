------------------------------- MODULE Grading -------------------------------
(***************************************************************************)
(* The blind grading pipeline of the search benchmark: two graders, a      *)
(* third for what they disagree on, the owner's review, and the two files  *)
(* of judgments ("qrels") that come out of it.  Each phase is one call of  *)
(* tools/cli/run-grading-pipeline.ts that reads files and creates files;   *)
(* people and agents write the judgments between the calls.  A file is one *)
(* value of disk: None when it is absent, Torn when a call died before it  *)
(* was written.  Equal values stand for equal hashes.                      *)
(***************************************************************************)
EXTENDS Naturals, Sequences, FiniteSets, Functions

CONSTANTS
  Queries, Resources,  \* of the benchmark; every pair of them is pooled
  Agents,              \* run_ids of authors, graders and adjudicators
  Authors,             \* the runs that wrote the queries and the resources
  Grades,
  None, Torn,
  MaxPipelines,        \* bound: calls of prepare
  MaxOverruled,        \* bound: pairs of a review that the owner does not approve
  MaxTroubles          \* bound: changes of the sources, calls that die while
                       \* they write, and removals of files to start over

ASSUME GradingAssumption ==
  /\ Queries # {} /\ Resources # {} /\ IsFiniteSet(Queries) /\ IsFiniteSet(Resources)
  /\ Authors \subseteq Agents
  /\ {MaxPipelines, MaxOverruled, MaxTroubles} \subseteq Nat

VARIABLES
  src,       \* what is edited by hand: the split of the queries, and the revision
             \* of their texts with the catalog and the sidecars
  disk,      \* the files the tools create
  said,      \* the judgments handed in: grader "a", grader "b", adjudicator "c"
  pipelines, \* calls of prepare so far
  troubles   \* changes of the sources, crashes and removals so far

Pairs == Queries \X Resources
Splits == {"development", "release"}
Slots == {"a", "b", "c"}

Bundles == <<<<"packs", "mapping">>, <<"adjpack", "adjmapping">>,
             <<"raw", "calibration", "audit">>, <<"dev", "release", "summary">>>>

Files == {"pool", "index", "manifest", "snapshot"}
         \cup UNION {Range(Bundles[i]) : i \in DOMAIN Bundles}

\* What the files hold when they are whole, and what is handed in.
SourceTexts == [split: [Queries -> Splits], texts: Nat]
Pool == [id: Nat, src: SourceTexts]
PoolSources == [split: [Queries -> Splits], texts: Nat, pool: Pool]
Pack == [pipe: Nat, sources: PoolSources, a: Agents, b: Agents]
AdjudicationPack == [pipe: Nat, c: Agents, pairs: SUBSET Pairs]
RawJudgments == [Pairs -> [grade: Grades, by: Agents]]
CalibrationRows == [Pairs -> [{"a", "b"} -> Grades]]
Audit == [pipe: Nat, sources: PoolSources]
Qrels == UNION {[of -> [grade: Grades, by: Agents, status: {"approved", "corrected"}]] :
                  of \in SUBSET Pairs}
Summary == [split: [Queries -> Splits], dev: Qrels, release: Qrels, corrected: Nat,
            rejected: SUBSET Pairs]
Handed == [pipe: Nat, by: Agents, grades: UNION {[of -> Grades] : of \in SUBSET Pairs}]

ASSUME AbsentAssumption ==
  /\ None # Torn /\ None \notin Grades /\ None \notin Handed
  /\ \A x \in {None, Torn} :
       /\ x \notin Pool /\ x \notin Pack /\ x \notin AdjudicationPack /\ x \notin RawJudgments
       /\ x \notin CalibrationRows /\ x \notin Audit /\ x \notin Qrels /\ x \notin Summary

Whole(f) == disk[f] \notin {None, Torn}

\* The pairs whose query is in split s of the queries file as it is now.
Of(s) == {p \in Pairs : src.split[p[1]] = s}

\* What gradingSourceHash covers.
Sources == [split |-> src.split, texts |-> src.texts, pool |-> disk["pool"]]

\* n more troubles (0 or 1).
Troubled(n) == troubles' = troubles + n /\ troubles' <= MaxTroubles

\* Mutant: the file that commits a bundle is written first.
Bundle_LastFirst(files, names, value, whole, created) ==
  LET first == Len(names) + 1 - whole IN
  [f \in DOMAIN files |-> CASE \E i \in first .. Len(names) : names[i] = f -> value[f]
                            [] \E i \in 1 .. created : names[i] = f -> Torn
                            [] OTHER -> files[f]]

(***************************************************************************)
(* writeArtifactBundleExclusive creates every file of a bundle, in order,  *)
(* before it writes the first, and leaves nothing when one of them exists. *)
(* A call that dies leaves the files it had created, the first few whole.  *)
(***************************************************************************)
Bundle(files, names, value, whole, created) ==
  [f \in DOMAIN files |-> CASE \E i \in 1 .. whole : names[i] = f -> value[f]
                            [] \E i \in whole + 1 .. created : names[i] = f -> Torn
                            [] OTHER -> files[f]]

Interrupted(n) == {<<0, created>> : created \in 1 .. n} \cup {<<whole, n>> : whole \in 1 .. n - 1}

\* The files after the call, and whether it died.
Writes(files, names, value) ==
  LET n == Len(names)
      new == \A f \in Range(names) : files[f] = None
  IN IF ~new THEN {} ELSE
       {[files |-> Bundle(files, names, value, n, n), died |-> 0]} \cup
       {[files |-> Bundle(files, names, value, i[1], i[2]), died |-> 1] : i \in Interrupted(n)}

WriteBundle(names, value) ==
  \E w \in Writes(disk, names, value) :
    /\ disk' = w.files
    /\ Troubled(w.died)

\* Even splits, as the release counts ask (50 and 50 of 100).
Even(split) ==
  2 * Cardinality({q \in Queries : split[q] = "release"}) = Cardinality(Queries)

GradingInit ==
  /\ src \in [split : {s \in [Queries -> Splits] : Even(s)}, texts : {0}]
  /\ disk = [f \in Files |-> None]
  /\ said = [s \in Slots |-> None]
  /\ pipelines = 0 /\ troubles = 0

\* A text, or the split, changes: the merge scripts and editors write the sources.
Edit ==
  /\ Troubled(1)
  /\ \/ src' = [src EXCEPT !.texts = @ + 1]
     \/ \E split \in [Queries -> Splits] \ {src.split} :
          Even(split) /\ src' = [src EXCEPT !.split = split]
  /\ UNCHANGED <<disk, said, pipelines>>

\* Mutant: one run may take two of the roles.
Independent_NotAnAuthor(x, others) == x \notin Authors

Independent(x, others) == x \notin others \cup Authors

(***************************************************************************)
(* prepare: the blind packs, and the mapping that is withheld from the     *)
(* graders.  The pipeline's id is taken to be fresh.                       *)
(***************************************************************************)
Prepare(a, b) ==
  /\ Whole("pool") /\ pipelines < MaxPipelines
  /\ Independent(a, {b}) /\ Independent(b, {a})
  /\ LET m == [pipe |-> pipelines, sources |-> Sources, a |-> a, b |-> b] IN
       WriteBundle(Bundles[1], [f \in {"packs", "mapping"} |-> m])
  /\ pipelines' = pipelines + 1
  /\ UNCHANGED <<src, said>>

\* The import answers the pack: its pipeline, and the run the pack was made for.
Answers(slot, pack, run) ==
  said[slot] # None /\ said[slot].pipe = pack.pipe /\ said[slot].by = run

\* The run that a pack was made for hands in its grades, and replaces what was
\* handed in for an older pack.  (resolveImport refuses any other import.)
Judge(slot) ==
  LET pack == disk[IF slot = "c" THEN "adjpack" ELSE "packs"]
      asked == IF slot = "c" THEN pack.pairs ELSE Pairs
  IN /\ pack \notin {None, Torn} /\ ~Answers(slot, pack, pack[slot])
     /\ \E g \in [asked -> Grades] :
          said' = [said EXCEPT ![slot] = [pipe |-> pack.pipe, by |-> pack[slot], grades |-> g]]
     /\ UNCHANGED <<src, disk, pipelines, troubles>>

\* assertManifestMatchesPrerequisites, then validateDoubleGrading.
DoubleGraded ==
  /\ Whole("pool") /\ Whole("mapping")
  /\ disk["mapping"].sources = Sources
  /\ \A slot \in {"a", "b"} : Answers(slot, disk["mapping"], disk["mapping"][slot])

Disagreements == {p \in Pairs : said["a"].grades[p] # said["b"].grades[p]}

\* adjudicate: a third run is asked about the disagreements and sees nothing else.
Adjudicate(c) ==
  /\ DoubleGraded
  /\ Independent(c, {said["a"].by, said["b"].by})
  /\ LET m == [pipe |-> disk["mapping"].pipe, c |-> c, pairs |-> Disagreements] IN
       WriteBundle(Bundles[2], [f \in {"adjpack", "adjmapping"} |-> m])
  /\ UNCHANGED <<src, said, pipelines>>

Adjudicated ==
  /\ Whole("adjpack") /\ Whole("adjmapping")
  /\ LET m == disk["adjmapping"] IN
       /\ m.pipe = disk["mapping"].pipe /\ m.pairs = Disagreements
       /\ Independent(m.c, {said["a"].by, said["b"].by})
       /\ Answers("c", m, m.c)

Selected(p) ==
  LET slot == IF p \in Disagreements THEN "c" ELSE "a" IN
    [grade |-> said[slot].grades[p], by |-> said[slot].by]

\* finalize: raw judgments and their calibration rows; the audit is written last.
FinalizeGrading ==
  /\ DoubleGraded /\ Whole("packs")
  /\ Disagreements # {} => Adjudicated
  /\ WriteBundle(Bundles[3],
       [raw |-> [p \in Pairs |-> Selected(p)],
        calibration |-> [p \in Pairs |-> [slot \in {"a", "b"} |-> said[slot].grades[p]]],
        audit |-> [pipe |-> disk["mapping"].pipe, sources |-> Sources]])
  /\ UNCHANGED <<src, said, pipelines>>

(***************************************************************************)
(* owner-review: the owner gives every pair its final grade or rejects it, *)
(* and the split of the queries file of this moment parts the judgments.   *)
(* The public summary is written last; functions stand for their hashes.   *)
(***************************************************************************)
OwnerReview(decide) ==
  LET raw == disk["raw"]
      Status(p) == IF decide[p] = raw[p].grade THEN "approved" ELSE "corrected"
      Kept(s) == {p \in Of(s) : decide[p] # None}
      Reviewed(s) == [p \in Kept(s) |->
        [grade |-> decide[p], by |-> raw[p].by, status |-> Status(p)]]
  IN /\ Whole("raw") /\ Whole("calibration")
     /\ DOMAIN raw = DOMAIN disk["calibration"]
     /\ Cardinality({p \in Pairs : decide[p] # raw[p].grade}) <= MaxOverruled
     /\ WriteBundle(Bundles[4],
          [dev |-> Reviewed("development"), release |-> Reviewed("release"),
           summary |-> [split |-> src.split, dev |-> Reviewed("development"),
                        release |-> Reviewed("release"),
                        corrected |-> Cardinality({p \in Kept("release") :
                                                     Status(p) = "corrected"}),
                        rejected |-> {p \in Pairs : decide[p] = None}]])
     /\ UNCHANGED <<src, said, pipelines>>

(***************************************************************************)
(* Nothing is overwritten: to do a phase again somebody removes its files  *)
(* and those of the phases after it by hand; what was said of packs that   *)
(* are gone is of no use.  Bound: that is done after a crash, when the     *)
(* sources have changed since the packs were made, or, which counts as a   *)
(* trouble, for the owner to review again.                                 *)
(***************************************************************************)
Needed(phase) ==
  \/ \E f \in Range(Bundles[phase]) : disk[f] = Torn
  \/ phase = 1 /\ Whole("mapping") /\ disk["mapping"].sources # Sources

StartOver(phase) ==
  LET gone == UNION {Range(Bundles[i]) : i \in phase .. Len(Bundles)}
  IN /\ \E f \in Range(Bundles[phase]) : disk[f] # None
     /\ \/ Needed(phase) /\ Troubled(0)
        \/ ~Needed(phase) /\ phase = Len(Bundles) /\ Troubled(1)
     /\ disk' = [f \in Files |-> IF f \in gone THEN None ELSE disk[f]]
     /\ said' = IF phase = 1 THEN [s \in Slots |-> None] ELSE said
     /\ UNCHANGED <<src, pipelines>>

GradingNext ==
  \/ Edit
  \/ \E a, b \in Agents : Prepare(a, b)
  \/ \E s \in Slots : Judge(s)
  \/ \E c \in Agents : Adjudicate(c)
  \/ FinalizeGrading
  \/ \E d \in [Pairs -> Grades \cup {None}] : OwnerReview(d)
  \/ \E phase \in DOMAIN Bundles : StartOver(phase)
==============================================================================

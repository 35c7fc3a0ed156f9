---------------------------- MODULE ReleaseProofs ----------------------------
(***************************************************************************)
(* Proofs about the benchmark: bundles of files are committed by their     *)
(* last file, judgments are independent where the gates pass, and a final  *)
(* report stands.                                                          *)
(***************************************************************************)
EXTENDS ReleaseInv, FiniteSetTheorems, SequenceTheorems, TLAPS

-----------------------------------------------------------------------------
(* Bundles of files. *)

LEMMA BundleFiles ==
  /\ DOMAIN Bundles = 1 .. 4 /\ Len(Bundles) = 4
  /\ Range(Bundles[1]) = {"packs", "mapping"}
  /\ Range(Bundles[2]) = {"adjpack", "adjmapping"}
  /\ Range(Bundles[3]) = {"raw", "calibration", "audit"}
  /\ Range(Bundles[4]) = {"dev", "release", "summary"}
  /\ Files = {"pool", "index", "manifest", "snapshot", "packs", "mapping", "adjpack", "adjmapping",
              "raw", "calibration", "audit", "dev", "release", "summary"}
<1>1. /\ DOMAIN Bundles = 1 .. 4 /\ Len(Bundles) = 4
      /\ Bundles[1] = <<"packs", "mapping">> /\ Bundles[2] = <<"adjpack", "adjmapping">>
      /\ Bundles[3] = <<"raw", "calibration", "audit">>
      /\ Bundles[4] = <<"dev", "release", "summary">>
  BY DEF Bundles
<1>2. Range(Bundles[1]) = {"packs", "mapping"} /\ Range(Bundles[2]) = {"adjpack", "adjmapping"}
  BY <1>1 DEF Range
<1>3. /\ Range(Bundles[3]) = {"raw", "calibration", "audit"}
      /\ Range(Bundles[4]) = {"dev", "release", "summary"}
  BY <1>1 DEF Range
<1>4. UNION {Range(Bundles[i]) : i \in 1 .. 4}
        = Range(Bundles[1]) \cup Range(Bundles[2]) \cup Range(Bundles[3]) \cup Range(Bundles[4])
  OBVIOUS
<1>5. QED
  BY <1>1, <1>2, <1>3, <1>4 DEF Files

\* What a call that writes a bundle may leave behind.
Left(files, names, value, after) ==
  LET n == Len(names) IN
  /\ DOMAIN after = DOMAIN files
  /\ \A f \in DOMAIN files \ Range(names) : after[f] = files[f]
  /\ \A f \in Range(names) : files[f] = None /\ after[f] \in {None, Torn, value[f]}
  /\ after[names[n]] \in {None, Torn} \/ \A f \in Range(names) : after[f] = value[f]

LEMMA WritesLeft ==
  ASSUME NEW files, NEW names, NEW value, NEW w \in Writes(files, names, value),
         Len(names) \in Nat \ {0}, DOMAIN names = 1 .. Len(names),
         Range(names) \subseteq DOMAIN files,
         \A i, j \in 1 .. Len(names) : names[i] = names[j] => i = j
  PROVE  Left(files, names, value, w.files) /\ w.died \in {0, 1}
<1> DEFINE n == Len(names)
<1>1. \A f \in Range(names) : files[f] = None
  BY DEF Writes
<1>2. PICK whole, created :
        /\ w.files = Bundle(files, names, value, whole, created) /\ w.died \in {0, 1}
        /\ whole \in 0 .. n /\ created \in 0 .. n /\ whole <= created
  BY <1>1 DEF Writes, Interrupted
<1>3. DOMAIN w.files = DOMAIN files
  BY <1>2 DEF Bundle
<1>4. \A f \in Range(names) : \E i \in 1 .. n : names[i] = f
  BY DEF Range
<1>5. \A i \in 1 .. n : names[i] \in Range(names)
  BY DEF Range
<1>6. ASSUME NEW f \in DOMAIN files \ Range(names) PROVE w.files[f] = files[f]
  <2>1. \A i \in 1 .. n : names[i] # f
    BY <1>5, <1>6
  <2>2. /\ ~\E i \in 1 .. whole : names[i] = f
        /\ ~\E i \in whole + 1 .. created : names[i] = f
    BY <2>1, <1>2
  <2>3. QED
    BY <1>2, <1>6, <2>2 DEF Bundle
<1>7. ASSUME NEW f \in Range(names) PROVE w.files[f] \in {None, Torn, value[f]}
  BY <1>1, <1>2, <1>7 DEF Bundle
<1>8. CASE whole = n
  <2>1. ASSUME NEW f \in Range(names) PROVE w.files[f] = value[f]
    <3>1. \E i \in 1 .. whole : names[i] = f
      BY <1>4, <1>8, <2>1
    <3>2. whole + 1 .. created = {}
      BY <1>2, <1>8
    <3>3. QED
      BY <1>2, <2>1, <3>1, <3>2 DEF Bundle
  <2>2. QED
    BY <1>1, <1>2, <1>3, <1>6, <1>7, <2>1 DEF Left
<1>9. CASE whole < n
  <2>1. names[n] \in Range(names) /\ files[names[n]] = None
    BY <1>1, <1>5
  <2>2. ~\E i \in 1 .. whole : names[i] = names[n]
    BY <1>2, <1>9
  <2>3. w.files[names[n]] \in {None, Torn}
    BY <1>2, <2>1, <2>2 DEF Bundle
  <2>4. QED
    BY <1>1, <1>2, <1>3, <1>6, <1>7, <2>3 DEF Left
<1>10. whole = n \/ whole < n
  <2>1. n \in Nat
    OBVIOUS
  <2>2. whole \in 0 .. n
    BY <1>2
  <2> HIDE DEF n
  <2>3. QED
    BY <2>1, <2>2
<1>11. QED
  BY <1>8, <1>9, <1>10

LEMMA BundleLeft ==
  ASSUME GradingTypeOK, NEW k \in 1 .. 4, NEW value, WriteBundle(Bundles[k], value)
  PROVE  Left(disk, Bundles[k], value, disk') /\ troubles' \in Nat
<1>1. CASE k \in {1, 2}
  <2>1. Bundles[k] \in {<<"packs", "mapping">>, <<"adjpack", "adjmapping">>}
    BY <1>1 DEF Bundles
  <2>2. /\ Len(Bundles[k]) = 2 /\ DOMAIN Bundles[k] = 1 .. 2 /\ Bundles[k][1] # Bundles[k][2]
    BY <2>1
  <2>3. Range(Bundles[k]) \subseteq DOMAIN disk
    BY <1>1, BundleFiles DEF GradingTypeOK, FileTypeOK
  <2>4. \A i, j \in 1 .. 2 : Bundles[k][i] = Bundles[k][j] => i = j
    BY <2>2
  <2>5. PICK w \in Writes(disk, Bundles[k], value) : disk' = w.files /\ Troubled(w.died)
    BY DEF WriteBundle
  <2>6. Left(disk, Bundles[k], value, w.files) /\ w.died \in {0, 1}
    BY <2>2, <2>3, <2>4, WritesLeft
  <2>7. QED
    BY <2>5, <2>6 DEF Troubled, GradingTypeOK
<1>2. CASE k \in {3, 4}
  <2>1. Bundles[k] \in {<<"raw", "calibration", "audit">>, <<"dev", "release", "summary">>}
    BY <1>2 DEF Bundles
  <2>2. /\ Len(Bundles[k]) = 3 /\ DOMAIN Bundles[k] = 1 .. 3
        /\ Bundles[k][1] # Bundles[k][2] /\ Bundles[k][1] # Bundles[k][3]
        /\ Bundles[k][2] # Bundles[k][3]
    BY <2>1
  <2>3. Range(Bundles[k]) \subseteq DOMAIN disk
    BY <1>2, BundleFiles DEF GradingTypeOK, FileTypeOK
  <2>4. \A i, j \in 1 .. 3 : Bundles[k][i] = Bundles[k][j] => i = j
    BY <2>2
  <2>5. PICK w \in Writes(disk, Bundles[k], value) : disk' = w.files /\ Troubled(w.died)
    BY DEF WriteBundle
  <2>6. Left(disk, Bundles[k], value, w.files) /\ w.died \in {0, 1}
    BY <2>2, <2>3, <2>4, WritesLeft
  <2>7. QED
    BY <2>5, <2>6 DEF Troubled, GradingTypeOK
<1>3. QED
  BY <1>1, <1>2

-----------------------------------------------------------------------------
(* The phases of the grading. *)

PipelineFiles ==
  {"packs", "mapping", "adjpack", "adjmapping", "raw", "calibration", "audit",
   "dev", "release", "summary"}

\* The last file of each bundle, by name.
LEMMA LastFiles ==
  LastFileCommits <=>
    /\ Whole("mapping") => Whole("packs")
    /\ Whole("adjmapping") => Whole("adjpack")
    /\ Whole("audit") => Whole("raw") /\ Whole("calibration")
    /\ Whole("summary") => Whole("dev") /\ Whole("release")
    /\ Whole("manifest") => Whole("index")
<1>1. /\ Bundles[1][Len(Bundles[1])] = "mapping" /\ Bundles[2][Len(Bundles[2])] = "adjmapping"
      /\ Bundles[3][Len(Bundles[3])] = "audit" /\ Bundles[4][Len(Bundles[4])] = "summary"
  BY DEF Bundles
<1>2. QED
  BY <1>1, BundleFiles DEF LastFileCommits

\* Steps that leave the files of the grading and what was handed in alone.
LEMMA GradingFrame ==
  ASSUME Inv, said' = said, \A f \in PipelineFiles : disk'[f] = disk[f],
         Whole("manifest")' => Whole("index")'
  PROVE  GradingInv'
<1>1. \A f \in PipelineFiles : Whole(f)' <=> Whole(f)
  BY DEF Whole
<1>2. LastFileCommits'
  <2>1. /\ Whole("mapping") => Whole("packs")
        /\ Whole("adjmapping") => Whole("adjpack")
        /\ Whole("audit") => Whole("raw") /\ Whole("calibration")
        /\ Whole("summary") => Whole("dev") /\ Whole("release")
    BY LastFiles DEF Inv, GradingInv
  <2>2. /\ Whole("mapping")' => Whole("packs")'
        /\ Whole("adjmapping")' => Whole("adjpack")'
        /\ Whole("audit")' => Whole("raw")' /\ Whole("calibration")'
        /\ Whole("summary")' => Whole("dev")' /\ Whole("release")'
    BY <1>1, <2>1 DEF PipelineFiles
  <2>3. QED
    BY <2>2, LastFiles, PTL
<1>3. (BothAnswer' <=> BothAnswer) /\ Disagreements' = Disagreements
  BY <1>1 DEF BothAnswer, Disagreements, PipelineFiles
<1>4. PacksApart' /\ GradersAnswer'
  BY <1>1 DEF Inv, GradingInv, PacksApart, GradersAnswer, Answers, PipelineFiles
<1>5. AdjudicatorAnswers'
  BY <1>1, <1>3 DEF Inv, GradingInv, AdjudicatorAnswers, PipelineFiles
<1>6. (Adjudicated' <=> Adjudicated) /\ \A p \in Pairs : Selected(p)' = Selected(p)
  BY <1>1, <1>3 DEF Adjudicated, Answers, Selected, PipelineFiles
<1>7. RawIsSelected' /\ AuditIsMapped' /\ ReviewIsOfRaw'
  BY <1>1, <1>3, <1>6 DEF Inv, GradingInv, RawIsSelected, AuditIsMapped, ReviewIsOfRaw, PipelineFiles
<1>8. QED
  BY <1>2, <1>4, <1>5, <1>7 DEF GradingInv

\* When there are no packs, nothing of the grading is left and nothing is handed in.
LEMMA NothingWithoutPacks ==
  ASSUME Inv, ~Whole("packs")
  PROVE  /\ \A f \in {"mapping", "adjpack", "adjmapping", "raw", "audit", "summary"} : ~Whole(f)
         /\ \A s \in Slots : said[s] = None
<1>1. ~Whole("mapping")
  BY LastFiles DEF Inv, GradingInv
<1>2. ~Whole("adjpack") /\ ~Whole("raw") /\ said["a"] = None /\ said["b"] = None /\ said["c"] = None
  BY <1>1 DEF Inv, GradingInv, GradersAnswer, AdjudicatorAnswers, RawIsSelected, BothAnswer
<1>3. ~Whole("adjmapping") /\ ~Whole("audit") /\ ~Whole("summary")
  BY <1>2, LastFiles DEF Inv, GradingInv, AuditIsMapped, ReviewIsOfRaw
<1>4. QED
  BY <1>1, <1>2, <1>3 DEF Slots

LEMMA PrepareKeeps ==
  ASSUME Inv, NEW a \in Agents, NEW b \in Agents, Prepare(a, b)
  PROVE  GradingTypeOK' /\ GradingInv' /\ FreezeAgrees'
<1> DEFINE m == [pipe |-> pipelines, sources |-> Sources, a |-> a, b |-> b]
           value == [f \in {"packs", "mapping"} |-> m]
<1>1. Left(disk, Bundles[1], value, disk') /\ troubles' \in Nat
  BY BundleLeft DEF Prepare, Inv, TypeOK
<1>2. /\ Range(Bundles[1]) = {"packs", "mapping"}
      /\ Bundles[1][Len(Bundles[1])] = "mapping" /\ DOMAIN disk = Files
  BY BundleFiles DEF Bundles, Inv, TypeOK, GradingTypeOK, FileTypeOK
<1>3. m \in Pack /\ m \notin {None, Torn}
  <2>1. Sources \in PoolSources /\ pipelines \in Nat
    BY BundleFiles
       DEF Prepare, Inv, TypeOK, GradingTypeOK, FileTypeOK, Content, Sources, PoolSources, SourceTexts
  <2>2. m \in Pack
    BY <2>1 DEF Pack
  <2>3. QED
    BY <2>2, AbsentAssumption
<1>4. /\ disk["packs"] = None /\ disk["mapping"] = None
      /\ disk'["packs"] \in {None, Torn, m} /\ disk'["mapping"] \in {None, Torn, m}
      /\ disk'["mapping"] \in {None, Torn} \/ (disk'["packs"] = m /\ disk'["mapping"] = m)
      /\ DOMAIN disk' = Files /\ \A f \in Files \ {"packs", "mapping"} : disk'[f] = disk[f]
  BY <1>1, <1>2 DEF Left
<1> HIDE DEF m, value
<1>5. /\ \A f \in Files \ {"packs", "mapping"} : Whole(f)' <=> Whole(f)
      /\ ~Whole("packs") /\ ~Whole("mapping")
      /\ Whole("packs")' => disk'["packs"] = m
      /\ Whole("mapping")' => disk'["mapping"] = m /\ disk'["packs"] = m /\ Whole("packs")'
  BY <1>3, <1>4 DEF Whole
<1>6. /\ \A f \in {"adjpack", "adjmapping", "raw", "audit", "summary"} : ~Whole(f)'
      /\ said' = said /\ \A s \in Slots : said[s] = None
  BY <1>5, NothingWithoutPacks, BundleFiles DEF Prepare
<1>7. GradingTypeOK'
  <2>1. Content("packs") = Pack /\ Content("mapping") = Pack
    BY DEF Content
  <2>2. ASSUME NEW f \in Files, Whole(f)' PROVE disk'[f] \in Content(f)
    BY <1>3, <1>4, <1>5, <2>1, <2>2 DEF Inv, TypeOK, GradingTypeOK, FileTypeOK
  <2>3. FileTypeOK'
    BY <1>4, <2>2, BundleFiles DEF Inv, TypeOK, GradingTypeOK, FileTypeOK
  <2>4. QED
    BY <1>1, <2>3 DEF Inv, TypeOK, GradingTypeOK, Prepare
<1>8. LastFileCommits'
  <2>1. Whole("manifest")' => Whole("index")'
    BY <1>5, LastFiles, BundleFiles DEF Inv, GradingInv
  <2>2. /\ Whole("mapping")' => Whole("packs")'
        /\ Whole("adjmapping")' => Whole("adjpack")'
        /\ Whole("audit")' => Whole("raw")' /\ Whole("calibration")'
        /\ Whole("summary")' => Whole("dev")' /\ Whole("release")'
    BY <1>5, <1>6
  <2>3. QED
    BY <2>1, <2>2, LastFiles, PTL
<1>9. PacksApart'
  BY <1>5 DEF PacksApart, Prepare, Independent, m
<1>10. GradersAnswer' /\ AdjudicatorAnswers' /\ RawIsSelected' /\ AuditIsMapped' /\ ReviewIsOfRaw'
  BY <1>6 DEF GradersAnswer, AdjudicatorAnswers, RawIsSelected, AuditIsMapped, ReviewIsOfRaw, Slots
<1>11. FreezeAgrees'
  BY <1>4, <1>5, BundleFiles DEF Inv, FreezeAgrees
<1>12. QED
  BY <1>7, <1>8, <1>9, <1>10, <1>11 DEF GradingInv

\* What a judge hands in is of the type, and replaces one entry.
LEMMA Handing ==
  ASSUME Inv, NEW s \in Slots, NEW pack, NEW asked \in SUBSET Pairs,
         pack.pipe \in Nat, pack[s] \in Agents, NEW g \in [asked -> Grades],
         said' = [said EXCEPT ![s] = [pipe |-> pack.pipe, by |-> pack[s], grades |-> g]]
  PROVE  /\ said'[s] = [pipe |-> pack.pipe, by |-> pack[s], grades |-> g] /\ said'[s] # None
         /\ \A t \in Slots \ {s} : said'[t] = said[t]
         /\ said' \in [Slots -> Handed \cup {None}]
<1>1. [pipe |-> pack.pipe, by |-> pack[s], grades |-> g] \in Handed
  BY DEF Handed
<1>2. QED
  BY <1>1, AbsentAssumption DEF Inv, TypeOK, GradingTypeOK

LEMMA GraderKeeps ==
  ASSUME Inv, NEW s \in {"a", "b"}, Judge(s)
  PROVE  GradingTypeOK' /\ GradingInv'
<1> DEFINE pack == disk["packs"]
<1>1. PICK g \in [Pairs -> Grades] :
        said' = [said EXCEPT ![s] = [pipe |-> pack.pipe, by |-> pack[s], grades |-> g]]
  BY DEF Judge
<1>2. /\ Whole("packs") /\ ~Answers(s, pack, pack[s]) /\ s \in Slots
      /\ UNCHANGED <<src, disk, pipelines, troubles>>
  BY DEF Judge, Whole, Slots
<1>3. pack \in Pack
  BY <1>2, BundleFiles DEF Inv, TypeOK, GradingTypeOK, FileTypeOK, Content
<1>4. pack.pipe \in Nat /\ pack[s] \in Agents
  BY <1>3 DEF Pack
<1>5. /\ said'[s] = [pipe |-> pack.pipe, by |-> pack[s], grades |-> g] /\ said'[s] # None
      /\ \A t \in Slots \ {s} : said'[t] = said[t]
      /\ said' \in [Slots -> Handed \cup {None}]
  BY <1>1, <1>2, <1>4, Handing
<1>6. said[s] = None /\ ~BothAnswer
  BY <1>2 DEF Inv, GradingInv, GradersAnswer, BothAnswer
<1>7. ~Whole("adjpack") /\ ~Whole("adjmapping") /\ ~Whole("raw") /\ ~Whole("audit") /\ ~Whole("summary")
      /\ said["c"] = None
  BY <1>6, LastFiles
     DEF Inv, GradingInv, AdjudicatorAnswers, RawIsSelected, AuditIsMapped, ReviewIsOfRaw
<1>8. disk' = disk /\ \A f : Whole(f)' <=> Whole(f)
  BY <1>2 DEF Whole
<1>9. GradingTypeOK'
  BY <1>2, <1>5, <1>8 DEF Inv, TypeOK, GradingTypeOK, FileTypeOK
<1>10. LastFileCommits' /\ PacksApart'
  BY <1>8 DEF Inv, GradingInv, LastFileCommits, PacksApart
<1>11. GradersAnswer'
  <2>1. ASSUME NEW t \in {"a", "b"}, said'[t] # None
        PROVE  /\ Whole("packs") /\ said'[t].pipe = pack.pipe /\ said'[t].by = pack[t]
               /\ said'[t].grades \in [Pairs -> Grades]
    <3>1. CASE t = s
      BY <1>2, <1>5, <3>1
    <3>2. CASE t # s
      <4>1. said'[t] = said[t]
        BY <1>5, <3>2 DEF Slots
      <4>2. QED
        BY <2>1, <4>1 DEF Inv, GradingInv, GradersAnswer, Answers
    <3>3. QED
      BY <3>1, <3>2
  <2>2. QED
    BY <1>8, <2>1 DEF GradersAnswer, Answers
<1>12. AdjudicatorAnswers' /\ RawIsSelected' /\ AuditIsMapped' /\ ReviewIsOfRaw'
  <2>1. said'["c"] = None
    BY <1>5, <1>7 DEF Slots
  <2>2. QED
    BY <1>7, <1>8, <2>1 DEF AdjudicatorAnswers, RawIsSelected, AuditIsMapped, ReviewIsOfRaw
<1>13. QED
  BY <1>9, <1>10, <1>11, <1>12 DEF GradingInv

LEMMA AdjudicatorKeeps ==
  ASSUME Inv, Judge("c")
  PROVE  GradingTypeOK' /\ GradingInv'
<1> DEFINE pack == disk["adjpack"]
<1>1. PICK g \in [pack.pairs -> Grades] :
        said' = [said EXCEPT !["c"] = [pipe |-> pack.pipe, by |-> pack["c"], grades |-> g]]
  BY DEF Judge
<1>2. /\ Whole("adjpack") /\ ~Answers("c", pack, pack["c"]) /\ "c" \in Slots
      /\ UNCHANGED <<src, disk, pipelines, troubles>>
  BY DEF Judge, Whole, Slots
<1>3. pack \in AdjudicationPack
  BY <1>2, BundleFiles DEF Inv, TypeOK, GradingTypeOK, FileTypeOK, Content
<1>4. pack.pipe \in Nat /\ pack["c"] \in Agents /\ pack.pairs \in SUBSET Pairs
  BY <1>3 DEF AdjudicationPack
<1>5. /\ said'["c"] = [pipe |-> pack.pipe, by |-> pack["c"], grades |-> g] /\ said'["c"] # None
      /\ said'["a"] = said["a"] /\ said'["b"] = said["b"]
      /\ said' \in [Slots -> Handed \cup {None}]
  <2>1. "c" \in Slots /\ "a" \in Slots \ {"c"} /\ "b" \in Slots \ {"c"}
    BY DEF Slots
  <2>2. QED
    BY <1>1, <1>4, <2>1, Handing
<1>6. disk' = disk /\ \A f : Whole(f)' <=> Whole(f)
  BY <1>2 DEF Whole
<1>7. BothAnswer /\ BothAnswer' /\ Disagreements' = Disagreements /\ pack.pairs = Disagreements
  BY <1>2, <1>5, <1>6 DEF Inv, GradingInv, AdjudicatorAnswers, BothAnswer, Disagreements
<1>8. GradingTypeOK'
  BY <1>2, <1>5, <1>6 DEF Inv, TypeOK, GradingTypeOK, FileTypeOK
<1>9. LastFileCommits' /\ PacksApart'
  BY <1>6 DEF Inv, GradingInv, LastFileCommits, PacksApart
<1>10. GradersAnswer'
  BY <1>5, <1>6 DEF Inv, GradingInv, GradersAnswer, Answers
<1>11. AdjudicatorAnswers'
  BY <1>5, <1>6, <1>7 DEF Inv, GradingInv, AdjudicatorAnswers
<1>12. RawIsSelected'
  <2>1. SUFFICES ASSUME Whole("raw") PROVE RawIsSelected'
    BY <1>6 DEF RawIsSelected
  <2>2. Disagreements = {}
    BY <1>2, <2>1 DEF Inv, GradingInv, RawIsSelected, Adjudicated, AdjudicatorAnswers
  <2>3. \A p \in Pairs : Selected(p)' = Selected(p)
    BY <1>5, <1>7, <2>2 DEF Selected
  <2>4. QED
    BY <1>6, <1>7, <2>1, <2>2, <2>3 DEF Inv, GradingInv, RawIsSelected
<1>13. AuditIsMapped' /\ ReviewIsOfRaw'
  BY <1>6 DEF Inv, GradingInv, AuditIsMapped, ReviewIsOfRaw
<1>14. QED
  BY <1>8, <1>9, <1>10, <1>11, <1>12, <1>13 DEF GradingInv

LEMMA AdjudicateKeeps ==
  ASSUME Inv, NEW c \in Agents, Adjudicate(c)
  PROVE  GradingTypeOK' /\ GradingInv' /\ FreezeAgrees'
<1> DEFINE m == [pipe |-> disk["mapping"].pipe, c |-> c, pairs |-> Disagreements]
           value == [f \in {"adjpack", "adjmapping"} |-> m]
<1>1. Left(disk, Bundles[2], value, disk') /\ troubles' \in Nat
  BY BundleLeft DEF Adjudicate, Inv, TypeOK
<1>2. /\ Range(Bundles[2]) = {"adjpack", "adjmapping"}
      /\ Bundles[2][Len(Bundles[2])] = "adjmapping" /\ DOMAIN disk = Files
  BY BundleFiles DEF Bundles, Inv, TypeOK, GradingTypeOK, FileTypeOK
<1>3. BothAnswer /\ DoubleGraded
  BY DEF Adjudicate, DoubleGraded, Answers, BothAnswer
<1>4. m \in AdjudicationPack /\ m \notin {None, Torn}
  <2>1. disk["mapping"] \in Pack
    BY <1>3, BundleFiles DEF BothAnswer, Inv, TypeOK, GradingTypeOK, FileTypeOK, Content
  <2>2. m \in AdjudicationPack
    BY <2>1 DEF AdjudicationPack, Pack, Disagreements
  <2>3. QED
    BY <2>2, AbsentAssumption
<1>5. /\ disk["adjpack"] = None /\ disk["adjmapping"] = None
      /\ disk'["adjpack"] \in {None, Torn, m} /\ disk'["adjmapping"] \in {None, Torn, m}
      /\ disk'["adjmapping"] \in {None, Torn} \/ (disk'["adjpack"] = m /\ disk'["adjmapping"] = m)
      /\ DOMAIN disk' = Files /\ \A f \in Files \ {"adjpack", "adjmapping"} : disk'[f] = disk[f]
  BY <1>1, <1>2 DEF Left
<1>6. UNCHANGED <<src, said, pipelines>>
  BY DEF Adjudicate
<1>7. m.pipe = disk["mapping"].pipe /\ m.pairs = Disagreements
  OBVIOUS
<1> HIDE DEF m, value
<1>8. /\ \A f \in Files \ {"adjpack", "adjmapping"} : Whole(f)' <=> Whole(f)
      /\ ~Whole("adjpack") /\ ~Whole("adjmapping")
      /\ Whole("adjpack")' => disk'["adjpack"] = m
      /\ Whole("adjmapping")' => /\ disk'["adjmapping"] = m /\ disk'["adjpack"] = m
                                 /\ Whole("adjpack")'
  BY <1>4, <1>5 DEF Whole
<1>9. GradingTypeOK'
  <2>1. Content("adjpack") = AdjudicationPack /\ Content("adjmapping") = AdjudicationPack
    BY DEF Content
  <2>2. ASSUME NEW f \in Files, Whole(f)' PROVE disk'[f] \in Content(f)
    BY <1>4, <1>5, <1>8, <2>1, <2>2 DEF Inv, TypeOK, GradingTypeOK, FileTypeOK
  <2>3. FileTypeOK'
    BY <1>5, <2>2, BundleFiles DEF Inv, TypeOK, GradingTypeOK, FileTypeOK
  <2>4. QED
    BY <1>1, <1>6, <2>3 DEF Inv, TypeOK, GradingTypeOK
<1>10. LastFileCommits'
  <2>1. Whole("manifest")' => Whole("index")'
    BY <1>8, LastFiles, BundleFiles DEF Inv, GradingInv
  <2>2. /\ Whole("mapping")' => Whole("packs")'
        /\ Whole("adjmapping")' => Whole("adjpack")'
        /\ Whole("audit")' => Whole("raw")' /\ Whole("calibration")'
        /\ Whole("summary")' => Whole("dev")' /\ Whole("release")'
    BY <1>8, LastFiles, BundleFiles DEF Inv, GradingInv
  <2>3. QED
    BY <2>1, <2>2, LastFiles, PTL
<1>11. /\ disk'["packs"] = disk["packs"] /\ disk'["mapping"] = disk["mapping"]
       /\ disk'["raw"] = disk["raw"] /\ disk'["audit"] = disk["audit"]
       /\ disk'["summary"] = disk["summary"]
       /\ \A f \in {"packs", "mapping", "raw", "audit", "summary"} : Whole(f)' <=> Whole(f)
  BY <1>5, <1>8, BundleFiles
<1>12. BothAnswer' /\ Disagreements' = Disagreements
  BY <1>3, <1>6, <1>11 DEF BothAnswer, Disagreements
<1>13. PacksApart' /\ GradersAnswer'
  BY <1>6, <1>11 DEF Inv, GradingInv, PacksApart, GradersAnswer, Answers
<1>14. AdjudicatorAnswers'
  BY <1>6, <1>7, <1>8, <1>11, <1>12 DEF Inv, GradingInv, AdjudicatorAnswers
<1>15. RawIsSelected'
  <2>1. Whole("raw") => Disagreements = {}
    BY <1>8 DEF Inv, GradingInv, RawIsSelected, Adjudicated
  <2>2. \A p \in Pairs : Selected(p)' = Selected(p)
    BY <1>6, <1>12 DEF Selected
  <2>3. QED
    BY <1>11, <1>12, <2>1, <2>2 DEF Inv, GradingInv, RawIsSelected
<1>16. AuditIsMapped' /\ ReviewIsOfRaw'
  BY <1>11 DEF Inv, GradingInv, AuditIsMapped, ReviewIsOfRaw
<1>17. FreezeAgrees'
  BY <1>5, <1>8, BundleFiles DEF Inv, FreezeAgrees
<1>18. QED
  BY <1>9, <1>10, <1>13, <1>14, <1>15, <1>16, <1>17 DEF GradingInv

LEMMA FinalizeKeeps ==
  ASSUME Inv, FinalizeGrading
  PROVE  GradingTypeOK' /\ GradingInv' /\ FreezeAgrees'
<1> DEFINE raw == [p \in Pairs |-> Selected(p)]
           rows == [p \in Pairs |-> [slot \in {"a", "b"} |-> said[slot].grades[p]]]
           audit == [pipe |-> disk["mapping"].pipe, sources |-> Sources]
           value == [raw |-> raw, calibration |-> rows, audit |-> audit]
<1>1. Left(disk, Bundles[3], value, disk') /\ troubles' \in Nat
  BY BundleLeft DEF FinalizeGrading, Inv, TypeOK
<1>2. /\ Range(Bundles[3]) = {"raw", "calibration", "audit"}
      /\ Bundles[3][Len(Bundles[3])] = "audit" /\ DOMAIN disk = Files
  BY BundleFiles DEF Bundles, Inv, TypeOK, GradingTypeOK, FileTypeOK
<1>3. /\ BothAnswer
      /\ Disagreements # {} => Adjudicated
      /\ disk["mapping"].sources = Sources /\ Whole("pool") /\ Whole("mapping")
      /\ UNCHANGED <<src, said, pipelines>>
  BY DEF FinalizeGrading, DoubleGraded, Answers, BothAnswer
<1>4. /\ disk["mapping"] \in Pack
      /\ \A s \in {"a", "b"} : said[s].grades \in [Pairs -> Grades] /\ said[s] \in Handed
  <2>1. said["a"] \in Handed /\ said["b"] \in Handed
    BY <1>3 DEF BothAnswer, Inv, TypeOK, GradingTypeOK, Slots
  <2>2. QED
    BY <1>3, <2>1, BundleFiles
       DEF BothAnswer, Inv, TypeOK, GradingTypeOK, FileTypeOK, Content, GradingInv, GradersAnswer
<1>5. raw \in RawJudgments /\ rows \in CalibrationRows /\ audit \in Audit
  <2>1. ASSUME NEW p \in Pairs PROVE Selected(p) \in [grade: Grades, by: Agents]
    <3>1. CASE p \in Disagreements
      <4>1. said["c"] # None
        BY <1>3, <3>1 DEF Adjudicated, Answers
      <4>2. said["c"] \in Handed /\ said["c"].grades \in [Disagreements -> Grades]
        BY <4>1 DEF Inv, TypeOK, GradingTypeOK, Slots, GradingInv, AdjudicatorAnswers
      <4>3. QED
        BY <3>1, <4>2 DEF Selected, Handed
    <3>2. CASE p \notin Disagreements
      BY <1>4, <3>2 DEF Selected, Handed
    <3>3. QED
      BY <3>1, <3>2
  <2>2. rows \in CalibrationRows
    BY <1>4 DEF CalibrationRows
  <2>3. audit \in Audit
    BY <1>3, <1>4 DEF Audit, Pack
  <2>4. QED
    BY <2>1, <2>2, <2>3 DEF RawJudgments
<1>6. /\ raw \notin {None, Torn} /\ rows \notin {None, Torn} /\ audit \notin {None, Torn}
  BY <1>5, AbsentAssumption
<1>7. /\ disk["raw"] = None /\ disk["calibration"] = None /\ disk["audit"] = None
      /\ disk'["raw"] \in {None, Torn, raw} /\ disk'["calibration"] \in {None, Torn, rows}
      /\ disk'["audit"] \in {None, Torn, audit}
      /\ \/ disk'["audit"] \in {None, Torn}
         \/ disk'["raw"] = raw /\ disk'["calibration"] = rows /\ disk'["audit"] = audit
      /\ DOMAIN disk' = Files
      /\ \A f \in Files \ {"raw", "calibration", "audit"} : disk'[f] = disk[f]
  BY <1>1, <1>2 DEF Left
<1>8. audit.sources = disk["mapping"].sources /\ \A p \in Pairs : raw[p] = Selected(p)
  BY <1>3
<1> HIDE DEF raw, rows, audit, value
<1>9. /\ \A f \in Files \ {"raw", "calibration", "audit"} : Whole(f)' <=> Whole(f)
      /\ ~Whole("raw") /\ ~Whole("calibration") /\ ~Whole("audit")
      /\ Whole("raw")' => disk'["raw"] = raw
      /\ Whole("calibration")' => disk'["calibration"] = rows
      /\ Whole("audit")' => disk'["audit"] = audit /\ Whole("raw")' /\ Whole("calibration")'
  BY <1>6, <1>7 DEF Whole
<1>10. ~Whole("summary")
  BY <1>9 DEF Inv, GradingInv, ReviewIsOfRaw
<1>11. GradingTypeOK'
  <2>1. /\ Content("raw") = RawJudgments /\ Content("calibration") = CalibrationRows
        /\ Content("audit") = Audit
    BY DEF Content
  <2>2. ASSUME NEW f \in Files, Whole(f)' PROVE disk'[f] \in Content(f)
    BY <1>5, <1>7, <1>9, <2>1, <2>2 DEF Inv, TypeOK, GradingTypeOK, FileTypeOK
  <2>3. FileTypeOK'
    BY <1>7, <2>2, BundleFiles DEF Inv, TypeOK, GradingTypeOK, FileTypeOK
  <2>4. QED
    BY <1>1, <1>3, <2>3 DEF Inv, TypeOK, GradingTypeOK
<1>12. LastFileCommits'
  <2>1. Whole("manifest")' => Whole("index")'
    BY <1>9, LastFiles, BundleFiles DEF Inv, GradingInv
  <2>2. /\ Whole("mapping")' => Whole("packs")'
        /\ Whole("adjmapping")' => Whole("adjpack")'
        /\ Whole("audit")' => Whole("raw")' /\ Whole("calibration")'
        /\ Whole("summary")' => Whole("dev")' /\ Whole("release")'
    BY <1>9, LastFiles, BundleFiles DEF Inv, GradingInv
  <2>3. QED
    BY <2>1, <2>2, LastFiles, PTL
<1>13. /\ \A f \in {"packs", "mapping", "adjpack", "adjmapping", "summary"} :
            disk'[f] = disk[f] /\ (Whole(f)' <=> Whole(f))
  BY <1>7, <1>9, BundleFiles
<1>14. BothAnswer' /\ Disagreements' = Disagreements /\ (Adjudicated' <=> Adjudicated)
  BY <1>3, <1>13 DEF BothAnswer, Disagreements, Adjudicated, Answers
<1>15. PacksApart' /\ GradersAnswer' /\ AdjudicatorAnswers'
  BY <1>3, <1>13, <1>14
     DEF Inv, GradingInv, PacksApart, GradersAnswer, Answers, AdjudicatorAnswers
<1>16. RawIsSelected'
  <2>1. \A p \in Pairs : Selected(p)' = Selected(p)
    BY <1>3, <1>14 DEF Selected
  <2>2. QED
    BY <1>3, <1>8, <1>9, <1>14, <2>1 DEF RawIsSelected
<1>17. AuditIsMapped' /\ ReviewIsOfRaw'
  BY <1>8, <1>9, <1>10, <1>13 DEF AuditIsMapped, ReviewIsOfRaw
<1>18. FreezeAgrees'
  BY <1>7, <1>9, BundleFiles DEF Inv, FreezeAgrees
<1>19. QED
  BY <1>11, <1>12, <1>15, <1>16, <1>17, <1>18 DEF GradingInv

LEMMA OwnerReviewKeeps ==
  ASSUME Inv, NEW decide \in [Pairs -> Grades \cup {None}], OwnerReview(decide)
  PROVE  GradingTypeOK' /\ GradingInv' /\ FreezeAgrees'
<1> DEFINE raw == disk["raw"]
           Status(p) == IF decide[p] = raw[p].grade THEN "approved" ELSE "corrected"
           Kept(s) == {p \in Of(s) : decide[p] # None}
           Reviewed(s) == [p \in Kept(s) |->
             [grade |-> decide[p], by |-> raw[p].by, status |-> Status(p)]]
           corrected == Cardinality({p \in Kept("release") : Status(p) = "corrected"})
           summary == [split |-> src.split, dev |-> Reviewed("development"),
                       release |-> Reviewed("release"), corrected |-> corrected,
                       rejected |-> {p \in Pairs : decide[p] = None}]
           value == [dev |-> Reviewed("development"), release |-> Reviewed("release"),
                     summary |-> summary]
<1>1. Left(disk, Bundles[4], value, disk') /\ troubles' \in Nat
  BY BundleLeft DEF OwnerReview, Inv, TypeOK
<1>2. /\ Range(Bundles[4]) = {"dev", "release", "summary"}
      /\ Bundles[4][Len(Bundles[4])] = "summary" /\ DOMAIN disk = Files
  BY BundleFiles DEF Bundles, Inv, TypeOK, GradingTypeOK, FileTypeOK
<1>3. Whole("raw") /\ UNCHANGED <<src, said, pipelines>>
  BY DEF OwnerReview
<1>4. raw \in RawJudgments
  BY <1>3, BundleFiles DEF Inv, TypeOK, GradingTypeOK, FileTypeOK, Content
<1>5. ASSUME NEW s PROVE Reviewed(s) \in Qrels
  <2>1. Kept(s) \in SUBSET Pairs
    BY DEF Of
  <2>2. Reviewed(s) \in [Kept(s) -> [grade: Grades, by: Agents, status: {"approved", "corrected"}]]
    BY <1>4, <2>1 DEF RawJudgments
  <2>3. QED
    BY <2>1, <2>2 DEF Qrels
<1>6. corrected \in Nat
  <2>1. IsFiniteSet(Pairs)
    BY GradingAssumption, FS_Product DEF Pairs
  <2>2. {p \in Kept("release") : Status(p) = "corrected"} \subseteq Pairs
    BY DEF Of
  <2>3. QED
    BY <2>1, <2>2, FS_Subset, FS_CardinalityType
<1>7. summary \in Summary
  <2>1. src.split \in [Queries -> Splits]
    BY DEF Inv, TypeOK, GradingTypeOK, SourceTexts
  <2> HIDE DEF corrected, Reviewed
  <2>2. QED
    BY <1>5, <1>6, <2>1 DEF Summary
<1>8. \A part \in {"dev", "release"} : \A p \in DOMAIN summary[part] :
        LET q == summary[part][p] IN
        /\ q.by = disk["raw"][p].by
        /\ q.status = "approved" <=> q.grade = disk["raw"][p].grade
  <2>1. ASSUME NEW s, NEW p \in DOMAIN Reviewed(s)
        PROVE  /\ Reviewed(s)[p].by = raw[p].by
               /\ Reviewed(s)[p].status = "approved" <=> Reviewed(s)[p].grade = raw[p].grade
    OBVIOUS
  <2> HIDE DEF Reviewed
  <2>2. QED
    BY <2>1
<1>9. Reviewed("development") \in Qrels /\ Reviewed("release") \in Qrels
  BY <1>5
<1>10. \A f \in {"dev", "release"} : value[f] \in Qrels /\ value[f] \notin {None, Torn}
  <2> HIDE DEF Reviewed, summary
  <2>1. QED
    BY <1>9, AbsentAssumption
<1>11. value["summary"] = summary /\ summary \notin {None, Torn}
  <2>1. value["summary"] = summary
    OBVIOUS
  <2> HIDE DEF summary
  <2>2. QED
    BY <1>7, <2>1, AbsentAssumption
<1> HIDE DEF value, summary, raw
<1>12. /\ disk["dev"] = None /\ disk["release"] = None /\ disk["summary"] = None
       /\ disk'["dev"] \in {None, Torn, value["dev"]}
       /\ disk'["release"] \in {None, Torn, value["release"]}
       /\ disk'["summary"] \in {None, Torn, summary}
       /\ \/ disk'["summary"] \in {None, Torn}
          \/ disk'["dev"] = value["dev"] /\ disk'["release"] = value["release"]
             /\ disk'["summary"] = summary
       /\ DOMAIN disk' = Files
       /\ \A f \in Files \ {"dev", "release", "summary"} : disk'[f] = disk[f]
  BY <1>1, <1>2, <1>11 DEF Left
<1>13. /\ \A f \in Files \ {"dev", "release", "summary"} : Whole(f)' <=> Whole(f)
       /\ Whole("dev")' => disk'["dev"] = value["dev"]
       /\ Whole("release")' => disk'["release"] = value["release"]
       /\ Whole("summary")' => disk'["summary"] = summary /\ Whole("dev")' /\ Whole("release")'
  BY <1>10, <1>11, <1>12 DEF Whole
<1>14. GradingTypeOK'
  <2>1. Content("dev") = Qrels /\ Content("release") = Qrels /\ Content("summary") = Summary
    BY DEF Content
  <2>2. ASSUME NEW f \in Files, Whole(f)' PROVE disk'[f] \in Content(f)
    BY <1>7, <1>10, <1>12, <1>13, <2>1, <2>2 DEF Inv, TypeOK, GradingTypeOK, FileTypeOK
  <2>3. FileTypeOK'
    BY <1>12, <2>2, BundleFiles DEF Inv, TypeOK, GradingTypeOK, FileTypeOK
  <2>4. QED
    BY <1>1, <1>3, <2>3 DEF Inv, TypeOK, GradingTypeOK
<1>15. /\ \A f \in {"packs", "mapping", "adjpack", "adjmapping", "raw", "calibration", "audit"} :
            disk'[f] = disk[f] /\ (Whole(f)' <=> Whole(f))
  BY <1>12, <1>13, BundleFiles
<1>16. LastFileCommits'
  <2>1. Whole("manifest")' => Whole("index")'
    BY <1>13, LastFiles, BundleFiles DEF Inv, GradingInv
  <2>2. /\ Whole("mapping")' => Whole("packs")'
        /\ Whole("adjmapping")' => Whole("adjpack")'
        /\ Whole("audit")' => Whole("raw")' /\ Whole("calibration")'
        /\ Whole("summary")' => Whole("dev")' /\ Whole("release")'
    BY <1>13, <1>15, LastFiles DEF Inv, GradingInv
  <2>3. QED
    BY <2>1, <2>2, LastFiles, PTL
<1>17. BothAnswer' = BothAnswer /\ Disagreements' = Disagreements /\ (Adjudicated' <=> Adjudicated)
  BY <1>3, <1>15 DEF BothAnswer, Disagreements, Adjudicated, Answers
<1>18. PacksApart' /\ GradersAnswer' /\ AdjudicatorAnswers'
  BY <1>3, <1>15, <1>17
     DEF Inv, GradingInv, PacksApart, GradersAnswer, Answers, AdjudicatorAnswers
<1>19. RawIsSelected' /\ AuditIsMapped'
  <2>1. \A p \in Pairs : Selected(p)' = Selected(p)
    BY <1>3, <1>17 DEF Selected
  <2>2. QED
    BY <1>15, <1>17, <2>1 DEF Inv, GradingInv, RawIsSelected, AuditIsMapped
<1>20. ReviewIsOfRaw'
  BY <1>3, <1>8, <1>13, <1>15 DEF ReviewIsOfRaw
<1>21. FreezeAgrees'
  BY <1>12, <1>13, BundleFiles DEF Inv, FreezeAgrees
<1>22. QED
  BY <1>14, <1>16, <1>18, <1>19, <1>20, <1>21 DEF GradingInv

\* Starting a phase over removes its files and those of all later phases.
LEMMA StartOverKeeps ==
  ASSUME Inv, NEW phase \in DOMAIN Bundles, StartOver(phase)
  PROVE  GradingTypeOK' /\ GradingInv' /\ FreezeAgrees'
<1> DEFINE gone == UNION {Range(Bundles[i]) : i \in phase .. Len(Bundles)}
<1>1. /\ disk' = [f \in Files |-> IF f \in gone THEN None ELSE disk[f]]
      /\ said' = IF phase = 1 THEN [s \in Slots |-> None] ELSE said
      /\ UNCHANGED <<src, pipelines>> /\ troubles' \in Nat
  BY DEF StartOver, Troubled, Inv, TypeOK, GradingTypeOK
<1>2. phase \in 1 .. 4 /\ Len(Bundles) = 4
  BY BundleFiles
<1>3. /\ phase = 1 => gone = PipelineFiles
      /\ phase = 2 => gone = PipelineFiles \ {"packs", "mapping"}
      /\ phase = 3 => gone = {"raw", "calibration", "audit", "dev", "release", "summary"}
      /\ phase = 4 => gone = {"dev", "release", "summary"}
  <2>1. gone = {f \in PipelineFiles : \E i \in phase .. 4 : f \in Range(Bundles[i])}
    <3>1. \A i \in phase .. 4 : i \in 1 .. 4 /\ Range(Bundles[i]) \subseteq PipelineFiles
      BY <1>2, BundleFiles DEF PipelineFiles
    <3>2. QED
      BY <1>2, <3>1
  <2>2. /\ 1 .. 4 = {1, 2, 3, 4} /\ 2 .. 4 = {2, 3, 4} /\ 3 .. 4 = {3, 4} /\ 4 .. 4 = {4}
    OBVIOUS
  <2> HIDE DEF gone
  <2>3. QED
    BY <2>1, <2>2, BundleFiles DEF PipelineFiles
<1> HIDE DEF gone
<1>4. /\ \A f \in Files \ gone : disk'[f] = disk[f] /\ (Whole(f)' <=> Whole(f))
      /\ \A f \in gone \cap Files : ~Whole(f)'
      /\ DOMAIN disk' = Files
  BY <1>1 DEF Whole
<1>5. {"pool", "index", "manifest", "snapshot"} \cap gone = {}
  BY <1>2, <1>3 DEF PipelineFiles
<1>6. GradingTypeOK'
  <2>1. ASSUME NEW f \in Files, Whole(f)' PROVE disk'[f] \in Content(f)
    BY <1>4, <2>1 DEF Inv, TypeOK, GradingTypeOK, FileTypeOK
  <2>2. FileTypeOK'
    BY <1>4, <1>5, <2>1, BundleFiles DEF Inv, TypeOK, GradingTypeOK, FileTypeOK
  <2>3. said' \in [Slots -> Handed \cup {None}]
    BY <1>1 DEF Inv, TypeOK, GradingTypeOK
  <2>4. QED
    BY <1>1, <2>2, <2>3 DEF Inv, TypeOK, GradingTypeOK
<1>7. FreezeAgrees'
  BY <1>4, <1>5, BundleFiles DEF Inv, FreezeAgrees
<1>8. LastFileCommits'
  <2>1. Whole("manifest")' => Whole("index")'
    BY <1>4, <1>5, LastFiles, BundleFiles DEF Inv, GradingInv
  <2>2. /\ Whole("mapping")' => Whole("packs")'
        /\ Whole("adjmapping")' => Whole("adjpack")'
        /\ Whole("audit")' => Whole("raw")' /\ Whole("calibration")'
        /\ Whole("summary")' => Whole("dev")' /\ Whole("release")'
    BY <1>2, <1>3, <1>4, LastFiles, BundleFiles DEF Inv, GradingInv, PipelineFiles
  <2>3. QED
    BY <2>1, <2>2, LastFiles, PTL
<1>9. CASE phase = 1
  <2>1. /\ \A f \in PipelineFiles : ~Whole(f)'
        /\ \A s \in Slots : said'[s] = None
    BY <1>1, <1>3, <1>4, <1>9, BundleFiles DEF PipelineFiles
  <2>2. QED
    BY <1>6, <1>7, <1>8, <2>1
       DEF GradingInv, PacksApart, GradersAnswer, AdjudicatorAnswers, RawIsSelected, AuditIsMapped,
           ReviewIsOfRaw, PipelineFiles, Slots
<1>10. CASE phase # 1
  <2>1. /\ disk'["packs"] = disk["packs"] /\ disk'["mapping"] = disk["mapping"] /\ said' = said
        /\ (Whole("packs")' <=> Whole("packs")) /\ (Whole("mapping")' <=> Whole("mapping"))
    <3>1. {"packs", "mapping"} \subseteq Files \ gone
      BY <1>2, <1>3, <1>10, BundleFiles
    <3>2. QED
      BY <1>1, <1>4, <1>10, <3>1
  <2>2. BothAnswer' = BothAnswer /\ Disagreements' = Disagreements
    BY <2>1 DEF BothAnswer, Disagreements
  <2>3. PacksApart' /\ GradersAnswer'
    BY <2>1 DEF Inv, GradingInv, PacksApart, GradersAnswer, Answers
  <2>4. \A f \in {"adjpack", "adjmapping"} : Whole(f)' => phase # 2 /\ Whole(f)
    BY <1>2, <1>3, <1>4, BundleFiles DEF PipelineFiles
  <2>5. phase # 2 => disk'["adjpack"] = disk["adjpack"] /\ disk'["adjmapping"] = disk["adjmapping"]
    BY <1>2, <1>3, <1>4, <1>10, BundleFiles DEF PipelineFiles
  <2>6. AdjudicatorAnswers'
    BY <2>1, <2>2, <2>4, <2>5 DEF Inv, GradingInv, AdjudicatorAnswers
  <2>7. Whole("raw")' => /\ Whole("raw") /\ phase = 4 /\ disk'["raw"] = disk["raw"]
                         /\ disk'["audit"] = disk["audit"] /\ (Whole("audit")' <=> Whole("audit"))
    BY <1>2, <1>3, <1>4, <1>10, BundleFiles DEF PipelineFiles
  <2>8. phase = 4 => (Adjudicated' <=> Adjudicated)
    <3>1. phase = 4 => \A f \in {"adjpack", "adjmapping"} : Whole(f)' <=> Whole(f)
      BY <1>3, <1>4, BundleFiles
    <3>2. QED
      BY <2>1, <2>2, <2>5, <3>1 DEF Adjudicated, Answers
  <2>9. RawIsSelected'
    <3>1. \A p \in Pairs : Selected(p)' = Selected(p)
      BY <2>1, <2>2 DEF Selected
    <3>2. QED
      BY <2>2, <2>7, <2>8, <3>1 DEF Inv, GradingInv, RawIsSelected
  <2>10. Whole("audit")' => Whole("audit") /\ Whole("raw")'
    BY <1>2, <1>3, <1>4, <1>10, LastFiles, BundleFiles DEF Inv, GradingInv, PipelineFiles
  <2>11. AuditIsMapped'
    BY <2>1, <2>7, <2>10 DEF Inv, GradingInv, AuditIsMapped
  <2>12. ~Whole("summary")'
    BY <1>2, <1>3, <1>4, <1>10, BundleFiles DEF PipelineFiles
  <2>13. QED
    BY <1>6, <1>7, <1>8, <2>3, <2>6, <2>9, <2>11, <2>12 DEF GradingInv, ReviewIsOfRaw
<1>11. QED
  BY <1>9, <1>10

-----------------------------------------------------------------------------
(* The freeze, the pools and the release runs. *)

\* What is frozen is there, whole.
LEMMA FrozenManifest ==
  ASSUME Inv, Frozen
  PROVE  /\ disk["manifest"] \in Manifest /\ disk["manifest"].src = src
         /\ disk["manifest"].index = {q \in Queries : src.split[q] = "release"}
  BY BundleFiles
     DEF Frozen, Whole, Inv, TypeOK, GradingTypeOK, FileTypeOK, Content, FreezeAgrees

LEMMA FreezeKeeps ==
  ASSUME Inv, Freeze
  PROVE  GradingTypeOK' /\ GradingInv' /\ FreezeAgrees'
<1> DEFINE manifest == [at |-> troubles, src |-> src, index |-> ReleaseIds]
<1>1. /\ manifest \in Manifest /\ ReleaseIds \subseteq Queries
      /\ manifest.index = {q \in Queries : manifest.src.split[q] = "release"}
  BY DEF Manifest, ReleaseIds, Inv, TypeOK, GradingTypeOK
<1>2. manifest \notin {None, Torn} /\ ReleaseIds \notin {None, Torn}
  BY <1>1, ReleaseAssumption
<1>3. /\ UNCHANGED <<src, said, pipelines>> /\ troubles' \in Nat
      /\ DOMAIN disk' = Files /\ disk'["index"] = ReleaseIds
      /\ disk'["manifest"] \in {disk["manifest"], manifest}
      /\ \A f \in Files \ {"index", "manifest"} : disk'[f] = disk[f]
  <2>1. UNCHANGED <<src, said, pipelines>> /\ troubles' \in Nat
    BY DEF Freeze, Troubled, Inv, TypeOK, GradingTypeOK
  <2>2. DOMAIN disk = Files /\ {"index", "manifest"} \subseteq Files
    BY BundleFiles DEF Inv, TypeOK, GradingTypeOK, FileTypeOK
  <2>3. \/ disk' = [disk EXCEPT !["index"] = ReleaseIds, !["manifest"] = manifest]
        \/ disk' = [disk EXCEPT !["index"] = ReleaseIds]
    BY DEF Freeze
  <2> HIDE DEF manifest
  <2>4. QED
    BY <2>1, <2>2, <2>3
<1> HIDE DEF manifest
<1>4. GradingTypeOK'
  <2>1. Content("index") = SUBSET Queries /\ Content("manifest") = Manifest
    BY DEF Content
  <2>2. ASSUME NEW f \in Files, Whole(f)' PROVE disk'[f] \in Content(f)
    BY <1>1, <1>3, <2>1, <2>2 DEF Whole, Inv, TypeOK, GradingTypeOK, FileTypeOK
  <2>3. FileTypeOK'
    BY <1>2, <1>3, <2>2 DEF Inv, TypeOK, GradingTypeOK, FileTypeOK
  <2>4. QED
    BY <1>3, <2>3 DEF Inv, TypeOK, GradingTypeOK
<1>5. GradingInv'
  <2>1. \A f \in PipelineFiles : disk'[f] = disk[f]
    BY <1>3, BundleFiles DEF PipelineFiles
  <2>2. Whole("index")'
    BY <1>2, <1>3 DEF Whole
  <2>3. QED
    BY <1>3, <2>1, <2>2, GradingFrame
<1>6. FreezeAgrees'
  <2>1. disk'["snapshot"] = disk["snapshot"]
    BY <1>3, BundleFiles
  <2>2. QED
    BY <1>1, <1>3, <2>1 DEF Inv, FreezeAgrees, Whole
<1>7. QED
  BY <1>4, <1>5, <1>6

LEMMA ThawKeeps ==
  ASSUME Inv, Thaw
  PROVE  GradingTypeOK' /\ GradingInv' /\ FreezeAgrees'
<1>1. /\ UNCHANGED <<src, said, pipelines>> /\ troubles' \in Nat
      /\ DOMAIN disk' = Files /\ disk'["index"] = None /\ disk'["manifest"] = None
      /\ \A f \in Files \ {"index", "manifest"} : disk'[f] = disk[f]
  BY BundleFiles DEF Thaw, Troubled, Inv, TypeOK, GradingTypeOK, FileTypeOK
<1>2. GradingTypeOK'
  <2>1. ASSUME NEW f \in Files, Whole(f)' PROVE disk'[f] \in Content(f)
    BY <1>1, <2>1 DEF Whole, Inv, TypeOK, GradingTypeOK, FileTypeOK
  <2>2. FileTypeOK'
    BY <1>1, <2>1, AbsentAssumption DEF FileTypeOK
  <2>3. QED
    BY <1>1, <2>2 DEF Inv, TypeOK, GradingTypeOK
<1>3. GradingInv'
  <2>1. \A f \in PipelineFiles : disk'[f] = disk[f]
    BY <1>1, BundleFiles DEF PipelineFiles
  <2>2. QED
    BY <1>1, <2>1, GradingFrame DEF Whole
<1>4. disk'["snapshot"] = disk["snapshot"]
  BY <1>1, BundleFiles
<1>5. QED
  BY <1>1, <1>2, <1>3, <1>4 DEF Inv, FreezeAgrees, Whole

LEMMA BuildPoolKeeps ==
  ASSUME Inv, NEW id \in 1 .. MaxPools, BuildPool(id)
  PROVE  GradingTypeOK' /\ GradingInv' /\ FreezeAgrees'
<1> DEFINE pool == [id |-> id, src |-> src]
           snapshot == Binding(pool)
<1>1. disk["manifest"] \in Manifest /\ disk["manifest"].src = src
  BY FrozenManifest DEF BuildPool
<1>2. /\ pool \in Pool /\ snapshot \in Snapshot
      /\ snapshot.pool.src = src /\ snapshot.manifest = disk["manifest"]
  BY <1>1, ReleaseAssumption
     DEF Pool, Snapshot, Binding, Inv, TypeOK, GradingTypeOK, RunTypeOK
<1>3. /\ UNCHANGED <<src, said, pipelines>> /\ troubles' \in Nat
      /\ DOMAIN disk' = Files /\ disk'["pool"] = pool
      /\ disk'["snapshot"] \in {disk["snapshot"], snapshot}
      /\ \A f \in Files \ {"pool", "snapshot"} : disk'[f] = disk[f]
  <2>1. UNCHANGED <<src, said, pipelines>> /\ troubles' \in Nat
    BY DEF BuildPool, Troubled, Inv, TypeOK, GradingTypeOK
  <2>2. DOMAIN disk = Files /\ {"pool", "snapshot"} \subseteq Files
    BY BundleFiles DEF Inv, TypeOK, GradingTypeOK, FileTypeOK
  <2>3. \/ disk' = [disk EXCEPT !["pool"] = pool, !["snapshot"] = snapshot]
        \/ disk' = [disk EXCEPT !["pool"] = pool]
    BY DEF BuildPool
  <2> HIDE DEF pool, snapshot
  <2>4. QED
    BY <2>1, <2>2, <2>3
<1> HIDE DEF pool, snapshot
<1>4. GradingTypeOK'
  <2>1. Content("pool") = Pool /\ Content("snapshot") = Snapshot
    BY DEF Content
  <2>2. ASSUME NEW f \in Files, Whole(f)' PROVE disk'[f] \in Content(f)
    BY <1>2, <1>3, <2>1, <2>2 DEF Whole, Inv, TypeOK, GradingTypeOK, FileTypeOK
  <2>3. FileTypeOK'
    BY <1>3, <2>2, BundleFiles DEF Inv, TypeOK, GradingTypeOK, FileTypeOK
  <2>4. QED
    BY <1>3, <2>3 DEF Inv, TypeOK, GradingTypeOK
<1>5. disk'["manifest"] = disk["manifest"] /\ disk'["index"] = disk["index"]
  BY <1>3, BundleFiles
<1>6. GradingInv'
  <2>1. \A f \in PipelineFiles : disk'[f] = disk[f]
    BY <1>3, BundleFiles DEF PipelineFiles
  <2>2. QED
    BY <1>3, <1>5, <2>1, GradingFrame, LastFiles DEF Whole, Inv, GradingInv
<1>7. QED
  BY <1>1, <1>2, <1>3, <1>4, <1>5, <1>6 DEF Inv, FreezeAgrees, Whole

LEMMA EditKeeps ==
  ASSUME Inv, Edit
  PROVE  GradingTypeOK' /\ GradingInv' /\ FreezeAgrees'
<1>1. UNCHANGED <<disk, said, pipelines>> /\ src' \in SourceTexts /\ troubles' \in Nat
  BY DEF Edit, Troubled, Inv, TypeOK, GradingTypeOK, SourceTexts
<1>2. GradingInv'
  BY <1>1, GradingFrame, LastFiles DEF Whole, Inv, GradingInv
<1>3. QED
  BY <1>1, <1>2 DEF Inv, TypeOK, GradingTypeOK, FileTypeOK, FreezeAgrees, Whole

\* Steps of the release runs.
LEMMA FilesFrame ==
  ASSUME Inv, UNCHANGED <<src, disk, said, pipelines>>, troubles' \in Nat
  PROVE  GradingTypeOK' /\ GradingInv' /\ FreezeAgrees'
<1>1. GradingInv'
  BY GradingFrame, LastFiles DEF Whole, Inv, GradingInv
<1>2. QED
  BY <1>1 DEF Inv, TypeOK, GradingTypeOK, FileTypeOK, FreezeAgrees, Whole

RunsInv == RunTypeOK /\ ReportOfRun /\ EndsOnce

LEMMA RunsFrame ==
  ASSUME Inv, UNCHANGED releaseVars
  PROVE  RunsInv'
<1>1. UNCHANGED <<systems, ledger, draft, report, final>>
  BY DEF releaseVars
<1>2. QED
  BY <1>1 DEF Inv, TypeOK, RunTypeOK, ReportOfRun, EndsOnce, CompletedFinal, RunsInv

LEMMA Appended ==
  ASSUME NEW S, NEW s \in Seq(S), Len(s) <= 1, NEW e \in S
  PROVE  /\ Append(s, e) \in Seq(S) /\ Len(Append(s, e)) = Len(s) + 1 /\ Append(s, e) # <<>>
         /\ s # <<>> => /\ Append(s, e)[1] = s[1] /\ Append(s, e)[2] = e
                        /\ DOMAIN Append(s, e) = {1, 2}
         /\ s = <<>> => /\ Append(s, e)[1] = e /\ DOMAIN Append(s, e) = {1}
<1>1. Len(s) \in {0, 1} /\ (s = <<>> <=> Len(s) = 0)
  <2>1. Len(s) \in Nat
    OBVIOUS
  <2>2. Len(s) \in {0, 1}
    <3>1. \A k \in Nat : k <= 1 => k \in {0, 1}
      OBVIOUS
    <3>2. QED
      BY <2>1, <3>1
  <2>3. Len(s) = 0 => s = <<>>
    BY EmptySeq
  <2>4. Len(<<>>) = 0
    OBVIOUS
  <2>5. QED
    BY <2>2, <2>3, <2>4
<1>2. /\ Append(s, e) \in Seq(S) /\ Len(Append(s, e)) = Len(s) + 1
      /\ DOMAIN Append(s, e) = 1 .. Len(s) + 1 /\ Append(s, e)[Len(s) + 1] = e
      /\ \A i \in 1 .. Len(s) : Append(s, e)[i] = s[i]
  OBVIOUS
<1>3. QED
  BY <1>1, <1>2

LEMMA StartKeeps ==
  ASSUME Inv, NEW r \in Runs, NEW purpose \in Purposes, Start(r, purpose)
  PROVE  RunsInv'
<1> DEFINE e == Event("started", purpose, None)
<1>1. e \in RunEvent /\ e.phase = "started"
  BY FrozenManifest DEF Start, Event, RunEvent
<1>2. /\ ledger[r] = <<>> /\ ledger' = [ledger EXCEPT ![r] = <<e>>]
      /\ UNCHANGED <<systems, draft, report, final>>
  BY DEF Start
<1>3. ledger \in [Runs -> Seq(RunEvent)] /\ \A q \in Runs : Len(ledger[q]) <= 2
  BY DEF Inv, TypeOK, RunTypeOK
<1>4. /\ <<e>> \in Seq(RunEvent) /\ Len(<<e>>) = 1 /\ <<e>>[1] = e /\ DOMAIN <<e>> = {1}
      /\ <<e>> # <<>>
  BY <1>1
<1> HIDE DEF e
<1>5. /\ ledger' \in [Runs -> Seq(RunEvent)] /\ ledger'[r] = <<e>>
      /\ \A q \in Runs \ {r} : ledger'[q] = ledger[q]
  BY <1>2, <1>3, <1>4
<1>6. RunTypeOK'
  BY <1>2, <1>3, <1>4, <1>5 DEF Inv, TypeOK, RunTypeOK
<1>7. ReportOfRun'
  BY <1>2, <1>5 DEF Inv, ReportOfRun
<1>8. EndsOnce'
  <2>1. ASSUME NEW q \in Runs \ {r}
        PROVE  /\ ledger'[q] = ledger[q] /\ (CompletedFinal(q)' <=> CompletedFinal(q))
    BY <1>5 DEF CompletedFinal
  <2>2. ~CompletedFinal(r)'
    BY <1>1, <1>4, <1>5 DEF CompletedFinal
  <2>3. QED
    BY <1>1, <1>2, <1>4, <1>5, <2>1, <2>2 DEF Inv, EndsOnce
<1>9. QED
  BY <1>6, <1>7, <1>8 DEF RunsInv

\* An open run ends, as failed or as completed with its report.
LEMMA EndKeeps ==
  ASSUME Inv, NEW r \in Runs, Fail(r) \/ Complete(r)
  PROVE  RunsInv'
<1>1. PICK e : /\ e \in {Event("failed", ledger[r][1].purpose, None),
                         Event("completed", ledger[r][1].purpose, report[r])}
               /\ e.phase = "completed" =>
                    /\ report[r] # None /\ e.report = report[r]
                    /\ e.purpose = "final" => final = report[r]
               /\ ledger' = [ledger EXCEPT ![r] = Append(@, e)]
               /\ Len(ledger[r]) = 1 /\ Frozen
               /\ UNCHANGED <<systems, draft, report, final>>
  BY DEF Fail, Complete, Open, Event
<1>2. /\ ledger \in [Runs -> Seq(RunEvent)] /\ \A q \in Runs : Len(ledger[q]) <= 2
      /\ report[r] \in Report \cup {None, Torn}
  BY DEF Inv, TypeOK, RunTypeOK
<1>3. /\ ledger[r] \in Seq(RunEvent) /\ ledger[r] # <<>> /\ ledger[r][1] \in RunEvent
      /\ DOMAIN ledger[r] = {1}
  BY <1>1, <1>2
<1>4. e \in RunEvent
  BY <1>1, <1>2, <1>3, FrozenManifest DEF Event, RunEvent
<1>5. /\ Append(ledger[r], e) \in Seq(RunEvent) /\ Len(Append(ledger[r], e)) = 2
      /\ Append(ledger[r], e)[1] = ledger[r][1] /\ Append(ledger[r], e)[2] = e
      /\ Append(ledger[r], e) # <<>> /\ DOMAIN Append(ledger[r], e) = {1, 2}
  <2>1. Len(ledger[r]) <= 1 /\ Len(ledger[r]) + 1 = 2
    BY <1>1
  <2>2. QED
    BY <1>3, <1>4, <2>1, Appended
<1>6. /\ ledger' \in [Runs -> Seq(RunEvent)] /\ ledger'[r] = Append(ledger[r], e)
      /\ \A q \in Runs \ {r} : ledger'[q] = ledger[q]
  BY <1>1, <1>2, <1>5
<1>7. RunTypeOK'
  BY <1>1, <1>2, <1>5, <1>6 DEF Inv, TypeOK, RunTypeOK
<1>8. ReportOfRun'
  BY <1>1, <1>3, <1>5, <1>6 DEF Inv, ReportOfRun
<1>9. EndsOnce'
  <2>1. ASSUME NEW q \in Runs \ {r}
        PROVE  /\ ledger'[q] = ledger[q] /\ (CompletedFinal(q)' <=> CompletedFinal(q))
    BY <1>6 DEF CompletedFinal
  <2>2. ledger[r][1].phase = "started"
    BY <1>3 DEF Inv, EndsOnce
  <2>3. CompletedFinal(r)' => e.phase = "completed" /\ e.purpose = "final"
    BY <1>5, <1>6, <2>2 DEF CompletedFinal
  <2>4. CompletedFinal(r)' => /\ ledger'[r][2].report = report[r] /\ final = report[r]
                              /\ report[r] # None
    BY <1>1, <1>5, <1>6, <2>3
  <2>5. QED
    BY <1>1, <1>5, <1>6, <2>1, <2>2, <2>4 DEF Inv, EndsOnce
<1>10. QED
  BY <1>7, <1>8, <1>9 DEF RunsInv

LEMMA DraftKeeps ==
  ASSUME Inv, NEW r \in Runs, Draft(r)
  PROVE  RunsInv' /\ troubles' \in Nat
<1> DEFINE d == [manifest |-> disk["manifest"], qrels |-> disk["release"],
                 systems |-> systems, corrected |-> disk["summary"].corrected]
           value == [draft |-> d]
           files == [draft |-> draft[r]]
           names == <<"draft">>
<1>1. d \in Report
  <2>1. disk["release"] \in Qrels /\ disk["summary"] \in Summary
    BY BundleFiles
       DEF Draft, ReleaseReadable, Inv, TypeOK, GradingTypeOK, FileTypeOK, Content
  <2>2. disk["manifest"] \in Manifest
    BY FrozenManifest DEF Draft, PoolCurrent
  <2>3. QED
    BY <2>1, <2>2 DEF Report, Summary, Inv, TypeOK, RunTypeOK
<1>2. PICK w \in Writes(files, names, value) :
        draft' = [draft EXCEPT ![r] = w.files.draft] /\ Troubled(w.died)
  BY DEF Draft
<1>3. w.files["draft"] \in {None, Torn, d} /\ w.died \in {0, 1}
  <2>1. /\ Len(names) = 1 /\ DOMAIN names = 1 .. 1 /\ Range(names) = {"draft"}
        /\ \A i, j \in 1 .. 1 : names[i] = names[j] => i = j
        /\ DOMAIN files = {"draft"} /\ value["draft"] = d
    BY DEF Range
  <2> HIDE DEF files, value, names
  <2>2. Left(files, names, value, w.files) /\ w.died \in {0, 1}
    <3>1. /\ Len(names) \in Nat \ {0} /\ DOMAIN names = 1 .. Len(names)
          /\ Range(names) \subseteq DOMAIN files
          /\ \A i, j \in 1 .. Len(names) : names[i] = names[j] => i = j
      BY <2>1
    <3>2. QED
      BY <3>1, <1>2, WritesLeft
  <2>3. QED
    BY <2>1, <2>2 DEF Left
<1> HIDE DEF d, files, value
<1>4. UNCHANGED <<systems, ledger, report, final>>
  BY DEF Draft
<1>5. RunTypeOK' /\ troubles' \in Nat
  BY <1>1, <1>2, <1>3, <1>4 DEF Troubled, Inv, TypeOK, RunTypeOK, GradingTypeOK
<1>6. ReportOfRun' /\ EndsOnce'
  BY <1>4 DEF Inv, ReportOfRun, EndsOnce, CompletedFinal
<1>7. QED
  BY <1>5, <1>6 DEF RunsInv

LEMMA FinalizeReportKeeps ==
  ASSUME Inv, NEW r \in Runs, FinalizeReport(r)
  PROVE  RunsInv' /\ troubles' \in Nat
<1> DEFINE both == ledger[r][1].purpose = "final"
           names == IF both THEN <<"report", "final">> ELSE <<"report">>
           files == [report |-> report[r], final |-> final]
           value == [f \in {"report", "final"} |-> draft[r]]
<1>1. PICK w \in Writes(files, names, value) :
        report' = [report EXCEPT ![r] = w.files.report] /\ final' = w.files.final /\ Troubled(w.died)
  BY DEF FinalizeReport
<1>2. /\ Open(r) /\ draft[r] \notin {None, Torn} /\ ReleaseReadable /\ DraftCurrent(draft[r])
      /\ Frozen /\ UNCHANGED <<systems, ledger, draft>>
  BY DEF FinalizeReport, PoolCurrent
<1>3. /\ w.files["report"] \in {None, Torn, draft[r]} /\ report[r] = None /\ w.died \in {0, 1}
      /\ \/ w.files["final"] = final
         \/ final = None /\ w.files["final"] \in {None, Torn, draft[r]}
  <2>1. DOMAIN files = {"report", "final"} /\ files["report"] = report[r] /\ files["final"] = final
        /\ value["report"] = draft[r] /\ value["final"] = draft[r]
    OBVIOUS
  <2>2. /\ Len(names) \in Nat \ {0} /\ DOMAIN names = 1 .. Len(names)
        /\ Range(names) \in {{"report"}, {"report", "final"}}
        /\ \A i, j \in 1 .. Len(names) : names[i] = names[j] => i = j
    <3>1. CASE both
      <4>1. names = <<"report", "final">>
        BY <3>1
      <4>2. Len(names) = 2 /\ DOMAIN names = 1 .. 2 /\ names[1] = "report" /\ names[2] = "final"
        BY <4>1
      <4> HIDE DEF names
      <4>3. Range(names) = {"report", "final"}
        BY <4>2 DEF Range
      <4>4. QED
        BY <4>2, <4>3
    <3>2. CASE ~both
      <4>1. names = <<"report">>
        BY <3>2
      <4>2. Len(names) = 1 /\ DOMAIN names = 1 .. 1 /\ names[1] = "report"
        BY <4>1
      <4> HIDE DEF names
      <4>3. Range(names) = {"report"}
        BY <4>2 DEF Range
      <4>4. QED
        BY <4>2, <4>3
    <3>3. QED
      BY <3>1, <3>2
  <2> HIDE DEF files, value, names
  <2>3. Left(files, names, value, w.files) /\ w.died \in {0, 1}
    BY <1>1, <2>1, <2>2, WritesLeft
  <2>4. QED
    BY <2>1, <2>2, <2>3 DEF Left
<1> HIDE DEF both, names, files, value
<1>4. draft[r] \in Report /\ draft[r].manifest = ledger[r][1].manifest
      /\ \A p \in DOMAIN draft[r].qrels : p[1] \in draft[r].manifest.index
  <2>1. draft[r] \in Report
    BY <1>2 DEF Inv, TypeOK, RunTypeOK
  <2>2. draft[r].manifest = disk["manifest"] /\ disk["manifest"] = ledger[r][1].manifest
        /\ draft[r].qrels = disk["release"]
    BY <1>2 DEF Open, DraftCurrent
  <2>3. \A p \in Of("release") : p[1] \in {q \in Queries : src.split[q] = "release"}
    BY DEF Of, Pairs
  <2>4. QED
    BY <1>2, <2>1, <2>2, <2>3, FrozenManifest DEF ReleaseReadable
<1>5. /\ report' \in [Runs -> Report \cup {None, Torn}] /\ report'[r] \in {None, Torn, draft[r]}
      /\ \A q \in Runs \ {r} : report'[q] = report[q]
      /\ final' \in Report \cup {None, Torn} /\ troubles' \in Nat
      /\ final # None => final' = final
  BY <1>1, <1>3, <1>4 DEF Troubled, Inv, TypeOK, RunTypeOK, GradingTypeOK
<1>6. RunTypeOK'
  BY <1>2, <1>5 DEF Inv, TypeOK, RunTypeOK
<1>7. ledger[r] # <<>> /\ ~CompletedFinal(r)
  <2>1. Len(ledger[r]) = 1 /\ ledger[r] \in Seq(RunEvent)
    BY <1>2 DEF Open, Inv, TypeOK, RunTypeOK
  <2>2. DOMAIN ledger[r] = 1 .. Len(ledger[r]) /\ Len(<<>>) = 0 /\ 1 .. 1 = {1}
    BY <2>1
  <2>3. DOMAIN ledger[r] = {1} /\ ledger[r] # <<>>
    BY <2>1, <2>2
  <2>4. QED
    BY <2>3 DEF CompletedFinal, Inv, EndsOnce
<1>8. ReportOfRun'
  BY <1>2, <1>4, <1>5, <1>7 DEF Inv, ReportOfRun
<1>9. EndsOnce'
  <2>1. \A q \in Runs : CompletedFinal(q)' <=> CompletedFinal(q)
    BY <1>2 DEF CompletedFinal
  <2>2. QED
    BY <1>2, <1>5, <1>7, <2>1 DEF Inv, EndsOnce
<1>10. QED
  BY <1>5, <1>6, <1>8, <1>9 DEF RunsInv

LEMMA SweepKeeps ==
  ASSUME Inv, NEW r \in Runs, Sweep(r)
  PROVE  RunsInv'
<1>1. /\ UNCHANGED <<systems, ledger>>
      /\ draft' = [draft EXCEPT ![r] = IF @ = Torn THEN None ELSE @]
      /\ report' = [report EXCEPT ![r] = IF @ = Torn THEN None ELSE @]
      /\ final' = IF final = Torn THEN None ELSE final
  BY DEF Sweep
<1>2. RunTypeOK'
  BY <1>1 DEF Inv, TypeOK, RunTypeOK
<1>3. \A q \in Runs : report'[q] = report[q] \/ (report[q] = Torn /\ report'[q] = None)
  BY <1>1 DEF Inv, TypeOK, RunTypeOK
<1>4. ReportOfRun'
  BY <1>1, <1>3 DEF Inv, ReportOfRun
<1>5. \A q \in Runs : CompletedFinal(q)' <=> CompletedFinal(q)
  BY <1>1 DEF CompletedFinal
<1>6. EndsOnce'
  BY <1>1, <1>3, <1>5 DEF Inv, EndsOnce
<1>7. QED
  BY <1>2, <1>4, <1>6 DEF RunsInv

LEMMA RunSystemsKeeps ==
  ASSUME Inv, RunSystems
  PROVE  RunsInv' /\ troubles' \in Nat
<1>1. systems' \in Nat /\ troubles' \in Nat /\ UNCHANGED <<ledger, draft, report, final>>
  BY DEF RunSystems, Troubled, Inv, TypeOK, GradingTypeOK, RunTypeOK
<1>2. QED
  BY <1>1 DEF Inv, TypeOK, RunTypeOK, ReportOfRun, EndsOnce, CompletedFinal, RunsInv

-----------------------------------------------------------------------------
(* The theorems. *)

LEMMA InvInit == Init => Inv
<1>1. SUFFICES ASSUME Init PROVE Inv
  OBVIOUS
<1>2. /\ src.split \in [Queries -> Splits] /\ src.texts = 0 /\ src \in SourceTexts
      /\ disk = [f \in Files |-> None] /\ said = [s \in Slots |-> None]
      /\ pipelines = 0 /\ troubles = 0
  BY <1>1 DEF Init, GradingInit, SourceTexts
<1>3. \A f \in Files : ~Whole(f) /\ disk[f] = None
  BY <1>2 DEF Whole
<1>4. GradingTypeOK
  BY <1>2, <1>3, BundleFiles, AbsentAssumption DEF GradingTypeOK, FileTypeOK
<1>5. RunTypeOK /\ ReportOfRun /\ EndsOnce
  BY <1>1 DEF Init, RunTypeOK, ReportOfRun, EndsOnce, CompletedFinal
<1>6. LastFileCommits
  BY <1>3, LastFiles, BundleFiles
<1>7. GradingInv /\ FreezeAgrees
  BY <1>2, <1>3, <1>6, BundleFiles
     DEF GradingInv, PacksApart, GradersAnswer, AdjudicatorAnswers, RawIsSelected, AuditIsMapped,
         ReviewIsOfRaw, FreezeAgrees, Slots
<1>8. QED
  BY <1>4, <1>5, <1>7 DEF Inv, TypeOK

LEMMA InvStep == Inv /\ [Next]_vars => Inv'
<1> SUFFICES ASSUME Inv, [Next]_vars PROVE Inv'
  OBVIOUS
<1>1. ASSUME GradingTypeOK' /\ GradingInv' /\ FreezeAgrees', RunsInv' PROVE Inv'
  BY <1>1 DEF Inv, TypeOK, RunsInv
<1>2. troubles \in Nat
  BY DEF Inv, TypeOK, GradingTypeOK
<1>3. CASE GradingNext /\ UNCHANGED releaseVars
  <2>1. ASSUME NEW s \in Slots, Judge(s) PROVE GradingTypeOK' /\ GradingInv' /\ FreezeAgrees'
    <3>1. UNCHANGED disk
      BY <2>1 DEF Judge
    <3>2. FreezeAgrees'
      BY <3>1 DEF Inv, FreezeAgrees, Whole
    <3>3. s \in {"a", "b"} \/ s = "c"
      BY DEF Slots
    <3>4. QED
      BY <2>1, <3>2, <3>3, GraderKeeps, AdjudicatorKeeps
  <2>2. QED
    BY <1>1, <1>3, <2>1, RunsFrame, EditKeeps, PrepareKeeps, AdjudicateKeeps, FinalizeKeeps,
       OwnerReviewKeeps, StartOverKeeps
       DEF GradingNext
<1>4. CASE Freeze
  BY <1>1, <1>4, FreezeKeeps, RunsFrame DEF Freeze
<1>5. CASE Thaw
  BY <1>1, <1>5, ThawKeeps, RunsFrame DEF Thaw
<1>6. ASSUME NEW id \in 1 .. MaxPools, BuildPool(id) PROVE Inv'
  BY <1>1, <1>6, BuildPoolKeeps, RunsFrame DEF BuildPool
<1>7. CASE RunSystems
  BY <1>1, <1>7, RunSystemsKeeps, FilesFrame DEF RunSystems
<1>8. ASSUME NEW r \in Runs, NEW p \in Purposes, Start(r, p) PROVE Inv'
  BY <1>1, <1>2, <1>8, StartKeeps, FilesFrame DEF Start
<1>9. ASSUME NEW r \in Runs, Fail(r) \/ Complete(r) PROVE Inv'
  BY <1>1, <1>2, <1>9, EndKeeps, FilesFrame DEF Fail, Complete
<1>10. ASSUME NEW r \in Runs, Draft(r) PROVE Inv'
  BY <1>1, <1>10, DraftKeeps, FilesFrame DEF Draft
<1>11. ASSUME NEW r \in Runs, FinalizeReport(r) PROVE Inv'
  BY <1>1, <1>11, FinalizeReportKeeps, FilesFrame DEF FinalizeReport
<1>12. ASSUME NEW r \in Runs, Sweep(r) PROVE Inv'
  BY <1>1, <1>2, <1>12, SweepKeeps, FilesFrame DEF Sweep
<1>13. CASE UNCHANGED vars
  BY <1>1, <1>2, <1>13, FilesFrame, RunsFrame DEF vars, releaseVars
<1>14. QED
  BY <1>3, <1>4, <1>5, <1>6, <1>7, <1>8, <1>9, <1>10, <1>11, <1>12, <1>13 DEF Next

LEMMA InvAlways == Spec => []Inv
  BY InvInit, InvStep, PTL DEF Spec

\* A bundle's last file commits it, in every state that calls which may die at any
\* point, removals and changes of the sources lead to.
THEOREM BundlesCommitted == Spec => []LastFileCommits
  BY InvAlways, PTL DEF Inv, GradingInv

\* A final run that was completed with a report keeps it, whatever is done later.
THEOREM FinalReportStands == Spec => []FinalStands
<1>1. Inv => FinalStands
  <2>1. SUFFICES ASSUME Inv, NEW r \in Runs, CompletedFinal(r), ledger[r][2].report # Torn
                 PROVE  /\ final = ledger[r][2].report
                        /\ final.manifest = ledger[r][1].manifest
                        /\ \A p \in DOMAIN final.qrels : p[1] \in final.manifest.index
    BY DEF FinalStands
  <2>2. final = ledger[r][2].report /\ report[r] = final /\ final \notin {None, Torn}
    BY <2>1 DEF Inv, EndsOnce
  <2>3. QED
    BY <2>1, <2>2 DEF Inv, ReportOfRun
<1>2. QED
  BY <1>1, InvAlways, PTL

\* Where the gates of the grading pass, every judgment is one that independent runs
\* or the owner gave, of texts, splits and a pool that are still current.
THEOREM JudgmentsIndependent == Spec => []JudgedIndependently
<1>1. ASSUME Inv, Judged PROVE JudgedIndependently
  <2>1. /\ PoolCurrent /\ ReviewCurrent /\ Whole("audit") /\ disk["audit"].sources = Sources
        /\ Frozen /\ Whole("snapshot") /\ disk["snapshot"] = Binding(disk["pool"])
    BY <1>1 DEF Judged, PoolCurrent
  <2>2. disk["pool"].src = src
    <3>1. disk["snapshot"].pool = disk["pool"] /\ disk["snapshot"].manifest = disk["manifest"]
      BY <2>1 DEF Binding
    <3>2. QED
      BY <1>1, <2>1, <3>1, FrozenManifest DEF Inv, FreezeAgrees
  <2>3. /\ Whole("raw") /\ BothAnswer /\ disk["mapping"].sources = Sources
        /\ \A p \in Pairs : disk["raw"][p] = Selected(p)
        /\ Disagreements # {} => Adjudicated
    BY <1>1, <2>1 DEF Inv, GradingInv, AuditIsMapped, RawIsSelected
  <2>4. /\ said["a"].by # said["b"].by
        /\ said["a"].by \notin Authors /\ said["b"].by \notin Authors
    <3>1. /\ disk["packs"].a # disk["packs"].b
          /\ disk["packs"].a \notin Authors /\ disk["packs"].b \notin Authors
          /\ said["a"].by = disk["packs"].a /\ said["b"].by = disk["packs"].b
      BY <1>1, <2>3 DEF Inv, GradingInv, GradersAnswer, PacksApart, Answers, BothAnswer
    <3>2. QED
      BY <3>1
  <2>5. Cardinality({said["a"].by, said["b"].by}) = 2
    <3>1. said["a"].by \notin {said["b"].by} /\ IsFiniteSet({said["b"].by})
          /\ Cardinality({said["b"].by}) = 1
      BY <2>4, FS_Singleton
    <3>2. Cardinality({said["b"].by} \cup {said["a"].by}) = 2
      BY <3>1, FS_AddElement
    <3>3. {said["b"].by} \cup {said["a"].by} = {said["a"].by, said["b"].by}
      OBVIOUS
    <3>4. QED
      BY <3>2, <3>3
  <2>6. ASSUME NEW p \in Pairs
        PROVE  LET q == IF p \in Of("release") THEN disk["summary"].release[p] ELSE disk["dev"][p]
               IN /\ q.status = "approved" <=> q.grade = Verdict(p)
                  /\ q.by \notin Authors
                  /\ p \in Disagreements => q.by \notin {said["a"].by, said["b"].by}
    <3> DEFINE q == IF p \in Of("release") THEN disk["summary"].release[p] ELSE disk["dev"][p]
    <3>1. /\ Whole("summary") /\ disk["summary"].split = src.split
          /\ disk["summary"].dev = disk["dev"]
          /\ DOMAIN disk["summary"].dev = Of("development")
          /\ DOMAIN disk["summary"].release = Of("release")
      BY <2>1 DEF ReviewCurrent
    <3>2. p \in Of("release") \/ p \in Of("development")
      BY <1>1 DEF Of, Pairs, Splits, Inv, TypeOK, GradingTypeOK, SourceTexts
    <3>3. q.by = disk["raw"][p].by /\ (q.status = "approved" <=> q.grade = disk["raw"][p].grade)
      BY <1>1, <3>1, <3>2 DEF Inv, GradingInv, ReviewIsOfRaw
    <3> HIDE DEF q
    <3>4. /\ p \in Disagreements =>
               disk["raw"][p] = [grade |-> said["c"].grades[p], by |-> said["c"].by]
          /\ p \notin Disagreements =>
               disk["raw"][p] = [grade |-> said["a"].grades[p], by |-> said["a"].by]
      <4>1. disk["raw"][p] = Selected(p)
        BY <2>3
      <4>2. QED
        BY <4>1, Zenon DEF Selected
    <3>5. disk["raw"][p].grade = Verdict(p)
      BY <3>4 DEF Verdict
    <3>6. CASE p \in Disagreements
      <4>1. said["c"].by \notin {said["a"].by, said["b"].by} \cup Authors
        BY <2>3, <3>6 DEF Adjudicated, Answers, Independent
      <4>2. QED
        BY <3>3, <3>4, <3>5, <3>6, <4>1 DEF q
    <3>7. CASE p \notin Disagreements
      BY <2>4, <3>3, <3>4, <3>5, <3>7 DEF q
    <3>8. QED
      BY <3>6, <3>7
  <2>7. QED
    BY <2>2, <2>3, <2>5, <2>6 DEF JudgedIndependently
<1>2. Inv => JudgedIndependently
  BY <1>1 DEF JudgedIndependently
<1>3. QED
  BY <1>2, InvAlways, PTL

=============================================================================

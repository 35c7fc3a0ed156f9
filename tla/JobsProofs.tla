----------------------------- MODULE JobsProofs -----------------------------
(***************************************************************************)
(* Theorems about EmbeddingJobs, for every set of versions, texts and      *)
(* workers, any number of attempts, changes and faults.                    *)
(***************************************************************************)
EXTENDS EmbeddingJobs, FiniteSetTheorems, TLAPS

Tokens == 0 .. Cardinality(Workers) + 1
JobTable == [Versions -> [Generations \cup {0} -> JobRow \cup {None}]]
VectorTable == [Versions -> [Generations -> Vector \cup {None}]]
Founds == UNION {[S -> Contents] : S \in SUBSET Versions}
WorkerState ==
  [pc : {"off", "stale", "adopt", "discard", "enqueue", "insert", "run", "embed"},
   gen : Generations \cup {0}, found : Founds, claim : Claim \cup {None}]

\* A version with a job has a document.
Documented ==
  \A v \in Versions : (\E g \in Generations \cup {0} : job[v][g] # None) => doc[v] # None

Tables ==
  /\ doc \in [Versions -> Contents \cup {None}]
  /\ job \in JobTable /\ vec \in VectorTable
  /\ active \in Generations \cup {0} /\ writing \in Transaction \cup {None}
  /\ changes \in 0 .. MaxChanges /\ faults \in 0 .. MaxFaults

\* A worker that runs has a generation, and while it embeds, a claim; what it found missing
\* has a document, and what it claimed a job.
Positioned(state) ==
  /\ state \in WorkerState
  /\ state.pc = "embed" <=> state.claim # None
  /\ state.pc # "off" => state.gen \in Generations
  /\ \A v \in DOMAIN state.found : doc[v] # None
  /\ state.claim # None => job[state.claim.v][state.gen] # None

\* Jobs of a generation stay, whatever becomes of them.
JobsStay ==
  \A v \in Versions, g \in Generations : job[v][g] # None => job'[v][g] # None

Inv ==
  /\ Tables /\ Documented
  /\ worker \in [Workers -> WorkerState] /\ \A w \in Workers : Positioned(worker[w])

USE DEF JobTable, VectorTable, Founds, WorkerState

LEMMA InvTypes == Inv => TypeOK
BY DEF Inv, Tables, Positioned, TypeOK, At

-----------------------------------------------------------------------------
(* Rows. *)

LEMMA RowFacts ==
  ASSUME NEW row \in JobRow
  PROVE  /\ \A hash \in Contents : Reopened(row, hash) \in JobRow /\ Enqueued(row, hash) \in JobRow
         /\ \A attempts \in Nat : Failed(row, attempts) \in JobRow
         /\ Restarted(row) \in JobRow
         /\ Ended(row, "pending") \in JobRow /\ Ended(row, "done") \in JobRow
<1>1. \A hash \in Contents : Reopened(row, hash) \in JobRow
  BY DEF JobRow, Reopened
<1>2. \A hash \in Contents : Enqueued(row, hash) \in JobRow
  BY JobsAssumption, RowsAssumption DEF JobRow, Enqueued
<1>3. \A attempts \in Nat : Failed(row, attempts) \in JobRow
  BY DEF JobRow, Failed
<1>4. Restarted(row) \in JobRow
  BY DEF JobRow, Restarted
<1>5. Ended(row, "pending") \in JobRow /\ Ended(row, "done") \in JobRow
  BY DEF JobRow, Ended
<1> QED BY <1>1, <1>2, <1>3, <1>4, <1>5

LEMMA NewJobFacts ==
  ASSUME NEW hash \in Contents
  PROVE  NewJob(hash) \in JobRow
<1>1. Cardinality(Workers) \in Nat
  BY JobsAssumption, FS_CardinalityType
<1> QED BY <1>1 DEF NewJob, JobRow

\* There are more tokens than workers may hold.
LEMMA TokenFacts ==
  ASSUME NEW v \in Versions, NEW g \in Generations
  PROVE  NextToken(v, g) \in Unheld(v, g) /\ NextToken(v, g) \in Tokens
<1> DEFINE n == Cardinality(Workers)
           free == Tokens \ {job[v][g].token}
           holders(t) == {w \in Workers : worker[w].claim # None /\ worker[w].claim.v = v
                                          /\ worker[w].gen = g /\ worker[w].claim.token = t}
<1>1. IsFiniteSet(Workers) /\ n \in Nat
  BY JobsAssumption, FS_CardinalityType
<1>2. IsFiniteSet(free) /\ n < Cardinality(free)
  <2>1. IsFiniteSet(Tokens) /\ Cardinality(Tokens) = n + 2
    BY <1>1, FS_Interval DEF Tokens
  <2>2. \A t : /\ IsFiniteSet(Tokens \ {t})
               /\ Cardinality(Tokens \ {t}) = IF t \in Tokens THEN Cardinality(Tokens) - 1
                                             ELSE Cardinality(Tokens)
    BY <2>1, FS_RemoveElement
  <2>3. /\ IsFiniteSet(free)
        /\ Cardinality(free) = Cardinality(Tokens) - 1 \/ Cardinality(free) = Cardinality(Tokens)
    BY <2>2
  <2> QED BY <1>1, <2>1, <2>3
<1>3. Unheld(v, g) # {}
  <2>0. \A t \in free : holders(t) = {} => t \in Unheld(v, g)
    BY DEF Unheld, Tokens
  <2> SUFFICES ASSUME \A t \in free : holders(t) # {} PROVE FALSE
    BY <2>0
  <2> DEFINE f == [t \in free |-> CHOOSE w \in Workers : w \in holders(t)]
  <2>1. \A t \in free : f[t] \in holders(t)
    OBVIOUS
  <2>2. f \in [free -> Workers]
    BY <2>1
  <2> HIDE DEF f
  <2>3. PICK s, t \in free : s # t /\ f[s] = f[t]
    BY <1>1, <1>2, <2>2, FS_PigeonHole
  <2> QED BY <2>1, <2>3
<1> HIDE DEF free, holders
<1> QED BY <1>3 DEF NextToken, Unheld, Tokens

\* One row of the table is written.
LEMMA JobUpdate ==
  ASSUME job \in JobTable, NEW v \in Versions, NEW g \in Generations \cup {0},
         NEW row \in JobRow, job' = [job EXCEPT ![v][g] = row]
  PROVE  /\ job' \in JobTable /\ job'[v][g] = row
         /\ \A u \in Versions, h \in Generations \cup {0} :
              u # v \/ h # g => job'[u][h] = job[u][h]
OBVIOUS

\* The row was there before.
LEMMA RowUpdate ==
  ASSUME job \in JobTable, NEW v \in Versions, NEW g \in Generations \cup {0},
         NEW row \in JobRow, job' = [job EXCEPT ![v][g] = row], job[v][g] # None
  PROVE  /\ job' \in JobTable /\ JobsStay
         /\ \A u \in Versions, h \in Generations \cup {0} : job'[u][h] # None <=> job[u][h] # None
<1>1. \A u \in Versions, h \in Generations \cup {0} : job'[u][h] # None <=> job[u][h] # None
  <2> SUFFICES ASSUME NEW u \in Versions, NEW h \in Generations \cup {0}
               PROVE  job'[u][h] # None <=> job[u][h] # None
    OBVIOUS
  <2>1. CASE u = v /\ h = g
    <3>1. job'[u][h] = row
      BY <2>1, JobUpdate
    <3> QED BY <2>1, <3>1, RowsAssumption
  <2>2. CASE ~(u = v /\ h = g)
    BY <2>2, JobUpdate
  <2> QED BY <2>1, <2>2
<1> QED BY <1>1, JobUpdate DEF JobsStay

\* One worker is written.
LEMMA WorkerUpdate ==
  ASSUME Inv, NEW w \in Workers, NEW state, Positioned(state),
         worker' = [worker EXCEPT ![w] = state], doc' = doc, JobsStay,
         Tables', Documented'
  PROVE  Inv'
<1>1. /\ worker' \in [Workers -> WorkerState]
      /\ \A x \in Workers : worker'[x] = state \/ worker'[x] = worker[x]
  BY DEF Inv, Positioned
<1>2. ASSUME NEW x \in Workers
      PROVE  Positioned(worker[x])'
  <2>1. worker'[x] \in {state, worker[x]}
    BY <1>1
  <2>2. PICK y \in {state, worker[x]} : worker'[x] = y
    BY <2>1
  <2>3. Positioned(y)
    BY DEF Inv
  <2>4. /\ y \in WorkerState /\ (y.pc = "embed" <=> y.claim # None)
        /\ (y.pc # "off" => y.gen \in Generations)
        /\ \A v \in DOMAIN y.found : doc'[v] # None
        /\ y.claim # None => job'[y.claim.v][y.gen] # None
    <3>1. y.claim # None => y.claim.v \in Versions /\ y.gen \in Generations
      BY <2>3 DEF Positioned, WorkerState, Claim
    <3> QED BY <2>3, <3>1 DEF Positioned, JobsStay
  <2> QED BY <2>2, <2>4 DEF Positioned
<1> QED BY <1>1, <1>2 DEF Inv

\* A worker goes on to another step of prepare, or to its work.
LEMMA GotoFacts ==
  ASSUME Inv, NEW w \in Workers, NEW pc \in {"adopt", "discard", "enqueue"},
         ~At(w, "off"), ~At(w, "embed"), Goto(w, pc), doc' = doc, JobsStay,
         Tables', Documented'
  PROVE  Inv'
<1> DEFINE state == [worker[w] EXCEPT !.pc = pc]
<1>1. Positioned(worker[w])
  BY DEF Inv
<1>2. Positioned(state)
  BY <1>1 DEF Positioned, WorkerState, At
<1>3. worker' = [worker EXCEPT ![w] = state]
  BY DEF Goto
<1> HIDE DEF state
<1> QED BY <1>2, <1>3, WorkerUpdate

\* Where documents stay and no version gets its first job, versions with jobs have documents.
LEMMA DocumentedStep ==
  ASSUME Documented, doc' = doc,
         \A v \in Versions, g \in Generations \cup {0} : job'[v][g] # None =>
           \E h \in Generations \cup {0} : job[v][h] # None
  PROVE  Documented'
BY DEF Documented

-----------------------------------------------------------------------------
(* Types. *)

LEMMA CatalogStep ==
  ASSUME Inv, (\E v \in Versions, hash \in Contents : BeginObserve(v, hash)) \/ CommitObserve
  PROVE  Inv'
<1>1. Tables /\ Documented
  BY DEF Inv
<1>2. ASSUME NEW v \in Versions, NEW hash \in Contents, BeginObserve(v, hash)
      PROVE  Inv'
  <2>1. [v |-> v, hash |-> hash, gen |-> active] \in Transaction
    BY <1>1 DEF Tables, Transaction
  <2>2. /\ writing' \in Transaction \cup {None} /\ changes' \in 0 .. MaxChanges
        /\ UNCHANGED <<doc, job, vec, active, worker, faults>>
    BY <1>1, <1>2, <2>1, JobsAssumption DEF BeginObserve, Tables
  <2> QED BY <1>1, <2>2 DEF Inv, Tables, Documented, Positioned
<1>3. ASSUME CommitObserve
      PROVE  Inv'
  <2> DEFINE v == writing.v
             g == writing.gen
             hash == writing.hash
             row == IF job[v][g] = None THEN NewJob(hash) ELSE Reopened(job[v][g], hash)
  <2>1. /\ writing # None /\ writing' = None /\ UNCHANGED <<vec, active, worker, changes, faults>>
        /\ doc' = [doc EXCEPT ![v] = hash] /\ job' = [job EXCEPT ![v][g] = row]
    BY <1>3 DEF CommitObserve, indexVersion
  <2>2. v \in Versions /\ g \in Generations \cup {0} /\ hash \in Contents
    BY <1>1, <2>1 DEF Transaction, Tables
  <2>3. row \in JobRow
    <3>1. job[v][g] \in JobRow \cup {None}
      BY <1>1, <2>2 DEF Tables
    <3> QED BY <2>2, <3>1, RowFacts, NewJobFacts
  <2> HIDE DEF row, v, g, hash
  <2>4. /\ job' \in JobTable
        /\ \A u \in Versions, h \in Generations \cup {0} :
             u # v \/ h # g => job'[u][h] = job[u][h]
        /\ job'[v][g] = row
    BY <1>1, <2>1, <2>2, <2>3, JobUpdate DEF Tables
  <2>5. doc' \in [Versions -> Contents \cup {None}] /\ doc'[v] # None
        /\ \A u \in Versions : u # v => doc'[u] = doc[u]
    BY <1>1, <2>1, <2>2, JobsAssumption DEF Tables
  <2>6. Documented'
    BY <1>1, <2>4, <2>5 DEF Documented
  <2>7. ASSUME NEW x \in Workers
        PROVE  Positioned(worker[x])'
    <3>1. Positioned(worker[x]) /\ worker' = worker
      BY <2>1 DEF Inv
    <3>2. DOMAIN worker[x].found \subseteq Versions
      BY <3>1 DEF Positioned, WorkerState
    <3>3. worker[x].claim # None =>
            worker[x].claim.v \in Versions /\ worker[x].gen \in Generations
      BY <3>1 DEF Positioned, WorkerState, Claim
    <3>4. worker[x].claim # None => job'[worker[x].claim.v][worker[x].gen] # None
      BY <2>3, <2>4, <3>1, <3>3, RowsAssumption DEF Positioned
    <3> QED BY <2>5, <3>1, <3>2, <3>4 DEF Positioned
  <2> QED BY <1>1, <2>1, <2>4, <2>5, <2>6, <2>7 DEF Inv, Tables
<1> QED BY <1>2, <1>3

LEMMA OffFacts == Positioned(Off) /\ Off.claim = None
<1>1. [v \in {} |-> None] \in Founds
  <2>1. [v \in {} |-> None] \in [{} -> Contents] /\ {} \in SUBSET Versions
    OBVIOUS
  <2> QED BY <2>1
<1> HIDE DEF Founds
<1> QED BY <1>1 DEF Off, Positioned

LEMMA BootStep ==
  ASSUME Inv, NEW w \in Workers, NEW g \in Generations, activateGeneration(w, g)
  PROVE  Inv'
<1> DEFINE state == [Off EXCEPT !.pc = "stale", !.gen = g]
<1>1. Tables /\ Documented
  BY DEF Inv
<1>2. /\ active' = g /\ worker' = [worker EXCEPT ![w] = state]
      /\ UNCHANGED <<doc, job, vec, writing, changes, faults>>
  BY DEF activateGeneration
<1>3. Positioned(state)
  BY OffFacts DEF Positioned, WorkerState
<1> HIDE DEF state
<1>4. Tables' /\ Documented'
  BY <1>1, <1>2 DEF Tables, Documented
<1> QED BY <1>2, <1>3, <1>4, WorkerUpdate DEF JobsStay

LEMMA PrepareStep ==
  ASSUME Inv, NEW w \in Workers, Prepare(w)
  PROVE  Inv'
<1> DEFINE g == worker[w].gen
<1>1. Tables /\ Documented /\ Positioned(worker[w])
  BY DEF Inv
<1>2. g \in Generations
  BY <1>1 DEF Prepare, propagateStaleness, Adopt, Discard, Snapshot, InsertFound, At, Positioned
<1>3. CASE propagateStaleness(w)
  <2>1. /\ vec' = [v \in Versions |-> [vec[v] EXCEPT ![g] = Aged(vec[v][g], doc[v])]]
        /\ Goto(w, "adopt") /\ UNCHANGED <<doc, job, active, writing, changes, faults>>
        /\ At(w, "stale")
    BY <1>1, <1>3 DEF propagateStaleness, Tables
  <2>2. \A v \in Versions : Aged(vec[v][g], doc[v]) \in Vector \cup {None}
    <3> SUFFICES ASSUME NEW v \in Versions PROVE Aged(vec[v][g], doc[v]) \in Vector \cup {None}
      OBVIOUS
    <3>1. vec[v][g] \in Vector \cup {None}
      BY <1>1, <1>2 DEF Tables
    <3> QED BY <3>1 DEF Aged, Vector
  <2>3. vec' \in VectorTable
    BY <1>1, <1>2, <2>1, <2>2 DEF Tables
  <2>4. Tables' /\ Documented'
    BY <1>1, <2>1, <2>3 DEF Tables, Documented
  <2> QED BY <2>1, <2>4, GotoFacts DEF At, JobsStay
<1>4. CASE Adopt(w)
  <2> DEFINE pending(v) == [job[v][0] EXCEPT !.state = "pending"]
  <2>1. /\ job' = [v \in Versions |-> IF job[v][0] # None /\ job[v][g] = None
                                      THEN [job[v] EXCEPT ![0] = None, ![g] = pending(v)]
                                      ELSE job[v]]
        /\ Goto(w, "discard") /\ UNCHANGED <<doc, vec, active, writing, changes, faults>>
        /\ At(w, "adopt")
    BY <1>4 DEF Adopt
  <2>2. ASSUME NEW v \in Versions, job[v][0] # None
        PROVE  pending(v) \in JobRow
    <3>1. job[v][0] \in JobRow
      BY <1>1, <2>2 DEF Tables
    <3> QED BY <3>1 DEF JobRow
  <2> HIDE DEF pending
  <2>3. job' \in JobTable
    BY <1>1, <1>2, <2>1, <2>2 DEF Tables
  <2>4. Tables' /\ Documented'
    BY <1>1, <2>1, <2>3, DocumentedStep DEF Tables
  <2>5. JobsStay
    BY <1>1, <1>2, <2>1, <2>2, JobsAssumption, RowsAssumption DEF JobsStay, Tables
  <2> QED BY <2>1, <2>4, <2>5, GotoFacts DEF At
<1>5. CASE Discard(w)
  <2>1. /\ job' = [v \in Versions |-> [job[v] EXCEPT ![0] = None]]
        /\ Goto(w, "enqueue") /\ UNCHANGED <<doc, vec, active, writing, changes, faults>>
        /\ At(w, "discard")
    BY <1>5 DEF Discard
  <2>2. job' \in JobTable
    BY <1>1, <2>1 DEF Tables
  <2>3. \A v \in Versions, h \in Generations \cup {0} : job'[v][h] # None => job[v][h] # None
    BY <1>1, <2>1 DEF Tables
  <2>4. Tables' /\ Documented'
    BY <1>1, <2>1, <2>2, <2>3, DocumentedStep DEF Tables
  <2>5. JobsStay
    BY <1>1, <2>1, JobsAssumption DEF JobsStay, Tables
  <2> QED BY <2>1, <2>4, <2>5, GotoFacts DEF At
<1>6. CASE Snapshot(w)
  <2> DEFINE state == [worker[w] EXCEPT !.pc = "insert", !.found = Missing(g)]
  <2>1. /\ worker' = [worker EXCEPT ![w] = state] /\ At(w, "enqueue")
        /\ UNCHANGED <<doc, job, vec, active, writing, changes, faults>>
    BY <1>6 DEF Snapshot
  <2>2. Missing(g) \in Founds
    <3> DEFINE S == {u \in Versions : doc[u] # None /\ ~Ready(u, g)}
    <3>1. Missing(g) \in [S -> Contents] /\ S \in SUBSET Versions
      BY <1>1 DEF Missing, Tables
    <3> QED BY <3>1
  <2> HIDE DEF Founds
  <2>3. Positioned(state)
    <3>1. \A v \in DOMAIN Missing(g) : doc[v] # None
      BY DEF Missing
    <3> QED BY <1>1, <1>2, <2>1, <2>2, <3>1 DEF WorkerState, Positioned, At
  <2> HIDE DEF state
  <2>4. Tables' /\ Documented'
    BY <1>1, <2>1 DEF Tables, Documented
  <2> QED BY <2>1, <2>3, <2>4, WorkerUpdate DEF JobsStay
<1>7. CASE InsertFound(w)
  <2> DEFINE state == [worker[w] EXCEPT !.pc = "run", !.found = Off.found]
             found == worker[w].found
  <2>1. /\ worker' = [worker EXCEPT ![w] = state] /\ At(w, "insert") /\ Insert(g, found)
        /\ UNCHANGED <<doc, vec, active, writing, changes, faults>>
    BY <1>7 DEF InsertFound
  <2>2. found \in Founds
    BY <1>1 DEF Positioned
  <2>3. \A v \in DOMAIN found : v \in Versions /\ found[v] \in Contents
    BY <2>2
  <2> HIDE DEF Founds
  <2>4. Off.found \in Founds /\ DOMAIN Off.found = {}
    BY OffFacts DEF Positioned, Off
  <2>5. Positioned(state)
    BY <1>1, <1>2, <2>1, <2>4 DEF WorkerState, Positioned, At
  <2> HIDE DEF state, found
  <2>6. \A v \in DOMAIN found : Enqueued(job[v][g], found[v]) \in JobRow
    <3> SUFFICES ASSUME NEW v \in DOMAIN found
                 PROVE  Enqueued(job[v][g], found[v]) \in JobRow
      OBVIOUS
    <3>1. job[v][g] \in JobRow \cup {None}
      BY <1>1, <1>2, <2>3 DEF Tables
    <3>2. CASE job[v][g] = None
      BY <2>3, <3>2, NewJobFacts DEF Enqueued
    <3> QED BY <2>3, <3>1, <3>2, RowFacts
  <2>7. job' = [v \in Versions |-> IF v \in DOMAIN found
                  THEN [job[v] EXCEPT ![g] = Enqueued(job[v][g], found[v])] ELSE job[v]]
    BY <1>1, <1>2, <2>1 DEF Insert, Tables
  <2>8. job' \in JobTable
    BY <1>1, <1>2, <2>6, <2>7 DEF Tables
  <2>9. Tables'
    BY <1>1, <2>1, <2>8 DEF Tables
  <2>10. \A v \in DOMAIN found : doc[v] # None
    BY <1>1 DEF Positioned, found
  <2>11. Documented'
    BY <1>1, <1>2, <2>1, <2>7, <2>10 DEF Documented, Tables
  <2>12. JobsStay
    BY <1>1, <1>2, <2>6, <2>7, RowsAssumption DEF JobsStay, Tables
  <2> QED BY <2>1, <2>5, <2>9, <2>11, <2>12, WorkerUpdate
<1> QED BY <1>3, <1>4, <1>5, <1>6, <1>7 DEF Prepare

LEMMA ClaimStep ==
  ASSUME Inv, NEW w \in Workers, NEW v \in Versions, claimJobs(w, v)
  PROVE  Inv'
<1> DEFINE g == worker[w].gen
           token == NextToken(v, g)
           row == [job[v][g] EXCEPT !.state = "leased", !.held = TRUE, !.token = token]
           claim == [v |-> v, hash |-> job[v][g].hash, text |-> doc[v],
                     attempts |-> job[v][g].attempts, token |-> token]
           state == [worker[w] EXCEPT !.pc = "embed", !.claim = claim]
<1>1. Tables /\ Documented /\ Positioned(worker[w])
  BY DEF Inv
<1>2. /\ job' = [job EXCEPT ![v][g] = row] /\ worker' = [worker EXCEPT ![w] = state]
      /\ UNCHANGED <<doc, vec, active, writing, changes, faults>>
      /\ At(w, "run") /\ job[v][g] # None
  BY DEF claimJobs, Claimable
<1>3. g \in Generations
  BY <1>1, <1>2 DEF Positioned, At
<1>4. token \in Tokens
  BY <1>3, TokenFacts
<1>5. job[v][g] \in JobRow /\ doc[v] \in Contents
  BY <1>1, <1>2, <1>3 DEF Tables, Documented
<1> HIDE DEF token
<1>6. row \in JobRow
  BY <1>4, <1>5 DEF JobRow, Tokens
<1>7. claim \in Claim /\ claim # None
  <2>1. claim \in Claim
    BY <1>4, <1>5 DEF Claim, JobRow, Tokens
  <2> QED BY <2>1, RowsAssumption
<1> HIDE DEF row, claim, g
<1>8. Positioned(state)
  BY <1>1, <1>2, <1>3, <1>7 DEF Positioned, WorkerState, At, g, claim
<1> HIDE DEF state
<1>9. job' \in JobTable
  BY <1>1, <1>2, <1>3, <1>6, JobUpdate DEF Tables
<1>10. \A u \in Versions, h \in Generations \cup {0} : job'[u][h] # None => job[u][h] # None
  BY <1>1, <1>2, <1>3, <1>6, JobUpdate DEF Tables
<1>11. Tables' /\ Documented'
  BY <1>1, <1>2, <1>9, <1>10, DocumentedStep DEF Tables
<1>12. JobsStay
  BY <1>1, <1>2, <1>3, <1>6, JobUpdate, RowsAssumption DEF JobsStay, Tables
<1> QED BY <1>2, <1>8, <1>11, <1>12, WorkerUpdate

\* A worker forgets what it claimed.
LEMMA FinishFacts ==
  ASSUME Inv, NEW w \in Workers, At(w, "embed"), Finish(w), doc' = doc, JobsStay,
         Tables', Documented'
  PROVE  Inv'
<1> DEFINE state == [worker[w] EXCEPT !.pc = "run", !.claim = None]
<1>1. Positioned(worker[w])
  BY DEF Inv
<1>2. Positioned(state)
  BY <1>1 DEF Positioned, WorkerState, At
<1>3. worker' = [worker EXCEPT ![w] = state]
  BY DEF Finish
<1> HIDE DEF state
<1> QED BY <1>2, <1>3, WorkerUpdate

\* What a worker at work has claimed.
LEMMA ClaimFacts ==
  ASSUME Inv, NEW w \in Workers, At(w, "embed")
  PROVE  /\ worker[w].claim \in Claim /\ worker[w].claim.v \in Versions
         /\ worker[w].claim.hash \in Contents /\ worker[w].claim.attempts \in Nat
         /\ worker[w].gen \in Generations
<1>1. Positioned(worker[w])
  BY DEF Inv
<1>2. worker[w].claim \in Claim /\ worker[w].gen \in Generations
  BY <1>1 DEF Positioned, WorkerState, At
<1> QED BY <1>2 DEF Claim

\* What a worker stores or gives up is a row that is there.
LEMMA WorkStep ==
  ASSUME Inv, NEW w \in Workers, Work(w)
  PROVE  Inv'
<1> DEFINE g == worker[w].gen
           claim == worker[w].claim
           v == claim.v
<1>1. /\ Tables /\ Documented /\ Positioned(worker[w])
      /\ At(w, "embed") /\ Finish(w) /\ UNCHANGED <<doc, active, writing, changes, faults>>
  BY DEF Inv, Work, storeEmbeddings, failJobs
<1>2. /\ v \in Versions /\ claim.hash \in Contents /\ claim.text \in Contents
      /\ claim.attempts \in Nat /\ g \in Generations
  BY <1>1, ClaimFacts DEF Claim
<1>3. job[v][g] \in JobRow
  BY <1>1, <1>2 DEF Positioned, Tables, At
<1>4. ASSUME vec' \in VectorTable, NEW row \in JobRow, job' = [job EXCEPT ![v][g] = row]
      PROVE  Inv'
  <2>1. /\ job' \in JobTable
        /\ \A u \in Versions, h \in Generations \cup {0} : job'[u][h] # None => job[u][h] # None
        /\ JobsStay
    <3>1. job \in JobTable /\ job[v][g] # None
      BY <1>1, <1>3, RowsAssumption DEF Tables
    <3> HIDE DEF v, g
    <3> QED BY <1>2, <1>4, <3>1, RowUpdate
  <2>2. Tables' /\ Documented'
    BY <1>1, <1>4, <2>1, DocumentedStep DEF Tables
  <2> QED BY <1>1, <2>1, <2>2, FinishFacts
<1>5. ASSUME UNCHANGED <<job, vec>>
      PROVE  Inv'
  <2>1. Tables' /\ Documented' /\ JobsStay
    BY <1>1, <1>5 DEF Tables, Documented, JobsStay
  <2> QED BY <1>1, <2>1, FinishFacts
<1>6. CASE storeEmbeddings(w)
  <2> DEFINE stored == [hash |-> claim.hash, text |-> claim.text, status |-> "ready"]
  <2>1. \/ UNCHANGED <<job, vec>>
        \/ job' = [job EXCEPT ![v][g] = Ended(job[v][g], "pending")] /\ vec' = vec
        \/ /\ job' = [job EXCEPT ![v][g] = Ended(job[v][g], "done")]
           /\ vec' = [vec EXCEPT ![v][g] = stored]
    <3>1. job \in JobTable
      BY <1>1 DEF Tables
    <3> QED BY <1>2, <1>6, <3>1 DEF storeEmbeddings
  <2>2. Ended(job[v][g], "pending") \in JobRow /\ Ended(job[v][g], "done") \in JobRow
    BY <1>3, RowFacts
  <2>3. stored \in Vector
    BY <1>2 DEF Vector
  <2> HIDE DEF stored, v, g
  <2>4. vec \in VectorTable
    BY <1>1 DEF Tables
  <2>5. vec' = vec \/ vec' = [vec EXCEPT ![v][g] = stored]
    BY <2>1
  <2>6. vec' \in VectorTable
    BY <1>2, <2>3, <2>4, <2>5
  <2> QED BY <1>4, <1>5, <2>1, <2>2, <2>6
<1>7. CASE failJobs(w)
  <2> DEFINE row == Failed(job[v][g], claim.attempts + 1)
  <2>1. job' = IF assertFence(w) THEN [job EXCEPT ![v][g] = row] ELSE job
    BY <1>7 DEF failJobs
  <2>2. vec' = vec /\ vec \in VectorTable
    BY <1>1, <1>7 DEF failJobs, Tables
  <2>3. row \in JobRow
    <3>1. claim.attempts + 1 \in Nat
      BY <1>2
    <3> HIDE DEF claim
    <3> QED BY <1>3, <3>1, RowFacts
  <2> HIDE DEF row, v, g
  <2> QED BY <1>4, <1>5, <2>1, <2>2, <2>3
<1> QED BY <1>6, <1>7 DEF Work

\* Leases that run out, and the operator's commands, write job rows that are there.
LEMMA RowsStep ==
  ASSUME Inv, UNCHANGED <<doc, vec, active, writing, worker>>,
         changes' \in 0 .. MaxChanges, faults' \in 0 .. MaxFaults, job' \in JobTable,
         \A v \in Versions, g \in Generations \cup {0} : job'[v][g] # None <=> job[v][g] # None
  PROVE  Inv'
<1>1. Tables /\ Documented
  BY DEF Inv
<1>2. Tables' /\ Documented'
  BY <1>1, DocumentedStep DEF Tables
<1>3. ASSUME NEW w \in Workers
      PROVE  Positioned(worker[w])'
  <2>1. Positioned(worker[w])
    BY DEF Inv
  <2>2. worker[w].claim # None => worker[w].claim.v \in Versions /\ worker[w].gen \in Generations
    BY <2>1 DEF Positioned, WorkerState, Claim
  <2> QED BY <2>1, <2>2 DEF Positioned
<1> QED BY <1>2, <1>3 DEF Inv

LEMMA LeaseStep ==
  ASSUME Inv, NEW v \in Versions, NEW g \in Generations, LeaseRunsOut(v, g) \/ LeaseOutlasted(v, g)
  PROVE  Inv'
<1> DEFINE row == [job[v][g] EXCEPT !.held = FALSE]
<1>1. Tables
  BY DEF Inv
<1>2. /\ job' = [job EXCEPT ![v][g] = row] /\ job[v][g] # None
      /\ UNCHANGED <<doc, vec, active, writing, worker>>
      /\ changes' \in 0 .. MaxChanges /\ faults' \in 0 .. MaxFaults
  BY <1>1, JobsAssumption DEF LeaseRunsOut, LeaseOutlasted, Held, Tables
<1>3. job[v][g] \in JobRow
  BY <1>1, <1>2 DEF Tables
<1>4. row \in JobRow
  BY <1>3 DEF JobRow
<1> HIDE DEF row
<1>5. /\ job' \in JobTable
      /\ \A u \in Versions, h \in Generations \cup {0} : job'[u][h] # None <=> job[u][h] # None
  BY <1>1, <1>2, <1>4, RowUpdate DEF Tables
<1> QED BY <1>2, <1>5, RowsStep

LEMMA CommandStep ==
  ASSUME Inv, NEW g \in Generations, revive(g) \/ Reindex(g)
  PROVE  Inv'
<1>1. Tables
  BY DEF Inv
<1> DEFINE Again(S) == [v \in Versions |-> IF v \in S
                                               THEN [job[v] EXCEPT ![g] = Restarted(job[v][g])]
                                               ELSE job[v]]
           jobs == {v \in Versions : job[v][g] # None}
<1>2. /\ \E S \in SUBSET jobs : job' = Again(S)
      /\ UNCHANGED <<doc, vec, active, writing, worker>>
      /\ changes' \in 0 .. MaxChanges /\ faults' \in 0 .. MaxFaults
  <2>1. CASE revive(g)
    <3> DEFINE S == {v \in jobs : job[v][g].state = "dead"}
    <3>1. job' = Again(S)
      BY <1>1, <2>1 DEF revive, Tables
    <3>2. S \in SUBSET jobs
      OBVIOUS
    <3> HIDE DEF Again, S, jobs
    <3> QED BY <1>1, <2>1, <3>1, <3>2, JobsAssumption DEF revive, Tables
  <2>2. CASE Reindex(g)
    <3>1. job' = Again(jobs)
      BY <1>1, <2>2 DEF Reindex, Tables
    <3> HIDE DEF Again, jobs
    <3> QED BY <1>1, <2>2, <3>1, JobsAssumption DEF Reindex, Tables
  <2> QED BY <2>1, <2>2
<1>3. PICK S \in SUBSET jobs : job' = Again(S)
  BY <1>2
<1>4. \A v \in S : v \in Versions /\ job[v][g] # None /\ Restarted(job[v][g]) \in JobRow
  BY <1>1, RowFacts DEF Tables
<1>5. /\ job' \in JobTable
      /\ \A v \in Versions, h \in Generations \cup {0} : job'[v][h] # None <=> job[v][h] # None
  BY <1>1, <1>3, <1>4, RowsAssumption DEF Tables
<1> QED BY <1>2, <1>5, RowsStep

LEMMA CrashStep ==
  ASSUME Inv, NEW w \in Workers, Crash(w)
  PROVE  Inv'
<1>1. /\ worker' = [worker EXCEPT ![w] = Off] /\ faults' \in 0 .. MaxFaults
      /\ UNCHANGED <<doc, job, vec, active, writing, changes>>
  BY JobsAssumption DEF Crash, Inv, Tables
<1>2. Tables' /\ Documented' /\ JobsStay
  BY <1>1 DEF Inv, Tables, Documented, JobsStay
<1> QED BY <1>1, <1>2, OffFacts, WorkerUpdate

LEMMA InvAlways == Spec => []Inv
<1>1. Init => Inv
  <2> SUFFICES ASSUME Init PROVE Inv
    OBVIOUS
  <2>1. Tables /\ Documented
    BY JobsAssumption DEF Init, Tables, Documented
  <2> QED BY <2>1, OffFacts DEF Init, Inv, Positioned
<1>2. Inv /\ [Next]_vars => Inv'
  <2> SUFFICES ASSUME Inv, [Next]_vars PROVE Inv'
    OBVIOUS
  <2>1. CASE Next
    BY <2>1, CatalogStep, BootStep, PrepareStep, ClaimStep, WorkStep, LeaseStep, CommandStep,
       CrashStep DEF Next, Boot
  <2>2. CASE UNCHANGED vars
    BY <2>2 DEF vars, Inv, Tables, Documented, Positioned
  <2> QED BY <2>1, <2>2
<1> QED BY <1>1, <1>2, PTL DEF Spec

\* Documents, jobs, vectors and workers are of their types; only a worker that embeds has a claim.
THEOREM JobsTypeCorrect == Spec => []TypeOK
BY InvTypes, InvAlways, PTL

-----------------------------------------------------------------------------
(* One model is served, and no catalog transaction overlaps a boot. *)

OneModel == Hazards = {} /\ \E g \in Generations : Generations = {g}
Model == CHOOSE g \in Generations : TRUE

\* Jobs are for the text of now, vectors are of the text they name, and what is done is ready.
\* A job of no model counts while the model has none.
VersionCurrent(v) ==
  /\ job[v][Model] # None => job[v][Model].hash = doc[v]
  /\ job[v][0] # None /\ job[v][Model] = None => job[v][0].hash = doc[v]
  /\ vec[v][Model] # None => vec[v][Model].text = vec[v][Model].hash
  /\ job[v][Model] # None /\ job[v][Model].state = "done" => Ready(v, Model)

\* A worker holds a text for the hash it claimed, and nothing changes between its Snapshot
\* and InsertFound.
WorkerCurrent(w) ==
  /\ active = 0 => At(w, "off")
  /\ At(w, "insert") => \A v \in DOMAIN worker[w].found : worker[w].found[v] = doc[v]
  /\ worker[w].claim # None => worker[w].claim.text = worker[w].claim.hash

Current ==
  /\ active = 0 => \A v \in Versions : job[v][Model] = None
  /\ writing # None => writing.gen = active
  /\ \A v \in Versions : VersionCurrent(v)
  /\ \A w \in Workers : WorkerCurrent(w)

LEMMA ModelFacts ==
  ASSUME OneModel
  PROVE  Generations = {Model} /\ Model # 0 /\ Hazards = {}
BY JobsAssumption DEF OneModel, Model

LEMMA CatalogCurrent ==
  ASSUME OneModel, Inv, Current,
         (\E v \in Versions, hash \in Contents : BeginObserve(v, hash)) \/ CommitObserve
  PROVE  Current'
<1>1. Tables /\ active \in {0, Model} /\ Model # 0 /\ Hazards = {}
  BY ModelFacts DEF Inv, Tables
<1>2. ASSUME NEW v \in Versions, NEW hash \in Contents, BeginObserve(v, hash)
      PROVE  Current'
  <2>1. /\ writing' = [v |-> v, hash |-> hash, gen |-> active]
        /\ UNCHANGED <<doc, job, vec, active, worker>>
    BY <1>2 DEF BeginObserve
  <2> QED BY <2>1 DEF Current, VersionCurrent, WorkerCurrent, Ready, At
<1>3. ASSUME CommitObserve
      PROVE  Current'
  <2> DEFINE v == writing.v
             g == writing.gen
             hash == writing.hash
             row == IF job[v][g] = None THEN NewJob(hash) ELSE Reopened(job[v][g], hash)
  <2>1. /\ writing # None /\ writing' = None /\ UNCHANGED <<vec, active, worker>>
        /\ doc' = [doc EXCEPT ![v] = hash] /\ job' = [job EXCEPT ![v][g] = row]
        /\ \A w \in Workers : ~At(w, "insert")
    BY <1>1, <1>3 DEF CommitObserve, indexVersion
  <2>2. v \in Versions /\ g = active /\ g \in Generations \cup {0} /\ hash \in Contents
    BY <1>1, <2>1 DEF Transaction, Tables, Current
  <2>3. job[v][g] \in JobRow \cup {None}
    BY <1>1, <2>2 DEF Tables
  <2>4. /\ row \in JobRow /\ row # None /\ row.hash = hash
        /\ row.state = "done" => job[v][g] # None /\ job[v][g].state = "done"
                                 /\ job[v][g].hash = hash
    <3>1. CASE job[v][g] = None
      <4>1. row \in JobRow
        BY <2>2, <3>1, NewJobFacts
      <4> QED BY <3>1, <4>1, RowsAssumption DEF NewJob
    <3>2. CASE job[v][g] # None
      <4>1. row \in JobRow /\ job[v][g] \in JobRow
        BY <2>2, <2>3, <3>2, RowFacts
      <4>2. row = Reopened(job[v][g], hash)
        BY <3>2
      <4> HIDE DEF row, v, g, hash
      <4>3. /\ row.hash = hash
            /\ row.state = IF job[v][g].hash = hash THEN job[v][g].state ELSE "pending"
        BY <4>1, <4>2 DEF Reopened, JobRow
      <4> QED BY <3>2, <4>1, <4>3, RowsAssumption
    <3> QED BY <3>1, <3>2
  <2> HIDE DEF row, v, g, hash
  <2>5. /\ job'[v][g] = row
        /\ \A u \in Versions, h \in Generations \cup {0} :
             u # v \/ h # g => job'[u][h] = job[u][h]
    BY <1>1, <2>1, <2>2, <2>4, JobUpdate DEF Tables
  <2>6. doc'[v] = hash /\ \A u \in Versions : u # v => doc'[u] = doc[u]
    BY <1>1, <2>1, <2>2 DEF Tables
  <2>7. Model \in Generations
    BY ModelFacts
  <2>8. ASSUME NEW u \in Versions
        PROVE  VersionCurrent(u)'
    <3>1. VersionCurrent(u)
      BY DEF Current
    <3>2. CASE u # v
      <4>1. doc'[u] = doc[u] /\ job'[u][Model] = job[u][Model] /\ job'[u][0] = job[u][0]
            /\ vec' = vec
        BY <2>1, <2>5, <2>6, <2>7, <3>2
      <4> QED BY <3>1, <4>1 DEF VersionCurrent, Ready
    <3>3. CASE u = v /\ active = 0
      <4>1. job'[u][Model] = None /\ job'[u][0] = row /\ doc'[u] = hash /\ vec' = vec
        BY <1>1, <2>1, <2>2, <2>5, <2>6, <2>7, <3>3 DEF Current
      <4> QED BY <2>4, <3>1, <4>1 DEF VersionCurrent
    <3>4. CASE u = v /\ active = Model
      <4>1. job'[u][Model] = row /\ doc'[u] = hash /\ vec' = vec
        BY <1>1, <2>1, <2>2, <2>5, <2>6, <3>4
      <4>2. row.state = "done" => doc[u] = hash /\ Ready(u, Model)
        BY <2>2, <2>4, <3>1, <3>4 DEF VersionCurrent
      <4> QED BY <2>4, <3>1, <4>1, <4>2 DEF VersionCurrent, Ready
    <3> QED BY <1>1, <3>2, <3>3, <3>4
  <2>9. ASSUME NEW w \in Workers
        PROVE  WorkerCurrent(w)'
    BY <2>1 DEF Current, WorkerCurrent, At
  <2>10. active' = 0 => \A u \in Versions : job'[u][Model] = None
    BY <1>1, <2>1, <2>2, <2>5, <2>7 DEF Current
  <2> QED BY <2>1, <2>8, <2>9, <2>10 DEF Current
<1> QED BY <1>2, <1>3

LEMMA BootCurrent ==
  ASSUME OneModel, Inv, Current, NEW w \in Workers, NEW g \in Generations, activateGeneration(w, g)
  PROVE  Current'
<1> DEFINE state == [Off EXCEPT !.pc = "stale", !.gen = g]
<1>1. /\ active' = g /\ worker' = [worker EXCEPT ![w] = state] /\ writing = None
      /\ UNCHANGED <<doc, job, vec, writing>> /\ g # 0
  BY ModelFacts DEF activateGeneration
<1>2. state.pc = "stale" /\ state.claim = None
  BY DEF Off
<1> HIDE DEF state
<1>3. ASSUME NEW x \in Workers
      PROVE  WorkerCurrent(x)'
  <2>1. worker'[x] = IF x = w THEN state ELSE worker[x]
    BY <1>1 DEF Inv
  <2> QED BY <1>1, <1>2, <2>1 DEF WorkerCurrent, At, Current
<1> QED BY <1>1, <1>3 DEF Current, VersionCurrent, Ready

\* A worker writes itself and the rows of versions.
LEMMA StepCurrent ==
  ASSUME OneModel, Inv, Current, NEW w \in Workers, ~At(w, "off"), NEW state,
         worker' = [worker EXCEPT ![w] = state],
         state.pc = "insert" => \A v \in DOMAIN state.found : state.found[v] = doc[v],
         state.claim # None => state.claim.text = state.claim.hash,
         UNCHANGED <<doc, active, writing>>, \A v \in Versions : VersionCurrent(v)'
  PROVE  Current'
<1>1. active # 0
  BY DEF Current, WorkerCurrent
<1>2. \A x \in Workers : worker'[x] = IF x = w THEN state ELSE worker[x]
  BY DEF Inv
<1>3. ASSUME NEW x \in Workers
      PROVE  WorkerCurrent(x)'
  BY <1>1, <1>2 DEF WorkerCurrent, At, Current
<1> QED BY <1>1, <1>3 DEF Current

LEMMA GotoCurrent ==
  ASSUME OneModel, Inv, Current, NEW w \in Workers, NEW pc \in {"adopt", "discard", "enqueue"},
         ~At(w, "off"), ~At(w, "embed"), Goto(w, pc),
         UNCHANGED <<doc, active, writing>>, \A v \in Versions : VersionCurrent(v)'
  PROVE  Current'
<1> DEFINE state == [worker[w] EXCEPT !.pc = pc]
<1>1. Positioned(worker[w])
  BY DEF Inv
<1>2. state.pc = pc /\ state.claim = None
  BY <1>1 DEF Positioned, WorkerState, At
<1>3. worker' = [worker EXCEPT ![w] = state]
  BY DEF Goto
<1> HIDE DEF state
<1> QED BY <1>2, <1>3, StepCurrent

LEMMA PrepareCurrent ==
  ASSUME OneModel, Inv, Current, NEW w \in Workers, Prepare(w)
  PROVE  Current'
<1>1. Tables /\ Documented /\ Positioned(worker[w]) /\ Model # 0 /\ Model \in Generations
  BY ModelFacts DEF Inv
<1>2. worker[w].gen = Model /\ ~At(w, "off")
  BY <1>1, ModelFacts
     DEF Prepare, propagateStaleness, Adopt, Discard, Snapshot, InsertFound, At, Positioned
<1>3. \A v \in Versions : VersionCurrent(v)
  BY DEF Current
<1>4. CASE propagateStaleness(w)
  <2>1. /\ vec' = [v \in Versions |-> [vec[v] EXCEPT ![Model] = Aged(vec[v][Model], doc[v])]]
        /\ Goto(w, "adopt") /\ UNCHANGED <<doc, job, active, writing>> /\ At(w, "stale")
    BY <1>1, <1>2, <1>4 DEF propagateStaleness, Tables
  <2>2. ASSUME NEW v \in Versions
        PROVE  VersionCurrent(v)'
    <3>1. vec'[v][Model] = Aged(vec[v][Model], doc[v]) /\ vec[v][Model] \in Vector \cup {None}
      BY <1>1, <2>1 DEF Tables
    <3>2. CASE vec[v][Model] # None /\ vec[v][Model].hash # doc[v]
      <4>1. /\ vec'[v][Model] # None /\ vec'[v][Model].hash = vec[v][Model].hash
            /\ vec'[v][Model].text = vec[v][Model].text
        BY <3>1, <3>2, RowsAssumption DEF Aged, Vector
      <4> QED BY <1>3, <2>1, <3>2, <4>1 DEF VersionCurrent, Ready
    <3>3. CASE ~(vec[v][Model] # None /\ vec[v][Model].hash # doc[v])
      BY <1>3, <2>1, <3>1, <3>3 DEF VersionCurrent, Ready, Aged
    <3> QED BY <3>2, <3>3
  <2> QED BY <2>1, <2>2, GotoCurrent DEF At
<1>5. CASE Adopt(w)
  <2> DEFINE pending(v) == [job[v][0] EXCEPT !.state = "pending"]
  <2>1. /\ job' = [v \in Versions |-> IF job[v][0] # None /\ job[v][Model] = None
                                      THEN [job[v] EXCEPT ![0] = None, ![Model] = pending(v)]
                                      ELSE job[v]]
        /\ Goto(w, "discard") /\ UNCHANGED <<doc, vec, active, writing>> /\ At(w, "adopt")
    BY <1>2, <1>5 DEF Adopt
  <2>2. ASSUME NEW v \in Versions
        PROVE  VersionCurrent(v)'
    <3>1. CASE job[v][0] # None /\ job[v][Model] = None
      <4>1. job[v][0] \in JobRow
        BY <1>1, <3>1 DEF Tables
      <4>2. pending(v).state = "pending" /\ pending(v).hash = job[v][0].hash
        BY <4>1 DEF JobRow
      <4> HIDE DEF pending
      <4>3. job'[v][Model] = pending(v) /\ job'[v][0] = None
        BY <1>1, <2>1, <3>1 DEF Tables
      <4> QED BY <1>3, <2>1, <3>1, <4>2, <4>3 DEF VersionCurrent
    <3>2. CASE ~(job[v][0] # None /\ job[v][Model] = None)
      <4>1. job'[v] = job[v]
        BY <2>1, <3>2
      <4> QED BY <1>3, <2>1, <4>1 DEF VersionCurrent, Ready
    <3> QED BY <3>1, <3>2
  <2> QED BY <2>1, <2>2, GotoCurrent DEF At
<1>6. CASE Discard(w)
  <2>1. /\ job' = [v \in Versions |-> [job[v] EXCEPT ![0] = None]]
        /\ Goto(w, "enqueue") /\ UNCHANGED <<doc, vec, active, writing>> /\ At(w, "discard")
    BY <1>6 DEF Discard
  <2>2. ASSUME NEW v \in Versions
        PROVE  VersionCurrent(v)'
    <3>1. job'[v][0] = None /\ job'[v][Model] = job[v][Model]
      BY <1>1, <2>1 DEF Tables
    <3> QED BY <1>3, <2>1, <3>1 DEF VersionCurrent, Ready
  <2> QED BY <2>1, <2>2, GotoCurrent DEF At
<1>7. CASE Snapshot(w)
  <2> DEFINE state == [worker[w] EXCEPT !.pc = "insert", !.found = Missing(Model)]
  <2>1. /\ worker' = [worker EXCEPT ![w] = state] /\ At(w, "enqueue")
        /\ UNCHANGED <<doc, job, vec, active, writing>>
    BY <1>2, <1>7 DEF Snapshot
  <2>2. /\ state.found = Missing(Model) /\ state.claim = None
    BY <1>1, <2>1 DEF Positioned, WorkerState, At
  <2>3. \A v \in DOMAIN Missing(Model) : Missing(Model)[v] = doc[v]
    BY DEF Missing
  <2> HIDE DEF state
  <2>4. \A v \in Versions : VersionCurrent(v)'
    BY <1>3, <2>1 DEF VersionCurrent, Ready
  <2> QED BY <1>2, <2>1, <2>2, <2>3, <2>4, StepCurrent
<1>8. CASE InsertFound(w)
  <2> DEFINE state == [worker[w] EXCEPT !.pc = "run", !.found = Off.found]
             found == worker[w].found
  <2>1. /\ worker' = [worker EXCEPT ![w] = state] /\ At(w, "insert") /\ Insert(Model, found)
        /\ UNCHANGED <<doc, vec, active, writing>>
    BY <1>2, <1>8 DEF InsertFound
  <2>2. state.pc = "run" /\ state.claim = None
    BY <1>1, <2>1 DEF Positioned, WorkerState, At
  <2>3. \A v \in DOMAIN found : v \in Versions /\ found[v] = doc[v] /\ found[v] \in Contents
    <3>1. found \in Founds
      BY <1>1 DEF Positioned
    <3>2. \A v \in DOMAIN found : v \in Versions /\ found[v] \in Contents
      BY <3>1
    <3> QED BY <2>1, <3>2 DEF Current, WorkerCurrent
  <2> HIDE DEF state, found
  <2>4. job' = [v \in Versions |-> IF v \in DOMAIN found
                  THEN [job[v] EXCEPT ![Model] = Enqueued(job[v][Model], found[v])] ELSE job[v]]
    BY <1>1, <2>1 DEF Insert, Tables
  <2>5. ASSUME NEW v \in Versions
        PROVE  VersionCurrent(v)'
    <3>1. CASE v \in DOMAIN found
      <4> DEFINE old == job[v][Model]
                 new == Enqueued(old, found[v])
      <4>1. job'[v][Model] = new /\ job'[v][0] = job[v][0]
        BY <1>1, <2>4, <3>1 DEF Tables
      <4>2. old \in JobRow \cup {None}
        BY <1>1 DEF Tables
      <4>3. /\ new \in JobRow /\ new.hash = found[v]
            /\ new.state = "done" => old # None /\ old.state = "done"
        <5>1. CASE old = None
          BY <2>3, <3>1, <5>1, NewJobFacts DEF Enqueued, NewJob
        <5>2. CASE old # None
          <6>1. new \in JobRow
            BY <2>3, <3>1, <4>2, <5>2, RowFacts
          <6> HIDE DEF old
          <6>2. new.hash = found[v] /\ (new.state = "done" => old.state = "done")
            BY <4>2, <5>2 DEF Enqueued, JobRow
          <6> QED BY <5>2, <6>1, <6>2
        <5> QED BY <5>1, <5>2
      <4>4. new # None
        BY <4>3, RowsAssumption
      <4> HIDE DEF new
      <4> QED BY <1>3, <2>1, <2>3, <3>1, <4>1, <4>3, <4>4 DEF VersionCurrent, Ready
    <3>2. CASE v \notin DOMAIN found
      <4>1. job'[v] = job[v]
        BY <2>4, <3>2
      <4> QED BY <1>3, <2>1, <4>1 DEF VersionCurrent, Ready
    <3> QED BY <3>1, <3>2
  <2> QED BY <1>2, <2>1, <2>2, <2>5, StepCurrent
<1> QED BY <1>4, <1>5, <1>6, <1>7, <1>8 DEF Prepare

LEMMA ClaimCurrent ==
  ASSUME OneModel, Inv, Current, NEW w \in Workers, NEW v \in Versions, claimJobs(w, v)
  PROVE  Current'
<1> DEFINE old == job[v][Model]
           token == NextToken(v, Model)
           row == [old EXCEPT !.state = "leased", !.held = TRUE, !.token = token]
           claim == [v |-> v, hash |-> old.hash, text |-> doc[v],
                     attempts |-> old.attempts, token |-> token]
           state == [worker[w] EXCEPT !.pc = "embed", !.claim = claim]
<1>1. Tables /\ Positioned(worker[w]) /\ Model # 0 /\ Model \in Generations
  BY ModelFacts DEF Inv
<1>2. worker[w].gen = Model /\ At(w, "run")
  BY <1>1, ModelFacts DEF claimJobs, At, Positioned
<1>3. /\ job' = [job EXCEPT ![v][Model] = row] /\ worker' = [worker EXCEPT ![w] = state]
      /\ UNCHANGED <<doc, vec, active, writing>> /\ old # None
  BY <1>2 DEF claimJobs, Claimable
<1>4. old \in JobRow /\ token \in Tokens
  BY <1>1, <1>3, TokenFacts DEF Tables
<1>5. \A u \in Versions : VersionCurrent(u)
  BY DEF Current
<1>6. old.hash = doc[v]
  BY <1>3, <1>5 DEF VersionCurrent
<1> HIDE DEF token, old
<1>7. row \in JobRow /\ row.hash = old.hash /\ row.state = "leased"
  BY <1>4 DEF JobRow, Tokens
<1> HIDE DEF row
<1>8. state.pc = "embed" /\ state.claim.text = state.claim.hash
  BY <1>1, <1>6 DEF Positioned, WorkerState
<1> HIDE DEF state
<1>9. /\ job'[v][Model] = row
      /\ \A u \in Versions, h \in Generations \cup {0} : u # v \/ h # Model => job'[u][h] = job[u][h]
  BY <1>1, <1>3, <1>7, JobUpdate DEF Tables
<1>10. ASSUME NEW u \in Versions
       PROVE  VersionCurrent(u)'
  <2>1. CASE u = v
    BY <1>3, <1>5, <1>6, <1>7, <1>9, <2>1, RowsAssumption DEF VersionCurrent, old
  <2>2. CASE u # v
    BY <1>1, <1>3, <1>5, <1>9, <2>2 DEF VersionCurrent, Ready
  <2> QED BY <2>1, <2>2
<1> QED BY <1>2, <1>3, <1>8, <1>10, StepCurrent DEF At

LEMMA WorkCurrent ==
  ASSUME OneModel, Inv, Current, NEW w \in Workers, Work(w)
  PROVE  Current'
<1> DEFINE claim == worker[w].claim
           v == claim.v
           state == [worker[w] EXCEPT !.pc = "run", !.claim = None]
<1>1. /\ Tables /\ Positioned(worker[w]) /\ Model # 0 /\ Model \in Generations
      /\ At(w, "embed") /\ Finish(w) /\ UNCHANGED <<doc, active, writing>>
  BY ModelFacts DEF Inv, Work, storeEmbeddings, failJobs
<1>2. worker[w].gen = Model /\ v \in Versions /\ claim.hash \in Contents /\ claim.attempts \in Nat
  BY <1>1, ClaimFacts, ModelFacts
<1>3. claim.text = claim.hash
  BY <1>1 DEF Current, WorkerCurrent, Positioned, At
<1>4. job[v][Model] \in JobRow /\ job[v][Model] # None
  BY <1>1, <1>2 DEF Positioned, Tables, At
<1>5. \A u \in Versions : VersionCurrent(u)
  BY DEF Current
<1>6. ASSUME \A u \in Versions : VersionCurrent(u)'
      PROVE  Current'
  <2>1. worker' = [worker EXCEPT ![w] = state] /\ state.pc = "run" /\ state.claim = None
    BY <1>1 DEF Finish, Positioned, WorkerState
  <2> HIDE DEF state
  <2> QED BY <1>1, <1>6, <2>1, StepCurrent DEF At
<1>7. ASSUME vec' = vec, NEW row \in JobRow, row.hash = job[v][Model].hash, row.state # "done",
             job' = [job EXCEPT ![v][Model] = row]
      PROVE  \A u \in Versions : VersionCurrent(u)'
  <2> HIDE DEF v
  <2>1. /\ job'[v][Model] = row
        /\ \A u \in Versions, h \in Generations \cup {0} :
             u # v \/ h # Model => job'[u][h] = job[u][h]
    BY <1>1, <1>2, <1>7, JobUpdate DEF Tables
  <2>2. row # None
    BY <1>7, RowsAssumption
  <2>3. ASSUME NEW u \in Versions
        PROVE  VersionCurrent(u)'
    <3>1. CASE u = v
      <4>1. job'[u][Model] = row /\ job'[u][0] = job[u][0]
        BY <1>1, <2>1, <3>1
      <4> QED BY <1>1, <1>4, <1>5, <1>7, <2>2, <3>1, <4>1 DEF VersionCurrent
    <3>2. CASE u # v
      <4>1. job'[u][Model] = job[u][Model] /\ job'[u][0] = job[u][0]
        BY <1>1, <2>1, <3>2
      <4> QED BY <1>1, <1>5, <1>7, <4>1 DEF VersionCurrent, Ready
    <3> QED BY <3>1, <3>2
  <2> QED BY <2>3
<1>8. CASE UNCHANGED <<job, vec>>
  BY <1>1, <1>5, <1>6, <1>8 DEF VersionCurrent, Ready
<1>9. CASE storeEmbeddings(w)
  <2> DEFINE stored == [hash |-> claim.hash, text |-> claim.text, status |-> "ready"]
             row(end) == Ended(job[v][Model], end)
  <2>1. \/ UNCHANGED <<job, vec>>
        \/ job' = [job EXCEPT ![v][Model] = row("pending")] /\ vec' = vec
        \/ /\ job' = [job EXCEPT ![v][Model] = row("done")]
           /\ vec' = [vec EXCEPT ![v][Model] = stored] /\ doc[v] = claim.hash
    <3>1. job \in JobTable
      BY <1>1 DEF Tables
    <3> QED BY <1>2, <1>9, <3>1 DEF storeEmbeddings, StillCurrent
  <2>2. \A end \in {"pending", "done"} :
          row(end) \in JobRow /\ row(end).hash = job[v][Model].hash /\ row(end).state = end
    BY <1>4, RowFacts DEF Ended, JobRow
  <2>3. stored \in Vector
    BY <1>2, <1>3 DEF Vector
  <2>4. stored # None /\ stored.hash = claim.hash /\ stored.text = claim.hash
        /\ stored.status = "ready"
    BY <1>3, <2>3, RowsAssumption
  <2> HIDE DEF stored, row
  <2>5. ASSUME job' = [job EXCEPT ![v][Model] = row("done")],
               vec' = [vec EXCEPT ![v][Model] = stored], doc[v] = claim.hash
        PROVE  \A u \in Versions : VersionCurrent(u)'
    <3> HIDE DEF v
    <3>1. /\ job'[v][Model] = row("done")
          /\ \A u \in Versions, h \in Generations \cup {0} :
               u # v \/ h # Model => job'[u][h] = job[u][h]
      BY <1>1, <1>2, <2>2, <2>5, JobUpdate DEF Tables
    <3>2. /\ vec'[v][Model] = stored
          /\ \A u \in Versions : u # v => vec'[u][Model] = vec[u][Model]
      BY <1>1, <1>2, <2>5 DEF Tables
    <3>3. ASSUME NEW u \in Versions
          PROVE  VersionCurrent(u)'
      <4>1. CASE u = v
        <5>1. job[v][Model].hash = doc[v] /\ doc' = doc
          BY <1>1, <1>2, <1>4, <1>5 DEF VersionCurrent, v
        <5>2. /\ job'[u][Model] # None /\ job'[u][Model].hash = doc[u]
              /\ job'[u][0] = job[u][0]
          BY <1>1, <1>4, <2>2, <3>1, <4>1, <5>1, RowsAssumption
        <5>3. vec'[u][Model] = stored /\ stored.hash = doc[u]
          BY <2>4, <2>5, <3>2, <4>1
        <5> QED BY <2>4, <5>1, <5>2, <5>3 DEF VersionCurrent, Ready
      <4>2. CASE u # v
        BY <1>1, <1>5, <3>1, <3>2, <4>2 DEF VersionCurrent, Ready
      <4> QED BY <4>1, <4>2
    <3> QED BY <3>3
  <2>6. CASE job' = [job EXCEPT ![v][Model] = row("pending")] /\ vec' = vec
    BY <1>6, <1>7, <2>2, <2>6
  <2> QED BY <1>6, <1>8, <2>1, <2>5, <2>6
<1>10. CASE failJobs(w)
  <2> DEFINE attempts == claim.attempts + 1
             row == Failed(job[v][Model], attempts)
  <2>1. vec' = vec /\ (job' = [job EXCEPT ![v][Model] = row] \/ job' = job)
    BY <1>2, <1>10 DEF failJobs
  <2>2. attempts \in Nat
    BY <1>2
  <2> HIDE DEF attempts
  <2>3. row \in JobRow /\ row.hash = job[v][Model].hash /\ row.state # "done"
    BY <1>4, <2>2, RowFacts DEF Failed, JobRow
  <2> HIDE DEF row
  <2> QED BY <1>6, <1>7, <1>8, <2>1, <2>3
<1> QED BY <1>9, <1>10 DEF Work

\* The other steps change no hash, and make nothing done.
LEMMA RowsCurrent ==
  ASSUME OneModel, Inv, Current, UNCHANGED <<doc, vec, active, writing, worker>>,
         \A v \in Versions :
           \/ job'[v] = job[v]
           \/ /\ job[v][Model] # None /\ job'[v][Model] # None /\ job'[v][0] = job[v][0]
              /\ job'[v][Model].hash = job[v][Model].hash
              /\ job'[v][Model].state = "done" => job[v][Model].state = "done"
  PROVE  Current'
<1>1. ASSUME NEW v \in Versions
      PROVE  VersionCurrent(v)'
  BY DEF Current, VersionCurrent, Ready
<1>2. active = 0 => \A v \in Versions : job'[v][Model] = None
  BY DEF Current
<1> QED BY <1>1, <1>2 DEF Current, WorkerCurrent, At

LEMMA LeaseCurrent ==
  ASSUME OneModel, Inv, Current, NEW v \in Versions, NEW g \in Generations,
         LeaseRunsOut(v, g) \/ LeaseOutlasted(v, g)
  PROVE  Current'
<1> DEFINE row == [job[v][g] EXCEPT !.held = FALSE]
<1>1. Tables /\ g = Model /\ g # 0
  BY ModelFacts DEF Inv
<1>2. /\ job' = [job EXCEPT ![v][g] = row] /\ job[v][g] # None
      /\ UNCHANGED <<doc, vec, active, writing, worker>>
  BY <1>1 DEF LeaseRunsOut, LeaseOutlasted, Held, Tables
<1>3. job[v][g] \in JobRow
  BY <1>1, <1>2 DEF Tables
<1>4. row \in JobRow /\ row.hash = job[v][g].hash /\ row.state = job[v][g].state
  BY <1>3 DEF JobRow
<1> HIDE DEF row
<1>5. /\ job'[v][g] = row /\ job'[v][0] = job[v][0]
      /\ \A u \in Versions : u # v => job'[u] = job[u]
  BY <1>1, <1>2 DEF Tables
<1>6. row # None
  BY <1>4, RowsAssumption
<1> QED BY <1>1, <1>2, <1>4, <1>5, <1>6, RowsCurrent

LEMMA CommandCurrent ==
  ASSUME OneModel, Inv, Current, NEW g \in Generations, revive(g) \/ Reindex(g)
  PROVE  Current'
<1>1. Tables /\ g = Model /\ g # 0
  BY ModelFacts DEF Inv
<1>2. UNCHANGED <<doc, vec, active, writing, worker>>
  BY DEF revive, Reindex
<1>3. ASSUME NEW v \in Versions
      PROVE  \/ job'[v] = job[v]
             \/ /\ job[v][g] # None
                /\ job'[v] = [job[v] EXCEPT ![g] = Restarted(job[v][g])]
  BY <1>1 DEF revive, Reindex, Tables
<1>4. ASSUME NEW v \in Versions, job[v][g] # None
      PROVE  /\ Restarted(job[v][g]) # None /\ Restarted(job[v][g]).hash = job[v][g].hash
             /\ Restarted(job[v][g]).state = "pending"
  <2>1. job[v][g] \in JobRow
    BY <1>1, <1>4 DEF Tables
  <2> QED BY <2>1, RowFacts, RowsAssumption DEF Restarted, JobRow
<1>5. ASSUME NEW v \in Versions, job'[v] # job[v]
      PROVE  /\ job[v][g] # None /\ job'[v][g] # None /\ job'[v][0] = job[v][0]
             /\ job'[v][g].hash = job[v][g].hash
             /\ job'[v][g].state = "done" => job[v][g].state = "done"
  <2>1. job[v][g] # None /\ job'[v] = [job[v] EXCEPT ![g] = Restarted(job[v][g])]
    BY <1>3, <1>5
  <2>2. job'[v][g] = Restarted(job[v][g]) /\ job'[v][0] = job[v][0]
    BY <1>1, <2>1 DEF Tables
  <2> QED BY <1>4, <2>1, <2>2
<1> QED BY <1>1, <1>2, <1>5, RowsCurrent

LEMMA CrashCurrent ==
  ASSUME OneModel, Inv, Current, NEW w \in Workers, Crash(w)
  PROVE  Current'
<1>1. /\ worker' = [worker EXCEPT ![w] = Off] /\ ~At(w, "off")
      /\ UNCHANGED <<doc, job, vec, active, writing>>
  BY DEF Crash
<1>2. \A v \in Versions : VersionCurrent(v)'
  BY <1>1 DEF Current, VersionCurrent, Ready
<1> QED BY <1>1, <1>2, StepCurrent DEF Off

LEMMA CurrentAlways ==
  ASSUME OneModel
  PROVE  Spec => []Current
<1>1. Init => Current
  BY ModelFacts DEF Init, Current, VersionCurrent, WorkerCurrent, At, Off
<1>2. Inv /\ Current /\ [Next]_vars => Current'
  <2> SUFFICES ASSUME Inv, Current, [Next]_vars PROVE Current'
    OBVIOUS
  <2>1. CASE Next
    BY <2>1, CatalogCurrent, BootCurrent, PrepareCurrent, ClaimCurrent, WorkCurrent, LeaseCurrent,
       CommandCurrent, CrashCurrent DEF Next, Boot
  <2>2. CASE UNCHANGED vars
    BY <2>2 DEF vars, Current, VersionCurrent, WorkerCurrent, Ready, At
  <2> QED BY <2>1, <2>2
<1> QED BY <1>1, <1>2, InvAlways, PTL DEF Spec

\* While one model is served and boots overlap no catalog write, every stored vector is of the
\* text its hash names, although texts are embedded without a lock and leases run out.
THEOREM VectorsTrue ==
  ASSUME OneModel
  PROVE  Spec => []VectorTrue
<1>1. Current => VectorTrue
  BY ModelFacts DEF Current, VersionCurrent, VectorTrue
<1> QED BY <1>1, CurrentAlways, PTL

\* Then too, a job that is done for the current text has left a ready vector of it.
THEOREM DoneJobsIndexed ==
  ASSUME OneModel
  PROVE  Spec => []DoneIsIndexed
<1>1. Inv /\ Current => DoneIsIndexed
  BY ModelFacts DEF Inv, Tables, Current, VersionCurrent, DoneIsIndexed
<1> QED BY <1>1, CurrentAlways, InvAlways, PTL
=============================================================================

---------------------------- MODULE EmbeddingJobs ----------------------------
(***************************************************************************)
(* The queue of embedding jobs (facilitator/src/db/search.ts,              *)
(* search/worker.ts, and indexVersion of db/catalog.ts).  The catalog      *)
(* writes documents and, with them, jobs; the workers of the replicas lease *)
(* jobs under a fencing token, embed a document without holding a lock, and *)
(* store the vector if the document is still the one they embedded.        *)
(***************************************************************************)
EXTENDS Integers, FiniteSets

CONSTANTS
  Versions,      \* active catalog versions, each with one document
  Contents,      \* what a document may say; its source hash stands for it
  Generations,   \* embedding models: ids of search_model_generations
  Workers,
  MaxAttempts,
  MaxChanges,    \* bound of the model: catalog writes and operator commands
  MaxFaults,     \* bound of the model: faults, and leases that are outlasted
  Hazards,       \* a subset of {"overlap"}
  None

\* "overlap": a catalog transaction is open while a replica activates its generation,
\* or commits between what enqueueMissing reads and what it writes.
ASSUME JobsAssumption ==
  /\ Generations \subseteq Nat \ {0} /\ MaxAttempts \in Nat \ {0}
  /\ MaxChanges \in Nat /\ MaxFaults \in Nat /\ Hazards \subseteq {"overlap"}
  /\ None \notin Contents
  /\ IsFiniteSet(Workers)

VARIABLES
  doc,       \* catalog_search_documents: the document of a version
  job,       \* catalog_index_jobs of a version and generation; 0 is unassigned
  vec,       \* the vector of a version in the table of a generation
  active,    \* the active generation
  writing,   \* a catalog transaction that has not committed
  worker,
  changes, faults

vars == <<doc, job, vec, active, writing, worker, changes, faults>>

JobRow ==
  [hash : Contents, state : {"pending", "leased", "done", "dead"}, attempts : Nat,
   token : 0 .. Cardinality(Workers) + 1, held : BOOLEAN]

Vector == [hash : Contents, text : Contents, status : {"ready", "stale"}]

Transaction == [v : Versions, hash : Contents, gen : Generations \cup {0}]

Claim ==
  [v : Versions, hash : Contents, text : Contents, attempts : Nat,
   token : 0 .. Cardinality(Workers) + 1]

ASSUME RowsAssumption == None \notin JobRow \cup Vector \cup Transaction \cup Claim

Off == [pc |-> "off", gen |-> 0, found |-> [v \in {} |-> None], claim |-> None]

Init ==
  /\ doc = [v \in Versions |-> None]
  /\ job = [v \in Versions |-> [g \in Generations \cup {0} |-> None]]
  /\ vec = [v \in Versions |-> [g \in Generations |-> None]]
  /\ active = 0
  /\ writing = None
  /\ worker = [w \in Workers |-> Off]
  /\ changes = 0
  /\ faults = 0

NewJob(hash) == [hash |-> hash, state |-> "pending", attempts |-> 0, token |-> 0, held |-> FALSE]

Ready(v, g) == vec[v][g] # None /\ vec[v][g].status = "ready" /\ vec[v][g].hash = doc[v]

At(w, pc) == worker[w].pc = pc
Goto(w, pc) == worker' = [worker EXCEPT ![w].pc = pc]

-----------------------------------------------------------------------------
(* The catalog. *)

\* Mutant: the job is pending again, for the old text.
Reopened_KeepsHash(old, hash) ==
  [old EXCEPT !.state = IF old.hash = hash THEN @ ELSE "pending"]

\* A job is pending again if the text is another one; its lease is not revoked.
Reopened(old, hash) ==
  [old EXCEPT !.hash = hash, !.state = IF old.hash = hash THEN @ ELSE "pending"]

indexVersion(v, hash, g) ==
  /\ doc' = [doc EXCEPT ![v] = hash]
  /\ job' = [job EXCEPT ![v][g] = IF @ = None THEN NewJob(hash) ELSE Reopened(@, hash)]

\* catalog_next_version lets one writer in at a time, for the whole transaction.
BeginObserve(v, hash) ==
  /\ writing = None /\ changes < MaxChanges
  /\ changes' = changes + 1
  /\ writing' = [v |-> v, hash |-> hash, gen |-> active]
  /\ UNCHANGED <<doc, job, vec, active, worker, faults>>

CommitObserve ==
  /\ writing # None
  /\ "overlap" \in Hazards \/ \A w \in Workers : ~At(w, "insert")
  /\ indexVersion(writing.v, writing.hash, writing.gen)
  /\ writing' = None
  /\ UNCHANGED <<vec, active, worker, changes, faults>>

-----------------------------------------------------------------------------
(* A worker boots: EmbeddingWorker.prepare. *)

activateGeneration(w, g) ==
  /\ At(w, "off")
  /\ "overlap" \in Hazards \/ writing = None
  /\ active' = g
  /\ worker' = [worker EXCEPT ![w] = [Off EXCEPT !.pc = "stale", !.gen = g]]
  /\ UNCHANGED <<doc, job, vec, writing, changes, faults>>

\* A vector of another text than the document's is no longer served.
Aged(row, hash) ==
  IF row # None /\ row.hash # hash THEN [row EXCEPT !.status = "stale"] ELSE row

propagateStaleness(w) ==
  /\ At(w, "stale")
  /\ LET g == worker[w].gen
     IN vec' = [v \in Versions |-> [vec[v] EXCEPT ![g] = Aged(@, doc[v])]]
  /\ Goto(w, "adopt")
  /\ UNCHANGED <<doc, job, active, writing, changes, faults>>

\* The first statement of enqueueMissing: jobs from before there was a generation.
Adopt(w) ==
  /\ At(w, "adopt")
  /\ LET g == worker[w].gen
     IN job' = [v \in Versions |->
          IF job[v][0] # None /\ job[v][g] = None
          THEN [job[v] EXCEPT ![0] = None, ![g] = [job[v][0] EXCEPT !.state = "pending"]]
          ELSE job[v]]
  /\ Goto(w, "discard")
  /\ UNCHANGED <<doc, vec, active, writing, changes, faults>>

\* The second one.
Discard(w) ==
  /\ At(w, "discard")
  /\ job' = [v \in Versions |-> [job[v] EXCEPT ![0] = None]]
  /\ Goto(w, "enqueue")
  /\ UNCHANGED <<doc, vec, active, writing, changes, faults>>

\* The third one: the documents without a current vector, and what becomes of
\* their jobs.
Missing(g) == [v \in {u \in Versions : doc[u] # None /\ ~Ready(u, g)} |-> doc[v]]

Enqueued(old, hash) ==
  IF old = None THEN NewJob(hash)
  ELSE [old EXCEPT !.hash = hash,
          !.state = IF @ = "dead" \/ (@ = "done" /\ old.hash = hash) THEN @ ELSE "pending"]

Insert(g, found) ==
  job' = [v \in Versions |-> IF v \in DOMAIN found
                             THEN [job[v] EXCEPT ![g] = Enqueued(@, found[v])]
                             ELSE job[v]]

\* The statement reads the documents of its snapshot and updates the jobs of later.
Snapshot(w) ==
  /\ At(w, "enqueue")
  /\ worker' = [worker EXCEPT ![w].pc = "insert", ![w].found = Missing(worker[w].gen)]
  /\ UNCHANGED <<doc, job, vec, active, writing, changes, faults>>

InsertFound(w) ==
  /\ At(w, "insert")
  /\ Insert(worker[w].gen, worker[w].found)
  /\ worker' = [worker EXCEPT ![w].pc = "run", ![w].found = Off.found]
  /\ UNCHANGED <<doc, vec, active, writing, changes, faults>>

-----------------------------------------------------------------------------
(* A worker at work: runOnce and processBatch, for batches of one. *)

Claimable(row) == row # None /\ (row.state = "pending" \/ (row.state = "leased" /\ ~row.held))

\* Fencing tokens only ever grow; what matters is that a new one is nobody's.
Unheld(v, g) ==
  {n \in 0 .. Cardinality(Workers) + 1 :
     /\ n # job[v][g].token
     /\ \A w \in Workers : worker[w].claim # None /\ worker[w].claim.v = v
                             /\ worker[w].gen = g => worker[w].claim.token # n}

NextToken(v, g) == CHOOSE n \in Unheld(v, g) : TRUE

claimJobs(w, v) ==
  LET g == worker[w].gen
      row == job[v][g]
  IN /\ At(w, "run") /\ Claimable(row)
     /\ job' = [job EXCEPT ![v][g] =
          [row EXCEPT !.state = "leased", !.held = TRUE, !.token = NextToken(v, g)]]
     /\ worker' = [worker EXCEPT ![w].pc = "embed", ![w].claim =
          [v |-> v, hash |-> row.hash, text |-> doc[v], attempts |-> row.attempts,
           token |-> NextToken(v, g)]]
     /\ UNCHANGED <<doc, vec, active, writing, changes, faults>>

\* Mutant: the batch is not forgotten.
Finish_KeepsClaim(w) == Goto(w, "run")

Finish(w) == worker' = [worker EXCEPT ![w].pc = "run", ![w].claim = None]

assertFence(w) ==
  LET claim == worker[w].claim IN job[claim.v][worker[w].gen].token = claim.token

\* Mutant: the document is not looked at again.
StillCurrent_Any(claim) == TRUE

StillCurrent(claim) == doc[claim.v] = claim.hash

Ended(row, state) == [row EXCEPT !.state = state, !.held = FALSE]

storeEmbeddings(w) ==
  LET g == worker[w].gen
      claim == worker[w].claim
      v == claim.v
  IN /\ At(w, "embed")
     /\ Finish(w)
     /\ CASE ~assertFence(w) -> UNCHANGED <<job, vec>>
          [] assertFence(w) /\ ~StillCurrent(claim) ->
               /\ job' = [job EXCEPT ![v][g] = Ended(@, "pending")]
               /\ UNCHANGED vec
          [] assertFence(w) /\ StillCurrent(claim) ->
               /\ job' = [job EXCEPT ![v][g] = Ended(@, "done")]
               /\ vec' = [vec EXCEPT ![v][g] =
                    [hash |-> claim.hash, text |-> claim.text, status |-> "ready"]]
     /\ UNCHANGED <<doc, active, writing, changes, faults>>

Exhausted(attempts) == attempts >= MaxAttempts

Failed(row, attempts) ==
  [row EXCEPT !.attempts = attempts, !.held = FALSE,
              !.state = IF Exhausted(attempts) THEN "dead" ELSE "pending"]

\* Embedding or storing throws.
failJobs(w) ==
  LET g == worker[w].gen
      claim == worker[w].claim
      attempts == claim.attempts + 1
  IN /\ At(w, "embed")
     /\ Finish(w)
     /\ job' = IF assertFence(w) THEN [job EXCEPT ![claim.v][g] = Failed(@, attempts)] ELSE job
     /\ UNCHANGED <<doc, vec, active, writing, changes, faults>>

Held(v, g) == job[v][g] # None /\ job[v][g].state = "leased" /\ job[v][g].held

Embedding(v, g) ==
  \E w \in Workers :
    At(w, "embed") /\ worker[w].gen = g /\ worker[w].claim.v = v
      /\ worker[w].claim.token = job[v][g].token

\* The lease of a worker that has crashed.
LeaseRunsOut(v, g) ==
  /\ Held(v, g) /\ ~Embedding(v, g)
  /\ job' = [job EXCEPT ![v][g].held = FALSE]
  /\ UNCHANGED <<doc, vec, active, writing, worker, changes, faults>>

\* The lease of a worker that is still embedding: nothing renews it.
LeaseOutlasted(v, g) ==
  /\ Held(v, g) /\ Embedding(v, g) /\ faults < MaxFaults
  /\ faults' = faults + 1
  /\ job' = [job EXCEPT ![v][g].held = FALSE]
  /\ UNCHANGED <<doc, vec, active, writing, worker, changes>>

Crash(w) ==
  /\ faults < MaxFaults /\ ~At(w, "off")
  /\ faults' = faults + 1
  /\ worker' = [worker EXCEPT ![w] = Off]
  /\ UNCHANGED <<doc, job, vec, active, writing, changes>>

-----------------------------------------------------------------------------
(* An operator's commands: cli/index-search.ts. *)

Restarted(row) == [row EXCEPT !.state = "pending", !.attempts = 0]

revive(g) ==
  /\ changes < MaxChanges
  /\ changes' = changes + 1
  /\ job' = [v \in Versions |-> IF job[v][g] # None /\ job[v][g].state = "dead"
                               THEN [job[v] EXCEPT ![g] = Restarted(@)] ELSE job[v]]
  /\ UNCHANGED <<doc, vec, active, writing, worker, faults>>

Reindex(g) ==
  /\ changes < MaxChanges
  /\ changes' = changes + 1
  /\ job' = [v \in Versions |-> IF job[v][g] # None
                               THEN [job[v] EXCEPT ![g] = Restarted(@)] ELSE job[v]]
  /\ UNCHANGED <<doc, vec, active, writing, worker, faults>>

-----------------------------------------------------------------------------
Boot(w) == \E g \in Generations : activateGeneration(w, g)

Prepare(w) ==
  propagateStaleness(w) \/ Adopt(w) \/ Discard(w) \/ Snapshot(w) \/ InsertFound(w)

Work(w) == storeEmbeddings(w) \/ failJobs(w)

Next ==
  \/ \E v \in Versions, hash \in Contents : BeginObserve(v, hash)
  \/ CommitObserve
  \/ \E w \in Workers : Boot(w) \/ Prepare(w) \/ Work(w) \/ Crash(w)
  \/ \E w \in Workers, v \in Versions : claimJobs(w, v)
  \/ \E v \in Versions, g \in Generations : LeaseRunsOut(v, g) \/ LeaseOutlasted(v, g)
  \/ \E g \in Generations : revive(g) \/ Reindex(g)

Spec == Init /\ [][Next]_vars

\* Transactions end, replicas are started again, their timers fire, jobs are claimed
\* in the order of next_run_at, embedding ends or fails, and leases run out.  Embedding
\* does not outlast its lease for ever: two workers would take one job in turns.
Fairness ==
  /\ WF_vars(CommitObserve)
  /\ \A w \in Workers : WF_vars(Boot(w)) /\ WF_vars(Prepare(w)) /\ WF_vars(Work(w))
  /\ \A v \in Versions : SF_vars(\E w \in Workers : worker[w].gen = active /\ claimJobs(w, v))
  /\ \A v \in Versions, g \in Generations : WF_vars(LeaseRunsOut(v, g))

FairSpec == Spec /\ Fairness

-----------------------------------------------------------------------------
\* Every variable holds values of its type; only a running worker has a claim.
TypeOK ==
  /\ doc \in [Versions -> Contents \cup {None}]
  /\ job \in [Versions -> [Generations \cup {0} -> JobRow \cup {None}]]
  /\ vec \in [Versions -> [Generations -> Vector \cup {None}]]
  /\ active \in Generations \cup {0}
  /\ writing \in Transaction \cup {None}
  /\ worker \in [Workers ->
       [pc : {"off", "stale", "adopt", "discard", "enqueue", "insert", "run", "embed"},
        gen : Generations \cup {0}, found : UNION {[S -> Contents] : S \in SUBSET Versions},
        claim : Claim \cup {None}]]
  /\ \A w \in Workers : At(w, "embed") <=> worker[w].claim # None
  /\ changes \in 0 .. MaxChanges /\ faults \in 0 .. MaxFaults

\* A ready vector is of the text its hash names, although it was computed without
\* a lock on the document and perhaps by a worker that lost its lease.
VectorTrue ==
  \A v \in Versions, g \in Generations :
    vec[v][g] # None => vec[v][g].text = vec[v][g].hash

\* A job of the active generation that is done for the current text has left a ready
\* vector of it: no interleaving of catalog, workers and boots loses the update.
DoneIsIndexed ==
  \A v \in Versions :
    active # 0 /\ job[v][active] # None /\ job[v][active].state = "done"
      /\ job[v][active].hash = doc[v] => Ready(v, active)

\* search.ts:300, "leave the job pending so the newer text is embedded instead":
\* every document gets a vector of its current text in the active generation, or its
\* job is dead after repeated failures.
NewerTextEmbedded ==
  \A v \in Versions :
    doc[v] # None ~>
      (active # 0 /\ (Ready(v, active) \/ (job[v][active] # None /\ job[v][active].state = "dead")))
=============================================================================

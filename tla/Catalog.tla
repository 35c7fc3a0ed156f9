------------------------------ MODULE Catalog ------------------------------
(***************************************************************************)
(* The catalog of paid resources (facilitator/src/db/catalog.ts) with its  *)
(* append-only versions and payment options, the writers (bazaar/          *)
(* cataloger.ts, the staleness timer, the operator), and a client that     *)
(* walks through the pages of a listing by cursor (http/discovery.ts).     *)
(*                                                                         *)
(* Every write transaction holds the row of the version counter until it   *)
(* commits (002_catalog.sql:23), so writers are serial and each is one     *)
(* action; the statements of a reader are not in a transaction.            *)
(***************************************************************************)
EXTENDS Integers, FiniteSets, Sequences

CONSTANTS
  Keys,          \* resource keys
  Declarations,  \* the metadata a seller can declare, each with its hash
  Slots,         \* (scheme, network, asset, payTo) of the owner's options
  Terms,         \* the rest of an option: amount, timeout, extra
  Sellers,       \* values of payTo
  PageSize,      \* rows of a page
  Decisions,     \* the statuses an operator gives to resources
  MaxShared,     \* bound: writes, if there are several resources or a client
  MaxAlone,      \* bound: writes to a single resource without a client
  None

ASSUME NoneAssumption == None \notin Nat \cup Sellers \cup Declarations
ASSUME PageAssumption == PageSize \in Nat \ {0}
ASSUME BoundsAssumption == MaxShared \in 0 .. MaxAlone /\ MaxAlone \in Nat
ASSUME FiniteAssumption == IsFiniteSet(Keys) /\ IsFiniteSet(Declarations)
ASSUME DecisionsAssumption ==
  Decisions \subseteq {"active", "disabled", "quarantined", "tombstoned"}

VARIABLES
  indexOn,    \* configuration: which stage of a payment activates a declaration
  watermark,  \* catalog_state.last_version
  resource,   \* catalog_resources
  version,    \* catalog_resource_versions, UNIQUE (resource_id, declaration_hash)
  option,     \* catalog_payment_options, UNIQUE (version_id, option_hash)
  document,   \* catalog_search_documents: the options a document speaks of
  declaredBy, \* history: the sellers whose payments carried a declaration
  walk        \* the client's cursor and what it has been shown

catalogVars == <<watermark, resource, version, option, document, declaredBy>>
vars == <<indexOn, catalogVars, walk>>

Options == Slots \X Terms
Versions == 0 .. MaxAlone

ResourceRow ==
  [owner : Sellers, active : Declarations \cup {None}, created : Versions, seen : BOOLEAN,
   status : {"active", "stale", "quarantined", "disabled", "tombstoned"}]

VersionRow ==
  [number : Nat, created : Versions, retired : Versions \cup {None},
   status : {"candidate", "active", "superseded", "quarantined"}]

OptionRow == [created : Versions, retired : Versions \cup {None}]

ASSUME RowsAssumption == None \notin ResourceRow \cup VersionRow \cup OptionRow

Init ==
  /\ indexOn \in {"verified", "settled"}
  /\ watermark = 0
  /\ resource = [k \in Keys |-> None]
  /\ version = [k \in Keys |-> [d \in Declarations |-> None]]
  /\ option = [k \in Keys |-> [d \in Declarations |-> [o \in Options |-> None]]]
  /\ document = [k \in Keys |-> [d \in Declarations |-> None]]
  /\ declaredBy = [k \in Keys |-> [d \in Declarations |-> {}]]
  /\ walk = None

-----------------------------------------------------------------------------
(* Reading: the snapshot scope that every listing shares. *)

\* A row is in the snapshot s: made by then, not retired by then.
In(row, s) ==
  row # None /\ row.created <= s /\ (row.retired = None \/ row.retired > s)

OptionsAt(k, d, s) == {o \in Options : In(option[k][d][o], s)}

\* The versions the lateral join chooses from.
Offered(k, s) ==
  {d \in Declarations : version[k][d] # None /\ version[k][d].created <= s
                        /\ version[k][d].status \in {"active", "superseded"}}

\* Mutant: the join takes the newest activation that is not retired, whatever its number.
Newest_Unretired(k, s) ==
  {d \in Offered(k, s) : version[k][d].retired = None}

\* ORDER BY cv.version DESC LIMIT 1
Newest(k, s) ==
  {d \in Offered(k, s) : \A e \in Offered(k, s) : version[k][e].number <= version[k][d].number}

\* The resources of a snapshot: conditions on the columns it pins.
Snapshot(s) ==
  {k \in Keys : /\ resource[k] # None /\ resource[k].created <= s
                /\ \E d \in Newest(k, s) : In(version[k][d], s) /\ OptionsAt(k, d, s) # {}}

\* Conditions on the lifecycle, which is read as it is now. What the join chooses from was
\* activated, hence verification = 'payment_observed'.
Visible(s) == {k \in Snapshot(s) : resource[k].status = "active" /\ resource[k].seen}

\* ORDER BY r.id DESC: ids are given out in the order of creation.
Page(s, offset) ==
  {k \in Visible(s) :
     Cardinality({j \in Visible(s) : resource[j].created > resource[k].created})
       \in offset .. (offset + PageSize - 1)}

-----------------------------------------------------------------------------
(* Writing. n is the version that the transaction took from the counter. *)

NextNumber(k) ==
  Cardinality({d \in Declarations : version[k][d] # None}) + 1

InsertVersion(k, d, status, n) ==
  [version[k] EXCEPT ![d] = [number |-> NextNumber(k), status |-> status,
                             created |-> n, retired |-> None]]

\* Mutant: the version that was active before stays so.
Activate_KeepsOthers(rows, d, n) ==
  [rows EXCEPT ![d] = [@ EXCEPT !.status = "active", !.retired = None]]

\* The others are superseded; the version itself is no longer retired.
Activate(rows, d, n) ==
  [e \in Declarations |->
     IF e = d THEN [rows[e] EXCEPT !.status = "active", !.retired = None]
     ELSE IF rows[e] # None /\ rows[e].status = "active"
          THEN [rows[e] EXCEPT !.status = "superseded", !.retired = n]
     ELSE rows[e]]

\* A live option is left as it is. Otherwise the live option of the slot is retired, and the
\* new one is inserted or, if it was there before, taken back.
UpsertOption(rows, o, n) ==
  IF rows[o] # None /\ rows[o].retired = None THEN rows
  ELSE [p \in Options |->
          IF p = o THEN IF rows[o] = None THEN [created |-> n, retired |-> None]
                        ELSE [rows[o] EXCEPT !.retired = None]
          ELSE IF p[1] = o[1] /\ rows[p] # None /\ rows[p].retired = None
               THEN [rows[p] EXCEPT !.retired = n]
          ELSE rows[p]]

\* Mutant: the document is compiled once, when its version is activated.
Indexed_Once(k, d, options) ==
  IF document[k][d] # None THEN document[k]
  ELSE [document[k] EXCEPT ![d] = {o \in Options : options[o] # None /\ options[o].retired = None}]

\* The document of a version is compiled from its live options.
Indexed(k, d, options) ==
  [document[k] EXCEPT ![d] = {o \in Options : options[o] # None /\ options[o].retired = None}]

\* The bounds on writes.
Alone == walk = None /\ \A j, k \in Keys : resource[j] # None /\ resource[k] # None => j = k
Room == watermark < IF Alone THEN MaxAlone ELSE MaxShared

\* Cataloger.observe: when a declaration becomes active.
Activates(stage) == indexOn = "verified" \/ stage = "settled"

\* Mutant: a transaction takes its version twice.
Commit_Twice(k, d, seller) ==
  /\ Room
  /\ watermark' = watermark + 2
  /\ declaredBy' = [declaredBy EXCEPT ![k][d] = @ \cup {seller}]
  /\ UNCHANGED indexOn

\* The catalog has a new version; who declared what is noted.
Commit(k, d, seller) ==
  /\ Room
  /\ watermark' = watermark + 1
  /\ declaredBy' = [declaredBy EXCEPT ![k][d] = @ \cup {seller}]
  /\ UNCHANGED indexOn

CreateResource(k, d, o, seller, stage) ==
  LET n == watermark + 1
      options == UpsertOption(option[k][d], o, n)
  IN /\ resource[k] = None
     /\ \A j \in Keys : resource[j] # None => watermark < MaxShared
     /\ Commit(k, d, seller)
     /\ resource' = [resource EXCEPT ![k] =
          [owner |-> seller, active |-> IF Activates(stage) THEN d ELSE None, created |-> n,
           seen |-> TRUE, status |-> "active"]]
     /\ version' = [version EXCEPT ![k] =
          InsertVersion(k, d, IF Activates(stage) THEN "active" ELSE "candidate", n)]
     /\ option' = [option EXCEPT ![k][d] = options]
     /\ document' = IF Activates(stage) THEN [document EXCEPT ![k] = Indexed(k, d, options)]
                    ELSE document

\* Another payTo: the declaration is put aside. One that is stored already violates the
\* uniqueness of its hash, and the transaction is rolled back.
Quarantine(k, d, seller) ==
  /\ resource[k] # None /\ resource[k].owner # seller
  /\ version[k][d] = None
  /\ Commit(k, d, seller)
  /\ version' = [version EXCEPT ![k] = InsertVersion(k, d, "quarantined", watermark + 1)]
  /\ UNCHANGED <<resource, option, document>>

\* The update of the resource that every observation of its owner starts with.
Sighted(row) ==
  [row EXCEPT !.seen = TRUE, !.status = IF @ = "stale" THEN "active" ELSE @]

\* The resource points to the declaration that is activated, if one is.
Pointed(row, d, activate) == [row EXCEPT !.active = IF activate THEN d ELSE @]

\* Mutant: whoever is paid owns the declaration.
Owned_Anybody(k, seller) == resource[k] # None

Owned(k, seller) == resource[k] # None /\ resource[k].owner = seller

\* A declaration that is stored already.
Refresh(k, d, o, seller, stage) ==
  LET n == watermark + 1
      options == UpsertOption(option[k][d], o, n)
      activate == Activates(stage) /\ version[k][d].status # "active"
  IN /\ Owned(k, seller) /\ version[k][d] # None
     /\ Commit(k, d, seller)
     /\ option' = [option EXCEPT ![k][d] = options]
     /\ resource' = [resource EXCEPT ![k] = Pointed(Sighted(@), d, activate)]
     /\ version' = IF activate THEN [version EXCEPT ![k] = Activate(@, d, n)] ELSE version
     /\ document' = IF Activates(stage) THEN [document EXCEPT ![k] = Indexed(k, d, options)]
                    ELSE document

\* A declaration that changed; duplicate_changed may refuse it.
Change(k, d, o, seller, stage) ==
  LET n == watermark + 1
      options == UpsertOption(option[k][d], o, n)
      rows == InsertVersion(k, d, IF Activates(stage) THEN "active" ELSE "candidate", n)
  IN /\ Owned(k, seller) /\ version[k][d] = None
     /\ Commit(k, d, seller)
     /\ resource' = [resource EXCEPT ![k] = Pointed(Sighted(@), d, Activates(stage))]
     /\ version' = [version EXCEPT ![k] = IF Activates(stage) THEN Activate(rows, d, n) ELSE rows]
     /\ option' = [option EXCEPT ![k][d] = options]
     /\ document' = IF Activates(stage) THEN [document EXCEPT ![k] = Indexed(k, d, options)]
                    ELSE document

RefuseChange(k, d, seller) ==
  /\ Owned(k, seller) /\ version[k][d] = None
  /\ Room
  /\ watermark' = watermark + 1
  /\ resource' = [resource EXCEPT ![k] = Sighted(@)]
  /\ UNCHANGED <<indexOn, version, option, document, declaredBy>>

\* stale_after_hours pass since the last observation.
Unseen(k) ==
  /\ resource[k] # None /\ resource[k].seen
  /\ resource' = [resource EXCEPT ![k].seen = FALSE]
  /\ UNCHANGED <<indexOn, watermark, version, option, document, declaredBy>>

\* The staleness timer, one row of its statement.
SweepStale(k) ==
  /\ Room
  /\ resource[k] # None /\ resource[k].status = "active" /\ ~resource[k].seen
  /\ resource' = [resource EXCEPT ![k].status = "stale"]
  /\ watermark' = watermark + 1
  /\ UNCHANGED <<indexOn, version, option, document, declaredBy>>

\* The operator.
SetResourceStatus(k, status) ==
  /\ Room
  /\ resource[k] # None
  /\ resource' = [resource EXCEPT ![k].status = status]
  /\ watermark' = watermark + 1
  /\ UNCHANGED <<indexOn, version, option, document, declaredBy>>

Observe(k) ==
  \E d \in Declarations, o \in Options, s \in Sellers, stage \in {"verified", "settled"} :
    \/ CreateResource(k, d, o, s, stage)
    \/ Quarantine(k, d, s)
    \/ Refresh(k, d, o, s, stage)
    \/ Change(k, d, o, s, stage)
    \/ RefuseChange(k, d, s)

\* A write while a client walks: did it bring something into the client's snapshot that was
\* not to be seen, or take something out of it otherwise than by its lifecycle?
Write ==
  /\ \E k \in Keys :
       \/ Observe(k) \/ Unseen(k) \/ SweepStale(k)
       \/ \E status \in Decisions : SetResourceStatus(k, status)
  /\ walk' = IF walk = None THEN None
             ELSE [walk EXCEPT !.disturbed =
                     @ \/ \E s \in {walk.snapshot} :
                            ~(Visible(s)' \subseteq Visible(s) /\ Snapshot(s) \subseteq Snapshot(s)')]

-----------------------------------------------------------------------------
(* A client that follows the cursor. *)

Walk ==
  [at : {"count", "rows", "end"}, snapshot : Versions, offset : Nat, shown : SUBSET Keys,
   again : BOOLEAN, total : Nat, hidden : BOOLEAN, partial : BOOLEAN, disturbed : BOOLEAN]

\* The first request pins the watermark; the cursor carries it on.
StartWalk ==
  /\ walk = None /\ watermark <= MaxShared
  /\ walk' = [at |-> "count", snapshot |-> watermark, offset |-> 0, shown |-> {},
              again |-> FALSE, total |-> 0, hidden |-> FALSE, partial |-> FALSE,
              disturbed |-> FALSE]
  /\ UNCHANGED <<indexOn, catalogVars>>

\* The first statement of list: how many, and how many the lifecycle hides.
CountRows ==
  /\ walk # None /\ walk.at = "count"
  /\ walk' = [walk EXCEPT !.at = "rows", !.total = Cardinality(Visible(walk.snapshot)),
                          !.hidden = Visible(walk.snapshot) # Snapshot(walk.snapshot)]
  /\ UNCHANGED <<indexOn, catalogVars>>

\* Mutant: the flag forgets what the lifecycle hides.
ReadRows_NothingHidden ==
  /\ walk # None /\ walk.at = "rows"
  /\ LET rows == Page(walk.snapshot, walk.offset)
         next == walk.offset + Cardinality(rows)
     IN walk' = [walk EXCEPT
          !.shown = @ \cup rows, !.again = @ \/ rows \cap walk.shown # {}, !.offset = next,
          !.partial = next < walk.total,
          !.at = IF next < walk.total THEN "count" ELSE "end"]
  /\ UNCHANGED <<indexOn, catalogVars>>

\* The second one: a page, the flag partialResults, and a cursor unless it is the last.
ReadRows ==
  /\ walk # None /\ walk.at = "rows"
  /\ LET rows == Page(walk.snapshot, walk.offset)
         next == walk.offset + Cardinality(rows)
     IN walk' = [walk EXCEPT
          !.shown = @ \cup rows, !.again = @ \/ rows \cap walk.shown # {}, !.offset = next,
          !.partial = next < walk.total \/ walk.hidden,
          !.at = IF next < walk.total THEN "count" ELSE "end"]
  /\ UNCHANGED <<indexOn, catalogVars>>

Next == Write \/ StartWalk \/ CountRows \/ ReadRows

Spec == Init /\ [][Next]_vars

-----------------------------------------------------------------------------
(* Properties. *)

\* The tables and the cursor hold values of their types.
CatalogTypeOK ==
  /\ indexOn \in {"verified", "settled"} /\ watermark \in Versions
  /\ resource \in [Keys -> ResourceRow \cup {None}]
  /\ version \in [Keys -> [Declarations -> VersionRow \cup {None}]]
  /\ option \in [Keys -> [Declarations -> [Options -> OptionRow \cup {None}]]]
  /\ document \in [Keys -> [Declarations -> (SUBSET Options) \cup {None}]]
  /\ declaredBy \in [Keys -> [Declarations -> SUBSET Sellers]]
  /\ walk \in Walk \cup {None}

\* A resource has at most one active version, the one its row points to; a version is retired
\* if and only if it was superseded; and now no slot of a version has two live options.
OneOfEach ==
  \A k \in Keys :
    /\ {d \in Declarations : version[k][d] # None /\ version[k][d].status = "active"}
         = IF resource[k] = None THEN {} ELSE {resource[k].active} \ {None}
    /\ \A d \in Declarations : version[k][d] # None =>
         (version[k][d].retired # None <=> version[k][d].status = "superseded")
    /\ \A d \in Declarations : \A o, p \in OptionsAt(k, d, watermark) : o[1] = p[1] => o = p

\* docs/CATALOG-TRUST.md:108, "cannot modify the active listing": what any snapshot shows of a
\* resource is a declaration that came with a payment to its owner.
OwnersOnly ==
  \A k \in Keys, s \in 0 .. watermark :
    k \in Snapshot(s) => \A d \in Newest(k, s) : resource[k].owner \in declaredBy[k][d]

\* A snapshot loses no resource and no terms, whatever is written, but for one case: an owner
\* takes up the very declaration of a rival that had been put aside.
SnapshotsKeep ==
  [][\A s \in 0 .. watermark, k \in Keys :
       /\ k \in Snapshot(s) =>
            \/ k \in Snapshot(s)'
            \/ \E d \in Declarations : version[k][d] # None /\ version[k][d].status = "quarantined"
                                       /\ version'[k][d].status = "active"
       /\ \A d \in Declarations : OptionsAt(k, d, s) \subseteq OptionsAt(k, d, s)']_vars

\* The text that is searched speaks of the options that are listed now, if declarations are
\* indexed when they are verified.
DocumentCurrent ==
  indexOn = "verified" =>
    \A k \in Keys : resource[k] # None /\ resource[k].active # None =>
      document[k][resource[k].active] = OptionsAt(k, resource[k].active, watermark)

\* docs/CATALOG-TRUST.md:180, partialResults "is false only when the requested page is the
\* complete, unreduced result": a client that was told so at the end was shown the whole
\* snapshot, and nothing twice, unless a write disturbed the snapshot meanwhile.
WalkComplete ==
  walk # None /\ walk.at = "end" /\ ~walk.disturbed =>
    ~walk.again /\ (~walk.partial => Visible(walk.snapshot) \subseteq walk.shown)

\* docs/CATALOG-TRUST.md:166, "concurrent cataloging cannot shift, duplicate or skip a row":
\* no client is shown a resource twice.
NothingTwice ==
  walk # None => ~walk.again

\* tests/integration/catalog.test.ts:264, "A fresh observation is a liveness signal and
\* restores the listing": what is active, observed and has terms is listed.
ActiveIsListed ==
  \A k \in Keys :
    resource[k] # None /\ resource[k].active # None /\ resource[k].status = "active"
      /\ resource[k].seen => k \in Visible(watermark)
=============================================================================

---------------------------- MODULE CatalogProofs ----------------------------
(***************************************************************************)
(* Theorems about Catalog, for every set of resources, declarations,       *)
(* payment options and sellers, and any number of writes.                  *)
(***************************************************************************)
EXTENDS Catalog, FiniteSetTheorems, TLAPS

VersionRows == [Declarations -> VersionRow \cup {None}]
OptionRows == [Options -> OptionRow \cup {None}]

Live(row) == row # None /\ row.retired = None

\* The rows of one resource.
TypedAt(k) ==
  /\ resource[k] \in ResourceRow \cup {None}
  /\ version[k] \in VersionRows
  /\ option[k] \in [Declarations -> OptionRows]
  /\ document[k] \in [Declarations -> (SUBSET Options) \cup {None}]
  /\ declaredBy[k] \in [Declarations -> SUBSET Sellers]

\* What is active is what the resource says, and what was superseded is retired.
OneActive(k) ==
  \A d \in Declarations : version[k][d] # None =>
    /\ resource[k] # None
    /\ version[k][d].status = "active" <=> resource[k].active = d
    /\ version[k][d].retired # None <=> version[k][d].status = "superseded"

\* What is active has a row.
ActiveStored(k) ==
  resource[k] # None => (resource[k].active # None => version[k][resource[k].active] # None)

\* Of a slot one option is live.
OneLive(rows) ==
  \A o, p \in Options : Live(rows[o]) /\ Live(rows[p]) /\ o[1] = p[1] => o = p

\* Options were made, and retired, by now.
Past(rows, now) ==
  \A o \in Options : rows[o] # None =>
    rows[o].created <= now /\ (rows[o].retired # None => rows[o].retired <= now)

\* What may be listed was declared with a payment to the owner.
Declared(k) ==
  \A d \in Declarations : version[k][d] # None /\ version[k][d].status # "quarantined"
    => resource[k].owner \in declaredBy[k][d]

\* The document of what is active is compiled from the live options.
Compiled(k) ==
  indexOn = "verified" /\ resource[k] # None =>
    (resource[k].active # None =>
       document[k][resource[k].active] = {o \in Options : Live(option[k][resource[k].active][o])})

SoundAt(k) ==
  /\ OneActive(k) /\ ActiveStored(k) /\ Declared(k) /\ Compiled(k)
  /\ \A d \in Declarations : OneLive(option[k][d]) /\ Past(option[k][d], watermark)

Inv == CatalogTypeOK /\ \A k \in Keys : SoundAt(k)

-----------------------------------------------------------------------------
(* What the helpers make of rows. *)

LEMMA UpsertFacts ==
  ASSUME NEW rows \in OptionRows, NEW o \in Options, NEW now \in Nat, now + 1 \in Versions,
         OneLive(rows), Past(rows, now)
  PROVE  /\ UpsertOption(rows, o, now + 1) \in OptionRows
         /\ OneLive(UpsertOption(rows, o, now + 1))
         /\ Past(UpsertOption(rows, o, now + 1), now + 1)
<1>1. CASE Live(rows[o])
  <2>1. UpsertOption(rows, o, now + 1) = rows
    BY <1>1 DEF UpsertOption, Live
  <2>2. Past(rows, now + 1)
    BY DEF Past, OptionRows, OptionRow, Versions
  <2> QED BY <2>1, <2>2
<1>2. CASE ~Live(rows[o])
  <2> DEFINE New(p) == IF p = o THEN IF rows[o] = None THEN [created |-> now + 1, retired |-> None]
                                     ELSE [rows[o] EXCEPT !.retired = None]
                       ELSE IF p[1] = o[1] /\ rows[p] # None /\ rows[p].retired = None
                            THEN [rows[p] EXCEPT !.retired = now + 1]
                       ELSE rows[p]
             new == UpsertOption(rows, o, now + 1)
  <2>1. new = [p \in Options |-> New(p)]
    BY <1>2 DEF UpsertOption, Live
  <2>2. \A p \in Options : New(p) \in OptionRow \cup {None}
    BY NoneAssumption, RowsAssumption DEF OptionRows, OptionRow, Versions
  <2>3. \A p \in Options \ {o} : Live(New(p)) => Live(rows[p]) /\ p[1] # o[1]
    BY NoneAssumption, RowsAssumption DEF OptionRows, OptionRow, Versions, Live
  <2>4. \A p \in Options : New(p) # None =>
          New(p).created <= now + 1 /\ (New(p).retired # None => New(p).retired <= now + 1)
    BY NoneAssumption, RowsAssumption DEF OptionRows, OptionRow, Versions, Past
  <2> HIDE DEF New, new
  <2>5. new \in OptionRows
    BY <2>1, <2>2 DEF OptionRows
  <2>6. \A p \in Options : new[p] = New(p)
    BY <2>1
  <2>7. OneLive(new)
    BY <2>3, <2>6 DEF OneLive
  <2>8. Past(new, now + 1)
    BY <2>4, <2>6 DEF Past
  <2> QED BY <2>5, <2>7, <2>8 DEF new
<1> QED BY <1>1, <1>2

LEMMA ActivateFacts ==
  ASSUME NEW rows \in VersionRows, NEW d \in Declarations, rows[d] # None,
         NEW n \in Versions
  PROVE  /\ Activate(rows, d, n) \in VersionRows
         /\ Activate(rows, d, n)[d] # None
         /\ Activate(rows, d, n)[d].status = "active" /\ Activate(rows, d, n)[d].retired = None
         /\ \A e \in Declarations \ {d} :
              \/ /\ rows[e] # None /\ rows[e].status = "active"
                 /\ Activate(rows, d, n)[e] # None
                 /\ Activate(rows, d, n)[e].status = "superseded"
                 /\ Activate(rows, d, n)[e].retired = n
              \/ ~(rows[e] # None /\ rows[e].status = "active") /\ Activate(rows, d, n)[e] = rows[e]
BY NoneAssumption, RowsAssumption DEF Activate, VersionRows, VersionRow

LEMMA InsertFacts ==
  ASSUME CatalogTypeOK, NEW k \in Keys, NEW d \in Declarations, NEW n \in Versions,
         NEW status \in {"candidate", "active", "quarantined"}
  PROVE  /\ InsertVersion(k, d, status, n) \in VersionRows
         /\ InsertVersion(k, d, status, n)[d] # None
         /\ InsertVersion(k, d, status, n)[d].status = status
         /\ InsertVersion(k, d, status, n)[d].retired = None
         /\ \A e \in Declarations \ {d} : InsertVersion(k, d, status, n)[e] = version[k][e]
<1>1. NextNumber(k) \in Nat
  <2>1. IsFiniteSet({e \in Declarations : version[k][e] # None})
    BY FiniteAssumption, FS_Subset
  <2> QED BY <2>1, FS_CardinalityType DEF NextNumber
<1>2. version[k] \in VersionRows
  BY DEF CatalogTypeOK, VersionRows
<1>3. [number |-> NextNumber(k), status |-> status, created |-> n, retired |-> None]
        \in VersionRow \ {None}
  BY <1>1, NoneAssumption, RowsAssumption DEF VersionRow
<1> QED BY <1>2, <1>3 DEF InsertVersion, VersionRows

-----------------------------------------------------------------------------
(* A write changes the rows of one resource. *)

Touches(k) ==
  /\ indexOn' = indexOn /\ watermark' \in Versions /\ watermark <= watermark'
  /\ resource' = [resource EXCEPT ![k] = resource'[k]]
  /\ version' = [version EXCEPT ![k] = version'[k]]
  /\ option' = [option EXCEPT ![k] = option'[k]]
  /\ document' = [document EXCEPT ![k] = document'[k]]
  /\ declaredBy' = [declaredBy EXCEPT ![k] = declaredBy'[k]]

LEMMA TypedRows ==
  ASSUME CatalogTypeOK, NEW k \in Keys
  PROVE  TypedAt(k)
BY DEF CatalogTypeOK, TypedAt, VersionRows, OptionRows

LEMMA TouchesStep ==
  ASSUME Inv, NEW k \in Keys, Touches(k), TypedAt(k)', SoundAt(k)', walk' \in Walk \cup {None}
  PROVE  Inv'
<1>1. CatalogTypeOK'
  <2>1. /\ indexOn' \in {"verified", "settled"}
        /\ resource' \in [Keys -> ResourceRow \cup {None}]
        /\ version' \in [Keys -> VersionRows]
        /\ option' \in [Keys -> [Declarations -> OptionRows]]
        /\ document' \in [Keys -> [Declarations -> (SUBSET Options) \cup {None}]]
        /\ declaredBy' \in [Keys -> [Declarations -> SUBSET Sellers]]
    BY DEF Inv, CatalogTypeOK, Touches, TypedAt, VersionRows, OptionRows
  <2> QED BY <2>1 DEF CatalogTypeOK, Touches, VersionRows, OptionRows
<1>2. ASSUME NEW j \in Keys
      PROVE  SoundAt(j)'
  <2>1. CASE j = k
    BY <2>1
  <2>2. CASE j # k
    <3>1. /\ resource'[j] = resource[j] /\ version'[j] = version[j] /\ option'[j] = option[j]
          /\ document'[j] = document[j] /\ declaredBy'[j] = declaredBy[j]
          /\ indexOn' = indexOn
      BY <2>2 DEF Touches, Inv, CatalogTypeOK
    <3>2. OneActive(j)' /\ ActiveStored(j)' /\ Declared(j)' /\ Compiled(j)'
      BY <3>1 DEF Inv, SoundAt, OneActive, ActiveStored, Declared, Compiled, Live
    <3>3. ASSUME NEW d \in Declarations
          PROVE  OneLive(option'[j][d]) /\ Past(option'[j][d], watermark')
      <4>1. OneLive(option[j][d]) /\ Past(option[j][d], watermark)
        BY DEF Inv, SoundAt
      <4>2. option[j][d] \in OptionRows /\ watermark \in Int /\ watermark' \in Int
        BY DEF Inv, CatalogTypeOK, OptionRows, Versions, Touches
      <4>3. Past(option[j][d], watermark')
        BY <4>1, <4>2, NoneAssumption, RowsAssumption
           DEF Past, OptionRows, OptionRow, Versions, Touches
      <4> QED BY <3>1, <4>1, <4>3
    <3> QED BY <3>2, <3>3 DEF SoundAt
  <2> QED BY <2>1, <2>2
<1> QED BY <1>1, <1>2 DEF Inv

\* A write takes the next version, and notes who declared what.
LEMMA CommitFacts ==
  ASSUME CatalogTypeOK, NEW k \in Keys, NEW d \in Declarations, NEW seller \in Sellers,
         Commit(k, d, seller)
  PROVE  /\ indexOn' = indexOn /\ watermark' = watermark + 1 /\ watermark' \in Versions
         /\ watermark \in Nat
         /\ declaredBy' = [declaredBy EXCEPT ![k] = declaredBy'[k]]
         /\ declaredBy'[k] \in [Declarations -> SUBSET Sellers]
         /\ seller \in declaredBy'[k][d]
         /\ \A e \in Declarations : declaredBy[k][e] \subseteq declaredBy'[k][e]
<1>1. watermark' \in Versions /\ watermark \in Nat
  BY BoundsAssumption DEF Commit, Room, Versions, CatalogTypeOK
<1>2. declaredBy' = [declaredBy EXCEPT ![k] =
                       [declaredBy[k] EXCEPT ![d] = declaredBy[k][d] \cup {seller}]]
  BY DEF Commit, CatalogTypeOK
<1>3. declaredBy[k] \in [Declarations -> SUBSET Sellers]
  BY DEF CatalogTypeOK
<1>4. declaredBy'[k] = [declaredBy[k] EXCEPT ![d] = declaredBy[k][d] \cup {seller}]
  BY <1>2 DEF CatalogTypeOK
<1> HIDE DEF Commit
<1>5. declaredBy' = [declaredBy EXCEPT ![k] = declaredBy'[k]]
  BY <1>2, <1>4
<1>6. /\ declaredBy'[k] \in [Declarations -> SUBSET Sellers]
      /\ seller \in declaredBy'[k][d]
      /\ \A e \in Declarations : declaredBy[k][e] \subseteq declaredBy'[k][e]
  BY <1>3, <1>4
<1> QED BY <1>1, <1>5, <1>6 DEF Commit

\* The options of one declaration are upserted.
LEMMA OptionsStep ==
  ASSUME Inv, NEW k \in Keys, NEW d \in Declarations, NEW o \in Options,
         watermark' = watermark + 1, watermark' \in Versions, watermark \in Nat,
         option' = [option EXCEPT ![k][d] = UpsertOption(option[k][d], o, watermark + 1)]
  PROVE  /\ option' = [option EXCEPT ![k] = option'[k]]
         /\ option'[k] \in [Declarations -> OptionRows]
         /\ option'[k][d] = UpsertOption(option[k][d], o, watermark + 1)
         /\ \A e \in Declarations : OneLive(option'[k][e]) /\ Past(option'[k][e], watermark')
<1> DEFINE new == UpsertOption(option[k][d], o, watermark + 1)
<1>1. option[k] \in [Declarations -> OptionRows]
  BY DEF Inv, CatalogTypeOK, OptionRows
<1>2. \A e \in Declarations : OneLive(option[k][e]) /\ Past(option[k][e], watermark)
  BY DEF Inv, SoundAt
<1>3. new \in OptionRows /\ OneLive(new) /\ Past(new, watermark + 1)
  BY <1>1, <1>2, UpsertFacts
<1>4. ASSUME NEW e \in Declarations
      PROVE  Past(option[k][e], watermark + 1)
  <2>1. option[k][e] \in OptionRows /\ Past(option[k][e], watermark)
    BY <1>1, <1>2
  <2> QED BY <2>1, NoneAssumption, RowsAssumption DEF Past, OptionRows, OptionRow, Versions
<1> HIDE DEF new
<1>5. option' = [option EXCEPT ![k] = [@ EXCEPT ![d] = new]]
  BY DEF new
<1>6. option'[k] = [option[k] EXCEPT ![d] = new]
  BY <1>5 DEF Inv, CatalogTypeOK
<1>7. option' = [option EXCEPT ![k] = option'[k]]
  BY <1>5, <1>6
<1>8. /\ option'[k] \in [Declarations -> OptionRows] /\ option'[k][d] = new
      /\ \A e \in Declarations \ {d} : option'[k][e] = option[k][e]
  BY <1>1, <1>3, <1>6
<1>9. ASSUME NEW e \in Declarations
      PROVE  OneLive(option'[k][e]) /\ Past(option'[k][e], watermark')
  BY <1>2, <1>3, <1>4, <1>8
<1> QED BY <1>7, <1>8, <1>9 DEF new

\* A document that is compiled again speaks of the live options.
LEMMA IndexedFacts ==
  ASSUME CatalogTypeOK, NEW k \in Keys, NEW d \in Declarations, NEW rows
  PROVE  /\ Indexed(k, d, rows) \in [Declarations -> (SUBSET Options) \cup {None}]
         /\ Indexed(k, d, rows)[d] = {o \in Options : Live(rows[o])}
BY DEF Indexed, Live, CatalogTypeOK

-----------------------------------------------------------------------------
(* The writes. *)

LEMMA CreateStep ==
  ASSUME Inv, NEW k \in Keys, NEW d \in Declarations, NEW o \in Options,
         NEW seller \in Sellers, NEW stage \in {"verified", "settled"},
         CreateResource(k, d, o, seller, stage)
  PROVE  Touches(k) /\ TypedAt(k)' /\ SoundAt(k)'
<1> DEFINE status == IF Activates(stage) THEN "active" ELSE "candidate"
           options == UpsertOption(option[k][d], o, watermark + 1)
           rows == InsertVersion(k, d, status, watermark + 1)
           row == [owner |-> seller, active |-> IF Activates(stage) THEN d ELSE None,
                   created |-> watermark + 1, seen |-> TRUE, status |-> "active"]
<1>1. CatalogTypeOK /\ TypedAt(k) /\ SoundAt(k)
  BY TypedRows DEF Inv
<1>2. Commit(k, d, seller)
  BY DEF CreateResource
<1>3. /\ option' = [option EXCEPT ![k][d] = options]
      /\ resource' = [resource EXCEPT ![k] = row]
      /\ version' = [version EXCEPT ![k] = rows]
      /\ document' = IF Activates(stage) THEN [document EXCEPT ![k] = Indexed(k, d, options)]
                     ELSE document
      /\ resource[k] = None
  BY DEF CreateResource
<1>4. /\ indexOn' = indexOn /\ watermark' = watermark + 1 /\ watermark' \in Versions
      /\ watermark \in Nat
      /\ declaredBy' = [declaredBy EXCEPT ![k] = declaredBy'[k]]
      /\ declaredBy'[k] \in [Declarations -> SUBSET Sellers]
      /\ seller \in declaredBy'[k][d]
  BY <1>1, <1>2, CommitFacts
<1>5. /\ option' = [option EXCEPT ![k] = option'[k]]
      /\ option'[k] \in [Declarations -> OptionRows]
      /\ option'[k][d] = options
      /\ \A e \in Declarations : OneLive(option'[k][e]) /\ Past(option'[k][e], watermark')
  BY <1>3, <1>4, OptionsStep
<1>6. /\ rows \in VersionRows /\ rows[d] # None
      /\ rows[d].status = status /\ rows[d].retired = None
      /\ \A e \in Declarations \ {d} : rows[e] = version[k][e]
  BY <1>1, <1>4, InsertFacts
<1>7. /\ Indexed(k, d, options) \in [Declarations -> (SUBSET Options) \cup {None}]
      /\ Indexed(k, d, options)[d] = {p \in Options : Live(options[p])}
  BY <1>1, IndexedFacts
<1>8. /\ row \in ResourceRow /\ row # None
      /\ row.owner = seller /\ row.active = IF Activates(stage) THEN d ELSE None
  <2>1. (IF Activates(stage) THEN d ELSE None) \in Declarations \cup {None}
    OBVIOUS
  <2>2. watermark + 1 \in Versions
    BY <1>4
  <2>3. row \in ResourceRow
    BY <2>1, <2>2 DEF ResourceRow
  <2>4. row # None
    BY <2>3, RowsAssumption
  <2> QED BY <2>3, <2>4
<1> HIDE DEF row, rows, options
<1>9. resource'[k] = row /\ version'[k] = rows
  BY <1>1, <1>3 DEF CatalogTypeOK
<1>10. /\ document' = [document EXCEPT ![k] = document'[k]]
       /\ document'[k] = IF Activates(stage) THEN Indexed(k, d, options) ELSE document[k]
  BY <1>1, <1>3 DEF CatalogTypeOK
<1>11. Touches(k)
  <2>1. /\ resource' = [resource EXCEPT ![k] = resource'[k]]
        /\ version' = [version EXCEPT ![k] = version'[k]]
    BY <1>3, <1>9
  <2>2. watermark <= watermark'
    BY <1>4
  <2> QED BY <1>4, <1>5, <1>10, <2>1, <2>2 DEF Touches
<1>12. TypedAt(k)'
  BY <1>1, <1>4, <1>5, <1>6, <1>7, <1>8, <1>9, <1>10 DEF TypedAt
<1>13. \A e \in Declarations : version[k][e] = None
  BY <1>1, <1>3 DEF SoundAt, OneActive
<1>14. OneActive(k)' /\ ActiveStored(k)' /\ Declared(k)'
  BY <1>4, <1>6, <1>8, <1>9, <1>13, NoneAssumption DEF OneActive, ActiveStored, Declared
<1>15. Compiled(k)'
  BY <1>4, <1>5, <1>7, <1>8, <1>9, <1>10 DEF Compiled, Activates
<1> QED BY <1>5, <1>11, <1>12, <1>14, <1>15 DEF SoundAt

LEMMA QuarantineStep ==
  ASSUME Inv, NEW k \in Keys, NEW d \in Declarations, NEW seller \in Sellers,
         Quarantine(k, d, seller)
  PROVE  Touches(k) /\ TypedAt(k)' /\ SoundAt(k)'
<1> DEFINE rows == InsertVersion(k, d, "quarantined", watermark + 1)
<1>1. CatalogTypeOK /\ TypedAt(k) /\ SoundAt(k)
  BY TypedRows DEF Inv
<1>2. Commit(k, d, seller)
  BY DEF Quarantine
<1>3. /\ version' = [version EXCEPT ![k] = rows]
      /\ resource' = resource /\ option' = option /\ document' = document
      /\ resource[k] # None /\ version[k][d] = None
  BY DEF Quarantine
<1>4. /\ indexOn' = indexOn /\ watermark' = watermark + 1 /\ watermark' \in Versions
      /\ watermark \in Nat
      /\ declaredBy' = [declaredBy EXCEPT ![k] = declaredBy'[k]]
      /\ declaredBy'[k] \in [Declarations -> SUBSET Sellers]
      /\ \A e \in Declarations : declaredBy[k][e] \subseteq declaredBy'[k][e]
  BY <1>1, <1>2, CommitFacts
<1>5. /\ rows \in VersionRows /\ rows[d] # None
      /\ rows[d].status = "quarantined" /\ rows[d].retired = None
      /\ \A e \in Declarations \ {d} : rows[e] = version[k][e]
  BY <1>1, <1>4, InsertFacts
<1> HIDE DEF rows
<1>6. version'[k] = rows
  BY <1>1, <1>3 DEF CatalogTypeOK
<1>7. Touches(k)
  BY <1>1, <1>3, <1>4, <1>6 DEF Touches, CatalogTypeOK, Versions
<1>8. TypedAt(k)'
  BY <1>1, <1>3, <1>4, <1>5, <1>6 DEF TypedAt
<1>9. resource[k].active # d
  BY <1>1, <1>3, NoneAssumption DEF SoundAt, ActiveStored
<1>10. OneActive(k)' /\ ActiveStored(k)'
  BY <1>1, <1>3, <1>5, <1>6, <1>9 DEF SoundAt, OneActive, ActiveStored, TypedAt, ResourceRow
<1>11. Declared(k)'
  BY <1>1, <1>3, <1>4, <1>5, <1>6 DEF SoundAt, Declared
<1>12. Compiled(k)'
  BY <1>1, <1>3, <1>4 DEF SoundAt, Compiled
<1>13. ASSUME NEW e \in Declarations
       PROVE  OneLive(option'[k][e]) /\ Past(option'[k][e], watermark')
  <2>1. option[k][e] \in OptionRows /\ OneLive(option[k][e]) /\ Past(option[k][e], watermark)
    BY <1>1 DEF SoundAt, TypedAt
  <2>2. Past(option[k][e], watermark')
    BY <1>4, <2>1, NoneAssumption, RowsAssumption DEF Past, OptionRows, OptionRow, Versions
  <2> QED BY <1>3, <2>1, <2>2
<1> QED BY <1>7, <1>8, <1>10, <1>11, <1>12, <1>13 DEF SoundAt

LEMMA SightedFacts ==
  ASSUME NEW row \in ResourceRow
  PROVE  /\ Sighted(row) \in ResourceRow
         /\ Sighted(row).owner = row.owner /\ Sighted(row).active = row.active
BY DEF Sighted, ResourceRow

LEMMA RefreshStep ==
  ASSUME Inv, NEW k \in Keys, NEW d \in Declarations, NEW o \in Options,
         NEW seller \in Sellers, NEW stage \in {"verified", "settled"},
         Refresh(k, d, o, seller, stage)
  PROVE  Touches(k) /\ TypedAt(k)' /\ SoundAt(k)'
<1> DEFINE options == UpsertOption(option[k][d], o, watermark + 1)
           activate == Activates(stage) /\ version[k][d].status # "active"
           rows == IF activate THEN Activate(version[k], d, watermark + 1) ELSE version[k]
           row == Pointed(Sighted(resource[k]), d, activate)
<1>1. CatalogTypeOK /\ TypedAt(k) /\ SoundAt(k)
  BY TypedRows DEF Inv
<1>2. Commit(k, d, seller)
  BY DEF Refresh
<1>3. /\ option' = [option EXCEPT ![k][d] = options]
      /\ document' = IF Activates(stage) THEN [document EXCEPT ![k] = Indexed(k, d, options)]
                     ELSE document
      /\ resource[k] # None /\ resource[k].owner = seller /\ version[k][d] # None
  BY DEF Refresh, Owned
<1>4. resource' = [resource EXCEPT ![k] = row]
  BY DEF Refresh
<1>5. version' = [version EXCEPT ![k] = rows]
  BY <1>1 DEF Refresh, CatalogTypeOK
<1>6. /\ indexOn' = indexOn /\ watermark' = watermark + 1 /\ watermark' \in Versions
      /\ watermark \in Nat
      /\ declaredBy' = [declaredBy EXCEPT ![k] = declaredBy'[k]]
      /\ declaredBy'[k] \in [Declarations -> SUBSET Sellers]
      /\ seller \in declaredBy'[k][d]
      /\ \A e \in Declarations : declaredBy[k][e] \subseteq declaredBy'[k][e]
  BY <1>1, <1>2, CommitFacts
<1>7. /\ option' = [option EXCEPT ![k] = option'[k]]
      /\ option'[k] \in [Declarations -> OptionRows]
      /\ option'[k][d] = options
      /\ \A e \in Declarations : OneLive(option'[k][e]) /\ Past(option'[k][e], watermark')
  BY <1>3, <1>6, OptionsStep
<1>8. /\ Indexed(k, d, options) \in [Declarations -> (SUBSET Options) \cup {None}]
      /\ Indexed(k, d, options)[d] = {p \in Options : Live(options[p])}
  BY <1>1, IndexedFacts
<1>9. /\ row \in ResourceRow /\ row # None
      /\ row.owner = seller
      /\ row.active = IF activate THEN d ELSE resource[k].active
  <2>1. resource[k] \in ResourceRow
    BY <1>1, <1>3 DEF TypedAt
  <2>2. /\ Sighted(resource[k]) \in ResourceRow
        /\ Sighted(resource[k]).owner = seller
        /\ Sighted(resource[k]).active = resource[k].active
    BY <1>3, <2>1, SightedFacts
  <2> HIDE DEF activate
  <2>3. /\ row \in ResourceRow /\ row.owner = seller
        /\ row.active = IF activate THEN d ELSE resource[k].active
    BY <2>2 DEF ResourceRow, Pointed
  <2>4. row # None
    BY <2>3, RowsAssumption
  <2> QED BY <2>3, <2>4
<1>10. /\ rows \in VersionRows
       /\ rows[d] # None
       /\ activate => rows[d].status = "active" /\ rows[d].retired = None
       /\ \A e \in Declarations : e # d \/ ~activate =>
            \/ /\ activate /\ version[k][e] # None /\ version[k][e].status = "active"
               /\ rows[e] # None /\ rows[e].status = "superseded" /\ rows[e].retired # None
            \/ ~(activate /\ version[k][e] # None /\ version[k][e].status = "active")
               /\ rows[e] = version[k][e]
  <2>1. version[k] \in VersionRows /\ watermark + 1 \in Versions
    BY <1>1, <1>6 DEF TypedAt
  <2>2. watermark + 1 # None
    BY <1>6, NoneAssumption
  <2>3. CASE activate
    BY <1>3, <2>1, <2>2, <2>3, ActivateFacts
  <2>4. CASE ~activate
    BY <1>3, <2>1, <2>4
  <2> QED BY <2>3, <2>4
<1> HIDE DEF row, rows, options
<1>11. resource'[k] = row /\ version'[k] = rows
  BY <1>1, <1>4, <1>5 DEF CatalogTypeOK
<1>12. /\ document' = [document EXCEPT ![k] = document'[k]]
       /\ document'[k] = IF Activates(stage) THEN Indexed(k, d, options) ELSE document[k]
  BY <1>1, <1>3 DEF CatalogTypeOK
<1>13. Touches(k)
  <2>1. /\ resource' = [resource EXCEPT ![k] = resource'[k]]
        /\ version' = [version EXCEPT ![k] = version'[k]]
    BY <1>4, <1>5, <1>11
  <2>2. watermark <= watermark'
    BY <1>6
  <2> QED BY <1>6, <1>7, <1>12, <2>1, <2>2 DEF Touches
<1>14. TypedAt(k)'
  BY <1>1, <1>6, <1>7, <1>8, <1>9, <1>10, <1>11, <1>12 DEF TypedAt
<1> HIDE DEF activate
<1>15. OneActive(k)' /\ ActiveStored(k)'
  <2>1. /\ \A e \in Declarations : version[k][e] # None =>
             /\ version[k][e].status = "active" <=> resource[k].active = e
             /\ version[k][e].retired # None <=> version[k][e].status = "superseded"
        /\ resource[k].active # None => version[k][resource[k].active] # None
    BY <1>1, <1>3 DEF SoundAt, OneActive, ActiveStored
  <2>2. resource[k].active \in Declarations \cup {None}
    BY <1>1, <1>3 DEF TypedAt, ResourceRow
  <2>3. CASE activate
    BY <1>9, <1>10, <1>11, <2>1, <2>2, <2>3 DEF OneActive, ActiveStored
  <2>4. CASE ~activate
    BY <1>3, <1>9, <1>10, <1>11, <2>1, <2>2, <2>4 DEF OneActive, ActiveStored
  <2> QED BY <2>3, <2>4
<1>16. Declared(k)'
  BY <1>1, <1>3, <1>6, <1>9, <1>10, <1>11 DEF SoundAt, Declared
<1>17. Compiled(k)'
  <2>1. CASE indexOn = "verified"
    <3>1. Activates(stage)
      BY <2>1 DEF Activates
    <3>2. row.active = d
      BY <1>1, <1>3, <1>9, <3>1 DEF SoundAt, OneActive, activate
    <3> QED BY <1>7, <1>8, <1>11, <1>12, <3>1, <3>2 DEF Compiled
  <2> QED BY <1>6, <2>1 DEF Compiled
<1> QED BY <1>7, <1>13, <1>14, <1>15, <1>16, <1>17 DEF SoundAt

LEMMA ChangeStep ==
  ASSUME Inv, NEW k \in Keys, NEW d \in Declarations, NEW o \in Options,
         NEW seller \in Sellers, NEW stage \in {"verified", "settled"},
         Change(k, d, o, seller, stage)
  PROVE  Touches(k) /\ TypedAt(k)' /\ SoundAt(k)'
<1> DEFINE options == UpsertOption(option[k][d], o, watermark + 1)
           activate == Activates(stage)
           status == IF activate THEN "active" ELSE "candidate"
           inserted == InsertVersion(k, d, status, watermark + 1)
           rows == IF activate THEN Activate(inserted, d, watermark + 1) ELSE inserted
           row == Pointed(Sighted(resource[k]), d, activate)
<1>1. CatalogTypeOK /\ TypedAt(k) /\ SoundAt(k)
  BY TypedRows DEF Inv
<1>2. Commit(k, d, seller)
  BY DEF Change
<1>3. /\ option' = [option EXCEPT ![k][d] = options]
      /\ document' = IF activate THEN [document EXCEPT ![k] = Indexed(k, d, options)]
                     ELSE document
      /\ resource' = [resource EXCEPT ![k] = row]
      /\ version' = [version EXCEPT ![k] = rows]
      /\ resource[k] # None /\ resource[k].owner = seller /\ version[k][d] = None
  BY DEF Change, Owned
<1>4. /\ indexOn' = indexOn /\ watermark' = watermark + 1 /\ watermark' \in Versions
      /\ watermark \in Nat
      /\ declaredBy' = [declaredBy EXCEPT ![k] = declaredBy'[k]]
      /\ declaredBy'[k] \in [Declarations -> SUBSET Sellers]
      /\ seller \in declaredBy'[k][d]
      /\ \A e \in Declarations : declaredBy[k][e] \subseteq declaredBy'[k][e]
  BY <1>1, <1>2, CommitFacts
<1>5. /\ option' = [option EXCEPT ![k] = option'[k]]
      /\ option'[k] \in [Declarations -> OptionRows]
      /\ option'[k][d] = options
      /\ \A e \in Declarations : OneLive(option'[k][e]) /\ Past(option'[k][e], watermark')
  BY <1>3, <1>4, OptionsStep
<1>6. /\ Indexed(k, d, options) \in [Declarations -> (SUBSET Options) \cup {None}]
      /\ Indexed(k, d, options)[d] = {p \in Options : Live(options[p])}
  BY <1>1, IndexedFacts
<1>7. /\ row \in ResourceRow /\ row # None
      /\ row.owner = seller
      /\ row.active = IF activate THEN d ELSE resource[k].active
  <2>1. resource[k] \in ResourceRow
    BY <1>1, <1>3 DEF TypedAt
  <2>2. /\ Sighted(resource[k]) \in ResourceRow
        /\ Sighted(resource[k]).owner = seller
        /\ Sighted(resource[k]).active = resource[k].active
    BY <1>3, <2>1, SightedFacts
  <2> HIDE DEF activate
  <2>3. /\ row \in ResourceRow /\ row.owner = seller
        /\ row.active = IF activate THEN d ELSE resource[k].active
    BY <2>2 DEF ResourceRow, Pointed
  <2>4. row # None
    BY <2>3, RowsAssumption
  <2> QED BY <2>3, <2>4
<1>8. /\ inserted \in VersionRows /\ inserted[d] # None
      /\ inserted[d].status = status /\ inserted[d].retired = None
      /\ \A e \in Declarations \ {d} : inserted[e] = version[k][e]
  BY <1>1, <1>4, InsertFacts
<1> HIDE DEF inserted
<1>9. /\ rows \in VersionRows
      /\ rows[d] # None
      /\ rows[d].status = status /\ rows[d].retired = None
      /\ \A e \in Declarations \ {d} :
           \/ /\ activate /\ version[k][e] # None /\ version[k][e].status = "active"
              /\ rows[e] # None /\ rows[e].status = "superseded" /\ rows[e].retired # None
           \/ ~(activate /\ version[k][e] # None /\ version[k][e].status = "active")
              /\ rows[e] = version[k][e]
  <2>1. watermark + 1 \in Versions
    BY <1>4
  <2>2. watermark + 1 # None
    BY <1>4, NoneAssumption
  <2>3. CASE activate
    BY <1>8, <2>1, <2>2, <2>3, ActivateFacts
  <2>4. CASE ~activate
    BY <1>8, <2>4
  <2> QED BY <2>3, <2>4
<1> HIDE DEF row, rows, options, activate
<1>10. resource'[k] = row /\ version'[k] = rows
  BY <1>1, <1>3 DEF CatalogTypeOK
<1>11. /\ document' = [document EXCEPT ![k] = document'[k]]
       /\ document'[k] = IF activate THEN Indexed(k, d, options) ELSE document[k]
  BY <1>1, <1>3 DEF CatalogTypeOK
<1>12. Touches(k)
  <2>1. /\ resource' = [resource EXCEPT ![k] = resource'[k]]
        /\ version' = [version EXCEPT ![k] = version'[k]]
    BY <1>3, <1>10
  <2>2. watermark <= watermark'
    BY <1>4
  <2> QED BY <1>4, <1>5, <1>11, <2>1, <2>2 DEF Touches
<1>13. TypedAt(k)'
  BY <1>1, <1>4, <1>5, <1>6, <1>7, <1>9, <1>10, <1>11 DEF TypedAt
<1>14. OneActive(k)' /\ ActiveStored(k)'
  <2>1. /\ \A e \in Declarations : version[k][e] # None =>
             /\ version[k][e].status = "active" <=> resource[k].active = e
             /\ version[k][e].retired # None <=> version[k][e].status = "superseded"
        /\ resource[k].active # None => version[k][resource[k].active] # None
    BY <1>1, <1>3 DEF SoundAt, OneActive, ActiveStored
  <2>2. resource[k].active \in (Declarations \ {d}) \cup {None} /\ d # None
    BY <1>1, <1>3, <2>1, NoneAssumption DEF TypedAt, ResourceRow
  <2>3. CASE activate
    BY <1>7, <1>9, <1>10, <2>1, <2>2, <2>3 DEF OneActive, ActiveStored
  <2>4. CASE ~activate
    BY <1>3, <1>7, <1>9, <1>10, <2>1, <2>2, <2>4 DEF OneActive, ActiveStored
  <2> QED BY <2>3, <2>4
<1>15. Declared(k)'
  BY <1>1, <1>3, <1>4, <1>7, <1>9, <1>10 DEF SoundAt, Declared
<1>16. Compiled(k)'
  <2>1. CASE indexOn = "verified"
    <3>1. activate
      BY <2>1 DEF Activates, activate
    <3> QED BY <1>5, <1>6, <1>7, <1>10, <1>11, <3>1 DEF Compiled
  <2> QED BY <1>4, <2>1 DEF Compiled
<1> QED BY <1>5, <1>12, <1>13, <1>14, <1>15, <1>16 DEF SoundAt

\* Writes of a resource's row that leave its owner and its active version.
LEMMA RowStep ==
  ASSUME Inv, NEW k \in Keys, NEW row \in ResourceRow,
         resource[k] # None, row.owner = resource[k].owner, row.active = resource[k].active,
         resource' = [resource EXCEPT ![k] = row],
         watermark' \in {watermark, watermark + 1}, watermark' \in Versions,
         UNCHANGED <<indexOn, version, option, document, declaredBy>>
  PROVE  Touches(k) /\ TypedAt(k)' /\ SoundAt(k)'
<1>1. CatalogTypeOK /\ TypedAt(k) /\ SoundAt(k)
  BY TypedRows DEF Inv
<1>2. watermark \in Nat /\ watermark <= watermark' /\ watermark' \in Nat
  BY <1>1 DEF CatalogTypeOK, Versions
<1>3. resource'[k] = row /\ row # None
  BY <1>1, RowsAssumption DEF CatalogTypeOK
<1>4. Touches(k)
  BY <1>1, <1>2, <1>3 DEF Touches, CatalogTypeOK
<1>5. TypedAt(k)'
  BY <1>1, <1>3 DEF TypedAt
<1>6. OneActive(k)' /\ ActiveStored(k)' /\ Declared(k)' /\ Compiled(k)'
  BY <1>1, <1>3 DEF SoundAt, OneActive, ActiveStored, Declared, Compiled, Live
<1>7. ASSUME NEW e \in Declarations
      PROVE  OneLive(option'[k][e]) /\ Past(option'[k][e], watermark')
  <2>1. option[k][e] \in OptionRows /\ OneLive(option[k][e]) /\ Past(option[k][e], watermark)
    BY <1>1 DEF SoundAt, TypedAt
  <2>2. Past(option[k][e], watermark')
    BY <1>2, <2>1, NoneAssumption, RowsAssumption DEF Past, OptionRows, OptionRow, Versions
  <2> QED BY <2>1, <2>2
<1> QED BY <1>4, <1>5, <1>6, <1>7 DEF SoundAt

LEMMA LifecycleStep ==
  ASSUME Inv, NEW k \in Keys,
         \/ Unseen(k) \/ SweepStale(k)
         \/ \E status \in Decisions : SetResourceStatus(k, status)
         \/ \E d \in Declarations, s \in Sellers : RefuseChange(k, d, s)
  PROVE  Touches(k) /\ TypedAt(k)' /\ SoundAt(k)'
<1>1. /\ CatalogTypeOK /\ watermark \in Versions
      /\ Room => watermark + 1 \in Versions
  BY BoundsAssumption DEF Inv, CatalogTypeOK, Versions, Room
<1>2. resource[k] # None => resource[k] \in ResourceRow
  BY <1>1 DEF CatalogTypeOK
<1>3. CASE Unseen(k)
  <2> DEFINE row == [resource[k] EXCEPT !.seen = FALSE]
  <2>1. /\ resource[k] # None /\ resource' = [resource EXCEPT ![k] = row]
        /\ watermark' = watermark /\ UNCHANGED <<indexOn, version, option, document, declaredBy>>
    BY <1>3 DEF Unseen
  <2>2. row \in ResourceRow /\ row.owner = resource[k].owner /\ row.active = resource[k].active
    BY <1>2, <2>1 DEF ResourceRow
  <2> HIDE DEF row
  <2> QED BY <1>1, <2>1, <2>2, RowStep
<1>4. CASE SweepStale(k)
  <2> DEFINE row == [resource[k] EXCEPT !.status = "stale"]
  <2>1. /\ resource[k] # None /\ resource' = [resource EXCEPT ![k] = row] /\ Room
        /\ watermark' = watermark + 1 /\ UNCHANGED <<indexOn, version, option, document, declaredBy>>
    BY <1>4 DEF SweepStale
  <2>2. row \in ResourceRow /\ row.owner = resource[k].owner /\ row.active = resource[k].active
    BY <1>2, <2>1 DEF ResourceRow
  <2> HIDE DEF row
  <2> QED BY <1>1, <2>1, <2>2, RowStep
<1>5. ASSUME NEW status \in Decisions, SetResourceStatus(k, status)
      PROVE  Touches(k) /\ TypedAt(k)' /\ SoundAt(k)'
  <2> DEFINE row == [resource[k] EXCEPT !.status = status]
  <2>1. /\ resource[k] # None /\ resource' = [resource EXCEPT ![k] = row] /\ Room
        /\ watermark' = watermark + 1 /\ UNCHANGED <<indexOn, version, option, document, declaredBy>>
    BY <1>5 DEF SetResourceStatus
  <2>2. row \in ResourceRow /\ row.owner = resource[k].owner /\ row.active = resource[k].active
    BY <1>2, <2>1, DecisionsAssumption DEF ResourceRow
  <2> HIDE DEF row
  <2> QED BY <1>1, <2>1, <2>2, RowStep
<1>6. ASSUME NEW d \in Declarations, NEW s \in Sellers, RefuseChange(k, d, s)
      PROVE  Touches(k) /\ TypedAt(k)' /\ SoundAt(k)'
  <2>1. /\ resource[k] # None /\ resource' = [resource EXCEPT ![k] = Sighted(resource[k])] /\ Room
        /\ watermark' = watermark + 1 /\ UNCHANGED <<indexOn, version, option, document, declaredBy>>
    BY <1>6 DEF RefuseChange, Owned
  <2>2. /\ Sighted(resource[k]) \in ResourceRow
        /\ Sighted(resource[k]).owner = resource[k].owner
        /\ Sighted(resource[k]).active = resource[k].active
    BY <1>2, <2>1, SightedFacts
  <2> QED BY <1>1, <2>1, <2>2, RowStep
<1> QED BY <1>3, <1>4, <1>5, <1>6

-----------------------------------------------------------------------------
(* All steps. *)

LEMMA WriteStep == Inv /\ Write => Inv'
<1> SUFFICES ASSUME Inv, Write PROVE Inv'
  OBVIOUS
<1>1. walk' \in Walk \cup {None}
  <2>1. walk \in Walk \cup {None}
    BY DEF Inv, CatalogTypeOK
  <2> DEFINE more == \E s \in {walk.snapshot} :
               ~(Visible(s)' \subseteq Visible(s) /\ Snapshot(s) \subseteq Snapshot(s)')
  <2>2. walk' = IF walk = None THEN None ELSE [walk EXCEPT !.disturbed = @ \/ more]
    BY DEF Write
  <2>3. more \in BOOLEAN
    OBVIOUS
  <2> HIDE DEF more
  <2>4. CASE walk = None
    BY <2>2, <2>4
  <2>5. CASE walk # None
    <3>1. walk \in Walk
      BY <2>1, <2>5
    <3>2. (walk.disturbed \/ more) \in BOOLEAN
      BY <2>3
    <3> QED BY <2>2, <2>5, <3>1, <3>2 DEF Walk
  <2> QED BY <2>4, <2>5
<1>2. PICK k \in Keys : \/ Observe(k) \/ Unseen(k) \/ SweepStale(k)
                        \/ \E status \in Decisions : SetResourceStatus(k, status)
  BY DEF Write
<1>3. Touches(k) /\ TypedAt(k)' /\ SoundAt(k)'
  <2>1. ASSUME NEW d \in Declarations, NEW o \in Options, NEW s \in Sellers,
               NEW stage \in {"verified", "settled"},
               \/ CreateResource(k, d, o, s, stage) \/ Quarantine(k, d, s)
               \/ Refresh(k, d, o, s, stage) \/ Change(k, d, o, s, stage)
               \/ RefuseChange(k, d, s)
        PROVE  Touches(k) /\ TypedAt(k)' /\ SoundAt(k)'
    BY <2>1, CreateStep, QuarantineStep, RefreshStep, ChangeStep, LifecycleStep
  <2> QED BY <1>2, <2>1, LifecycleStep DEF Observe
<1> QED BY <1>1, <1>3, TouchesStep

\* Reads change the client only.
LEMMA ReadStep ==
  ASSUME Inv, StartWalk \/ CountRows \/ ReadRows
  PROVE  Inv'
<1>1. UNCHANGED <<indexOn, catalogVars>>
  BY DEF StartWalk, CountRows, ReadRows
<1>2. walk \in Walk \cup {None} /\ watermark \in Versions
  BY DEF Inv, CatalogTypeOK
<1>3. ASSUME NEW S \in SUBSET Keys
      PROVE  Cardinality(S) \in Nat
  BY <1>3, FiniteAssumption, FS_Subset, FS_CardinalityType
<1>4. walk' \in Walk \cup {None}
  <2>1. CASE StartWalk
    BY <1>2, <2>1 DEF StartWalk, Walk
  <2>2. CASE CountRows
    <3> DEFINE total == Cardinality(Visible(walk.snapshot))
               hidden == Visible(walk.snapshot) # Snapshot(walk.snapshot)
    <3>1. walk' = [walk EXCEPT !.at = "rows", !.total = total, !.hidden = hidden]
      BY <2>2 DEF CountRows
    <3>2. total \in Nat
      BY <1>3 DEF Visible, Snapshot
    <3>3. hidden \in BOOLEAN
      OBVIOUS
    <3>4. walk \in Walk
      BY <1>2, <2>2 DEF CountRows
    <3> HIDE DEF total, hidden
    <3> QED BY <3>1, <3>2, <3>3, <3>4 DEF Walk
  <2>3. CASE ReadRows
    <3> DEFINE rows == Page(walk.snapshot, walk.offset)
               next == walk.offset + Cardinality(rows)
               again == walk.again \/ rows \cap walk.shown # {}
               partial == next < walk.total \/ walk.hidden
               at == IF next < walk.total THEN "count" ELSE "end"
    <3>1. walk' = [walk EXCEPT !.shown = walk.shown \cup rows, !.again = again, !.offset = next,
                               !.partial = partial, !.at = at]
      BY <2>3 DEF ReadRows
    <3>2. walk \in Walk
      BY <1>2, <2>3 DEF ReadRows
    <3>3. rows \in SUBSET Keys
      BY DEF Page, Visible, Snapshot
    <3>4. Cardinality(rows) \in Nat
      BY <1>3, <3>3
    <3>5. walk.offset \in Nat /\ walk.shown \in SUBSET Keys
      BY <3>2 DEF Walk
    <3>6. next \in Nat /\ walk.shown \cup rows \in SUBSET Keys
      BY <3>3, <3>4, <3>5
    <3>7. again \in BOOLEAN /\ partial \in BOOLEAN /\ at \in {"count", "rows", "end"}
      OBVIOUS
    <3> HIDE DEF rows, next, again, partial, at
    <3> QED BY <3>1, <3>2, <3>6, <3>7 DEF Walk
  <2> QED BY <2>1, <2>2, <2>3
<1>5. CatalogTypeOK'
  BY <1>1, <1>4 DEF Inv, CatalogTypeOK, catalogVars
<1>6. \A k \in Keys : SoundAt(k)'
  BY <1>1 DEF Inv, SoundAt, OneActive, ActiveStored, Declared, Compiled, OneLive, Past, Live,
     catalogVars
<1> QED BY <1>5, <1>6 DEF Inv

LEMMA InitInv == Init => Inv
<1> SUFFICES ASSUME Init PROVE Inv
  OBVIOUS
<1>1. CatalogTypeOK
  BY BoundsAssumption DEF Init, CatalogTypeOK, Versions
<1>2. ASSUME NEW k \in Keys
      PROVE  SoundAt(k)
  BY DEF Init, SoundAt, OneActive, ActiveStored, Declared, Compiled, OneLive, Past, Live
<1> QED BY <1>1, <1>2 DEF Inv

LEMMA InvAlways == Spec => []Inv
<1>1. Inv /\ [Next]_vars => Inv'
  <2> SUFFICES ASSUME Inv, [Next]_vars PROVE Inv'
    OBVIOUS
  <2>1. CASE Next
    BY <2>1, WriteStep, ReadStep DEF Next
  <2>2. CASE UNCHANGED vars
    BY <2>2 DEF vars, catalogVars, Inv, CatalogTypeOK, SoundAt, OneActive, ActiveStored, Declared,
       Compiled, OneLive, Past, Live
  <2> QED BY <2>1, <2>2
<1> QED BY <1>1, InitInv, PTL DEF Spec

\* Now, the options that are listed are the live ones.
LEMMA NowIn ==
  ASSUME NEW rows \in OptionRows, NEW now \in Versions, Past(rows, now)
  PROVE  \A o \in Options : In(rows[o], now) <=> Live(rows[o])
BY NoneAssumption, RowsAssumption DEF In, Live, Past, OptionRows, OptionRow, Versions

LEMMA NowLive ==
  ASSUME Inv, NEW k \in Keys, NEW d \in Declarations
  PROVE  OptionsAt(k, d, watermark) = {o \in Options : Live(option[k][d][o])}
<1>1. option[k][d] \in OptionRows /\ Past(option[k][d], watermark) /\ watermark \in Versions
  BY DEF Inv, CatalogTypeOK, SoundAt, OptionRows
<1> QED BY <1>1, NowIn DEF OptionsAt

\* Resources, versions, options, documents and cursors keep their types.
THEOREM CatalogTypeCorrect == Spec => []CatalogTypeOK
<1>1. Inv => CatalogTypeOK
  BY DEF Inv
<1> QED BY <1>1, InvAlways, PTL

\* However observations of owners and rivals alternate, a resource has one active version, what was
\* superseded is retired, and a slot has one live option.
THEOREM OneOfEachAlways == Spec => []OneOfEach
<1>1. Inv => OneOfEach
  <2> SUFFICES ASSUME Inv, NEW k \in Keys
               PROVE  /\ {d \in Declarations : version[k][d] # None /\ version[k][d].status = "active"}
                           = IF resource[k] = None THEN {} ELSE {resource[k].active} \ {None}
                      /\ \A d \in Declarations : version[k][d] # None =>
                           (version[k][d].retired # None <=> version[k][d].status = "superseded")
                      /\ \A d \in Declarations : \A o, p \in OptionsAt(k, d, watermark) :
                           o[1] = p[1] => o = p
    BY DEF OneOfEach
  <2>1. OneActive(k) /\ ActiveStored(k) /\ TypedAt(k)
    BY TypedRows DEF Inv, SoundAt
  <2>2. {d \in Declarations : version[k][d] # None /\ version[k][d].status = "active"}
          = IF resource[k] = None THEN {} ELSE {resource[k].active} \ {None}
    BY <2>1, NoneAssumption DEF OneActive, ActiveStored, TypedAt, ResourceRow
  <2>3. \A d \in Declarations : \A o, p \in OptionsAt(k, d, watermark) : o[1] = p[1] => o = p
    BY NowLive DEF Inv, SoundAt, OneLive
  <2> QED BY <2>1, <2>2, <2>3 DEF OneActive
<1> QED BY <1>1, InvAlways, PTL

\* No payment to a rival brings a declaration into any listing of any snapshot.
THEOREM RivalsChangeNothing == Spec => []OwnersOnly
<1>1. Inv => OwnersOnly
  BY DEF Inv, SoundAt, Declared, OwnersOnly, Newest, Offered
<1> QED BY <1>1, InvAlways, PTL

\* Where declarations are indexed when they are verified, the text that is searched speaks of the
\* options that are listed.
THEOREM DocumentsFollow == Spec => []DocumentCurrent
<1>1. Inv => DocumentCurrent
  <2> SUFFICES ASSUME Inv, indexOn = "verified", NEW k \in Keys,
                      resource[k] # None, resource[k].active # None
               PROVE  document[k][resource[k].active] = OptionsAt(k, resource[k].active, watermark)
    BY DEF DocumentCurrent
  <2>1. resource[k].active \in Declarations
    BY TypedRows DEF Inv, TypedAt, ResourceRow
  <2>2. document[k][resource[k].active]
          = {o \in Options : Live(option[k][resource[k].active][o])}
    BY DEF Inv, SoundAt, Compiled
  <2> QED BY <2>1, <2>2, NowLive
<1> QED BY <1>1, InvAlways, PTL

-----------------------------------------------------------------------------
(* Snapshots. *)

\* What a write at now + 1 makes of the options of a declaration: a snapshot before it loses
\* none, and where one was live, one is.
Grows(rows, new, now) ==
  /\ \A s \in 0 .. now, o \in Options : In(rows[o], s) => In(new[o], s)
  /\ (\E o \in Options : Live(rows[o])) => \E o \in Options : Live(new[o])

\* What it makes of a version: it is inserted, activated or superseded, or stays as it was.
RowEvolves(old, new, now, live) ==
  \/ new = old
  \/ /\ old = None /\ new # None
     /\ new.created = now + 1 /\ (new.status = "candidate" => live)
  \/ /\ old # None /\ new # None
     /\ new.number = old.number /\ new.created = old.created
     /\ \/ new.status = "active" /\ new.retired = None
        \/ old.status = "active" /\ new.status = "superseded" /\ new.retired = now + 1

Evolves(k) ==
  /\ watermark' \in {watermark, watermark + 1}
  /\ version'[k] # version[k] => watermark' = watermark + 1
  /\ resource[k] # None => resource'[k] # None /\ resource'[k].created = resource[k].created
  /\ \A d \in Declarations :
       /\ Grows(option[k][d], option'[k][d], watermark)
       /\ RowEvolves(version[k][d], version'[k][d], watermark,
                     \E o \in Options : Live(option'[k][d][o]))

\* A candidate has had terms ever since it was stored.
Termed(k) ==
  \A d \in Declarations : version[k][d] # None /\ version[k][d].status = "candidate" =>
    /\ version[k][d].created <= watermark
    /\ \A s \in version[k][d].created .. watermark : \E o \in Options : In(option[k][d][o], s)

LEMMA UpsertGrows ==
  ASSUME NEW rows \in OptionRows, NEW o \in Options, NEW now \in Nat, now + 1 \in Versions
  PROVE  /\ Grows(rows, UpsertOption(rows, o, now + 1), now)
         /\ Live(UpsertOption(rows, o, now + 1)[o])
<1>1. CASE Live(rows[o])
  <2>1. UpsertOption(rows, o, now + 1) = rows
    BY <1>1 DEF UpsertOption, Live
  <2> QED BY <1>1, <2>1 DEF Grows
<1>2. CASE ~Live(rows[o])
  <2> DEFINE New(p) == IF p = o THEN IF rows[o] = None THEN [created |-> now + 1, retired |-> None]
                                     ELSE [rows[o] EXCEPT !.retired = None]
                       ELSE IF p[1] = o[1] /\ rows[p] # None /\ rows[p].retired = None
                            THEN [rows[p] EXCEPT !.retired = now + 1]
                       ELSE rows[p]
             new == UpsertOption(rows, o, now + 1)
  <2>1. new = [p \in Options |-> New(p)]
    BY <1>2 DEF UpsertOption, Live
  <2>2. Live(New(o))
    <3>1. CASE rows[o] = None
      <4>1. [created |-> now + 1, retired |-> None] \in OptionRow
        BY DEF OptionRow
      <4> QED BY <3>1, <4>1, RowsAssumption DEF Live
    <3>2. CASE rows[o] # None
      <4>1. rows[o] \in OptionRow
        BY <3>2 DEF OptionRows
      <4>2. /\ [rows[o] EXCEPT !.retired = None] \in OptionRow
            /\ [rows[o] EXCEPT !.retired = None].retired = None
        BY <4>1 DEF OptionRow
      <4> QED BY <3>2, <4>2, RowsAssumption DEF Live
    <3> QED BY <3>1, <3>2
  <2>3. ASSUME NEW s \in 0 .. now, NEW p \in Options, In(rows[p], s)
        PROVE  In(New(p), s)
    <3>1. rows[p] # None /\ rows[p] \in OptionRow
      BY <2>3 DEF OptionRows, In
    <3>2. ASSUME NEW end \in {None, now + 1}
          PROVE  In([rows[p] EXCEPT !.retired = end], s)
      <4>1. /\ [rows[p] EXCEPT !.retired = end] \in OptionRow
            /\ [rows[p] EXCEPT !.retired = end].created = rows[p].created
            /\ [rows[p] EXCEPT !.retired = end].retired = end
        BY <3>1 DEF OptionRow
      <4>2. rows[p].created <= s
        BY <2>3 DEF In
      <4>3. end = None \/ end > s
        OBVIOUS
      <4> QED BY <4>1, <4>2, <4>3, RowsAssumption DEF In
    <3> QED BY <2>3, <3>1, <3>2
  <2> HIDE DEF New, new
  <2>4. \A p \in Options : new[p] = New(p)
    BY <2>1
  <2>5. Live(new[o])
    BY <2>2, <2>4
  <2>6. \A s \in 0 .. now, p \in Options : In(rows[p], s) => In(new[p], s)
    BY <2>3, <2>4
  <2> QED BY <2>5, <2>6 DEF Grows, new
<1> QED BY <1>1, <1>2

\* What no write touches evolves.
LEMMA SameEvolves ==
  ASSUME NEW k \in Keys, watermark' \in {watermark, watermark + 1},
         resource'[k] = resource[k], version'[k] = version[k], option'[k] = option[k]
  PROVE  Evolves(k)
BY DEF Evolves, Grows, RowEvolves

\* The options of one declaration are upserted.
LEMMA OptionsGrow ==
  ASSUME Inv, NEW k \in Keys, NEW d \in Declarations, NEW o \in Options, watermark \in Nat,
         watermark + 1 \in Versions,
         option' = [option EXCEPT ![k][d] = UpsertOption(option[k][d], o, watermark + 1)]
  PROVE  /\ \A e \in Declarations : Grows(option[k][e], option'[k][e], watermark)
         /\ Live(option'[k][d][o])
<1> DEFINE new == UpsertOption(option[k][d], o, watermark + 1)
<1>1. option[k] \in [Declarations -> OptionRows]
  BY DEF Inv, CatalogTypeOK, OptionRows
<1>2. Grows(option[k][d], new, watermark) /\ Live(new[o])
  BY <1>1, UpsertGrows
<1> HIDE DEF new
<1>3. option'[k] = [option[k] EXCEPT ![d] = new]
  BY DEF Inv, CatalogTypeOK, new
<1>4. option'[k][d] = new /\ \A e \in Declarations \ {d} : option'[k][e] = option[k][e]
  BY <1>1, <1>3
<1>5. \A e \in Declarations \ {d} : Grows(option[k][e], option'[k][e], watermark)
  BY <1>4 DEF Grows
<1> QED BY <1>2, <1>4, <1>5

\* A version that is inserted, and one that is activated.
LEMMA InsertEvolves ==
  ASSUME CatalogTypeOK, NEW k \in Keys, NEW d \in Declarations, NEW now \in Nat,
         NEW status \in {"candidate", "active", "quarantined"}, now + 1 \in Versions
  PROVE  InsertVersion(k, d, status, now + 1)[d].created = now + 1
BY DEF InsertVersion, CatalogTypeOK

LEMMA ActivateEvolves ==
  ASSUME NEW rows \in VersionRows, NEW d \in Declarations, rows[d] # None, NEW n \in Versions
  PROVE  /\ Activate(rows, d, n)[d].number = rows[d].number
         /\ Activate(rows, d, n)[d].created = rows[d].created
         /\ \A e \in Declarations \ {d} : rows[e] # None =>
              /\ Activate(rows, d, n)[e].number = rows[e].number
              /\ Activate(rows, d, n)[e].created = rows[e].created
BY RowsAssumption DEF Activate, VersionRows, VersionRow

\* The row of a resource stays, and was made when it was made.
LEMMA PointedKeeps ==
  ASSUME NEW row \in ResourceRow, NEW d \in Declarations, NEW activate \in BOOLEAN
  PROVE  /\ Sighted(row) # None /\ Sighted(row).created = row.created
         /\ Pointed(Sighted(row), d, activate) # None
         /\ Pointed(Sighted(row), d, activate).created = row.created
<1>1. Sighted(row) \in ResourceRow /\ Sighted(row).created = row.created
  BY DEF Sighted, ResourceRow
<1>2. /\ Pointed(Sighted(row), d, activate) \in ResourceRow
      /\ Pointed(Sighted(row), d, activate).created = row.created
  BY <1>1 DEF Pointed, ResourceRow
<1> QED BY <1>1, <1>2, RowsAssumption

LEMMA CreateEvolves ==
  ASSUME Inv, NEW k \in Keys, NEW d \in Declarations, NEW o \in Options,
         NEW seller \in Sellers, NEW stage \in {"verified", "settled"},
         CreateResource(k, d, o, seller, stage)
  PROVE  Evolves(k)
<1> DEFINE status == IF Activates(stage) THEN "active" ELSE "candidate"
           rows == InsertVersion(k, d, status, watermark + 1)
<1>1. CatalogTypeOK /\ Commit(k, d, seller)
  BY DEF Inv, CreateResource
<1>2. watermark' = watermark + 1 /\ watermark' \in Versions /\ watermark \in Nat
  BY <1>1, CommitFacts
<1>3. /\ resource[k] = None
      /\ option' = [option EXCEPT ![k][d] = UpsertOption(option[k][d], o, watermark + 1)]
      /\ version' = [version EXCEPT ![k] = rows]
  BY DEF CreateResource
<1>4. /\ \A e \in Declarations : Grows(option[k][e], option'[k][e], watermark)
      /\ Live(option'[k][d][o])
  BY <1>2, <1>3, OptionsGrow
<1>5. /\ rows[d] # None /\ rows[d].created = watermark + 1
      /\ \A e \in Declarations \ {d} : rows[e] = version[k][e]
  BY <1>1, <1>2, InsertFacts, InsertEvolves
<1> HIDE DEF rows
<1>6. version'[k] = rows
  BY <1>1, <1>3 DEF CatalogTypeOK
<1>7. version[k][d] = None
  BY <1>3 DEF Inv, SoundAt, OneActive
<1>8. ASSUME NEW e \in Declarations
      PROVE  RowEvolves(version[k][e], version'[k][e], watermark,
                        \E p \in Options : Live(option'[k][e][p]))
  BY <1>4, <1>5, <1>6, <1>7 DEF RowEvolves
<1> QED BY <1>2, <1>3, <1>4, <1>8 DEF Evolves

LEMMA QuarantineEvolves ==
  ASSUME Inv, NEW k \in Keys, NEW d \in Declarations, NEW seller \in Sellers,
         Quarantine(k, d, seller)
  PROVE  Evolves(k)
<1> DEFINE rows == InsertVersion(k, d, "quarantined", watermark + 1)
<1>1. CatalogTypeOK /\ Commit(k, d, seller)
  BY DEF Inv, Quarantine
<1>2. watermark' = watermark + 1 /\ watermark' \in Versions /\ watermark \in Nat
  BY <1>1, CommitFacts
<1>3. /\ version' = [version EXCEPT ![k] = rows] /\ version[k][d] = None
      /\ resource' = resource /\ option' = option
  BY DEF Quarantine
<1>4. /\ rows[d] # None /\ rows[d].created = watermark + 1 /\ rows[d].status = "quarantined"
      /\ \A e \in Declarations \ {d} : rows[e] = version[k][e]
  BY <1>1, <1>2, InsertFacts, InsertEvolves
<1> HIDE DEF rows
<1>5. version'[k] = rows
  BY <1>1, <1>3 DEF CatalogTypeOK
<1>6. ASSUME NEW e \in Declarations
      PROVE  RowEvolves(version[k][e], version'[k][e], watermark,
                        \E p \in Options : Live(option'[k][e][p]))
  BY <1>3, <1>4, <1>5 DEF RowEvolves
<1> QED BY <1>2, <1>3, <1>6 DEF Evolves, Grows

LEMMA RefreshEvolves ==
  ASSUME Inv, NEW k \in Keys, NEW d \in Declarations, NEW o \in Options,
         NEW seller \in Sellers, NEW stage \in {"verified", "settled"},
         Refresh(k, d, o, seller, stage)
  PROVE  Evolves(k)
<1> DEFINE activate == Activates(stage) /\ version[k][d].status # "active"
           rows == IF activate THEN Activate(version[k], d, watermark + 1) ELSE version[k]
           row == Pointed(Sighted(resource[k]), d, activate)
<1>1. CatalogTypeOK /\ Commit(k, d, seller) /\ TypedAt(k)
  BY TypedRows DEF Inv, Refresh
<1>2. watermark' = watermark + 1 /\ watermark' \in Versions /\ watermark \in Nat
  BY <1>1, CommitFacts
<1>3. /\ option' = [option EXCEPT ![k][d] = UpsertOption(option[k][d], o, watermark + 1)]
      /\ resource[k] # None /\ version[k][d] # None
  BY DEF Refresh, Owned
<1>4. resource' = [resource EXCEPT ![k] = row]
  BY DEF Refresh
<1>5. version' = [version EXCEPT ![k] = rows]
  BY <1>1 DEF Refresh, CatalogTypeOK
<1>6. \A e \in Declarations : Grows(option[k][e], option'[k][e], watermark)
  BY <1>2, <1>3, OptionsGrow
<1>7. row # None /\ row.created = resource[k].created
  BY <1>1, <1>3, PointedKeeps DEF TypedAt
<1>8. ASSUME NEW e \in Declarations, activate
      PROVE  RowEvolves(version[k][e], Activate(version[k], d, watermark + 1)[e], watermark,
                        \E p \in Options : Live(option'[k][e][p]))
  <2>1. version[k] \in VersionRows /\ watermark + 1 \in Versions
    BY <1>1, <1>2 DEF TypedAt
  <2> QED BY <1>3, <2>1, ActivateFacts, ActivateEvolves DEF RowEvolves
<1>9. ASSUME NEW e \in Declarations
      PROVE  RowEvolves(version[k][e], rows[e], watermark,
                        \E p \in Options : Live(option'[k][e][p]))
  <2>1. CASE activate
    BY <1>8, <2>1
  <2>2. CASE ~activate
    BY <2>2 DEF RowEvolves
  <2> QED BY <2>1, <2>2
<1> HIDE DEF row, rows, activate
<1>10. resource'[k] = row /\ version'[k] = rows
  BY <1>1, <1>4, <1>5 DEF CatalogTypeOK
<1> QED BY <1>2, <1>6, <1>7, <1>9, <1>10 DEF Evolves

LEMMA ChangeEvolves ==
  ASSUME Inv, NEW k \in Keys, NEW d \in Declarations, NEW o \in Options,
         NEW seller \in Sellers, NEW stage \in {"verified", "settled"},
         Change(k, d, o, seller, stage)
  PROVE  Evolves(k)
<1> DEFINE activate == Activates(stage)
           status == IF activate THEN "active" ELSE "candidate"
           inserted == InsertVersion(k, d, status, watermark + 1)
           rows == IF activate THEN Activate(inserted, d, watermark + 1) ELSE inserted
           row == Pointed(Sighted(resource[k]), d, activate)
<1>1. CatalogTypeOK /\ Commit(k, d, seller) /\ TypedAt(k)
  BY TypedRows DEF Inv, Change
<1>2. watermark' = watermark + 1 /\ watermark' \in Versions /\ watermark \in Nat
  BY <1>1, CommitFacts
<1>3. /\ option' = [option EXCEPT ![k][d] = UpsertOption(option[k][d], o, watermark + 1)]
      /\ resource' = [resource EXCEPT ![k] = row]
      /\ version' = [version EXCEPT ![k] = rows]
      /\ resource[k] # None /\ version[k][d] = None
  BY DEF Change, Owned
<1>4. /\ \A e \in Declarations : Grows(option[k][e], option'[k][e], watermark)
      /\ Live(option'[k][d][o])
  BY <1>2, <1>3, OptionsGrow
<1>5. row # None /\ row.created = resource[k].created
  BY <1>1, <1>3, PointedKeeps DEF TypedAt, Activates
<1>6. /\ inserted \in VersionRows /\ inserted[d] # None
      /\ inserted[d].created = watermark + 1
      /\ \A e \in Declarations \ {d} : inserted[e] = version[k][e]
  BY <1>1, <1>2, InsertFacts, InsertEvolves
<1> HIDE DEF inserted
<1>7. ASSUME NEW e \in Declarations
      PROVE  RowEvolves(version[k][e], rows[e], watermark,
                        \E p \in Options : Live(option'[k][e][p]))
  <2>1. CASE activate
    <3>1. watermark + 1 \in Versions
      BY <1>2
    <3> QED BY <1>3, <1>4, <1>6, <2>1, <3>1, ActivateFacts, ActivateEvolves DEF RowEvolves
  <2>2. CASE ~activate
    BY <1>3, <1>4, <1>6, <2>2 DEF RowEvolves
  <2> QED BY <2>1, <2>2
<1> HIDE DEF row, rows, activate
<1>8. resource'[k] = row /\ version'[k] = rows
  BY <1>1, <1>3 DEF CatalogTypeOK
<1> QED BY <1>2, <1>4, <1>5, <1>7, <1>8 DEF Evolves

\* The other writes change the row of the resource only.
LEMMA LifecycleEvolves ==
  ASSUME Inv, NEW k \in Keys,
         \/ Unseen(k) \/ SweepStale(k) \/ \E status \in Decisions : SetResourceStatus(k, status)
         \/ \E d \in Declarations, s \in Sellers : RefuseChange(k, d, s)
  PROVE  Evolves(k)
<1>1. /\ version' = version /\ option' = option /\ watermark' \in {watermark, watermark + 1}
      /\ resource[k] # None
  BY DEF Unseen, SweepStale, SetResourceStatus, RefuseChange, Owned
<1>2. resource \in [Keys -> ResourceRow \cup {None}] /\ resource[k] \in ResourceRow
  BY <1>1 DEF Inv, CatalogTypeOK
<1>3. resource'[k] # None /\ resource'[k].created = resource[k].created
  <2> DEFINE unseen == [resource[k] EXCEPT !.seen = FALSE]
             with(status) == [resource[k] EXCEPT !.status = status]
  <2>1. unseen \in ResourceRow /\ unseen.created = resource[k].created
    BY <1>2 DEF ResourceRow
  <2>2. ASSUME NEW status \in Decisions \cup {"stale"}
        PROVE  with(status) \in ResourceRow /\ with(status).created = resource[k].created
    BY <1>2, DecisionsAssumption DEF ResourceRow
  <2> HIDE DEF unseen, with
  <2>3. CASE Unseen(k)
    <3>1. resource'[k] = unseen
      BY <1>2, <2>3 DEF Unseen, unseen
    <3> QED BY <2>1, <3>1, RowsAssumption
  <2>4. CASE SweepStale(k)
    <3>1. resource'[k] = with("stale")
      BY <1>2, <2>4 DEF SweepStale, with
    <3> QED BY <2>2, <3>1, RowsAssumption
  <2>5. ASSUME NEW status \in Decisions, SetResourceStatus(k, status)
        PROVE  resource'[k] # None /\ resource'[k].created = resource[k].created
    <3>1. resource'[k] = with(status)
      BY <1>2, <2>5 DEF SetResourceStatus, with
    <3> QED BY <2>2, <3>1, RowsAssumption
  <2>6. ASSUME NEW d \in Declarations, NEW s \in Sellers, RefuseChange(k, d, s)
        PROVE  resource'[k] # None /\ resource'[k].created = resource[k].created
    <3>1. resource'[k] = Sighted(resource[k])
      BY <1>2, <2>6 DEF RefuseChange
    <3>2. Sighted(resource[k]) # None /\ Sighted(resource[k]).created = resource[k].created
      BY <1>2, <2>6, PointedKeeps
    <3> QED BY <3>1, <3>2
  <2> QED BY <2>3, <2>4, <2>5, <2>6
<1> QED BY <1>1, <1>3 DEF Evolves, Grows, RowEvolves

LEMMA AllEvolve ==
  ASSUME Inv, [Next]_vars
  PROVE  \A k \in Keys : Evolves(k)
<1>1. CASE Write
  <2>1. PICK k \in Keys : \/ Observe(k) \/ Unseen(k) \/ SweepStale(k)
                          \/ \E status \in Decisions : SetResourceStatus(k, status)
    BY <1>1 DEF Write
  <2>2. ASSUME NEW d \in Declarations, NEW o \in Options, NEW s \in Sellers,
               NEW stage \in {"verified", "settled"},
               \/ CreateResource(k, d, o, s, stage) \/ Quarantine(k, d, s)
               \/ Refresh(k, d, o, s, stage) \/ Change(k, d, o, s, stage)
               \/ RefuseChange(k, d, s)
        PROVE  Evolves(k) /\ Touches(k)
    BY <2>2, CreateEvolves, QuarantineEvolves, RefreshEvolves, ChangeEvolves, LifecycleEvolves,
       CreateStep, QuarantineStep, RefreshStep, ChangeStep, LifecycleStep
  <2>3. Evolves(k) /\ Touches(k)
    BY <2>1, <2>2, LifecycleEvolves, LifecycleStep DEF Observe
  <2>4. ASSUME NEW j \in Keys \ {k}
        PROVE  Evolves(j)
    <3>1. resource'[j] = resource[j] /\ version'[j] = version[j] /\ option'[j] = option[j]
      BY <2>3 DEF Touches, Inv, CatalogTypeOK
    <3>2. watermark' \in {watermark, watermark + 1}
      BY <2>3 DEF Evolves
    <3> QED BY <3>1, <3>2, SameEvolves
  <2> QED BY <2>3, <2>4
<1>2. CASE ~Write
  BY <1>2, SameEvolves DEF Next, StartWalk, CountRows, ReadRows, vars, catalogVars
<1> QED BY <1>1, <1>2

\* A candidate keeps having terms.
LEMMA TermedStep ==
  ASSUME Inv, Inv', NEW k \in Keys, Evolves(k), Termed(k)
  PROVE  Termed(k)'
<1> SUFFICES ASSUME NEW d \in Declarations, version'[k][d] # None,
                    version'[k][d].status = "candidate"
             PROVE  /\ version'[k][d].created <= watermark'
                    /\ \A s \in version'[k][d].created .. watermark' :
                         \E o \in Options : In(option'[k][d][o], s)
  BY DEF Termed
<1>1. watermark \in Nat /\ watermark' \in {watermark, watermark + 1}
  BY DEF Evolves, Inv, CatalogTypeOK, Versions
<1>2. Grows(option[k][d], option'[k][d], watermark)
  BY DEF Evolves
<1>3. /\ option[k][d] \in OptionRows /\ Past(option[k][d], watermark)
      /\ option'[k][d] \in OptionRows /\ Past(option'[k][d], watermark')
      /\ watermark \in Versions /\ watermark' \in Versions
  BY DEF Inv, CatalogTypeOK, SoundAt, OptionRows
<1>4. CASE version'[k][d] = version[k][d]
  <2>1. /\ version[k][d].created <= watermark
        /\ \A s \in version[k][d].created .. watermark :
             \E o \in Options : In(option[k][d][o], s)
    BY <1>4 DEF Termed
  <2>2. version[k][d].created \in Nat
    BY <1>4 DEF Inv, CatalogTypeOK, VersionRow, Versions
  <2>3. \A s \in version[k][d].created .. watermark : \E o \in Options : In(option'[k][d][o], s)
    BY <1>1, <1>2, <2>1, <2>2 DEF Grows
  <2>4. \E o \in Options : In(option'[k][d][o], watermark')
    <3>1. \E o \in Options : Live(option[k][d][o])
      BY <1>1, <1>3, <2>1, <2>2, NowIn
    <3> QED BY <1>2, <1>3, <3>1, NowIn DEF Grows
  <2>5. version[k][d].created <= watermark'
    BY <1>1, <2>1, <2>2
  <2>6. \A s \in version[k][d].created .. watermark' :
          s \in version[k][d].created .. watermark \/ s = watermark'
    BY <1>1, <2>2
  <2> QED BY <1>4, <2>3, <2>4, <2>5, <2>6
<1>5. CASE version'[k][d] # version[k][d]
  <2>1. version'[k][d].created = watermark + 1 /\ \E o \in Options : Live(option'[k][d][o])
    BY <1>5 DEF Evolves, RowEvolves
  <2>2. watermark' = watermark + 1
    BY <1>5 DEF Evolves
  <2>3. \E o \in Options : In(option'[k][d][o], watermark')
    BY <1>3, <2>1, NowIn
  <2>4. \A s \in watermark' .. watermark' : s = watermark'
    BY <1>1
  <2> QED BY <1>1, <2>1, <2>2, <2>3, <2>4
<1> QED BY <1>4, <1>5

\* A snapshot keeps what it shows of a resource, unless what a rival declared is taken over.
LEMMA SnapshotStep ==
  ASSUME Inv, Inv', NEW k \in Keys, Evolves(k), Termed(k), NEW s \in 0 .. watermark,
         k \in Snapshot(s),
         ~ \E d \in Declarations : version[k][d] # None /\ version[k][d].status = "quarantined"
                                   /\ version'[k][d].status = "active"
  PROVE  k \in Snapshot(s)'
<1> DEFINE offered == {d \in Declarations : version'[k][d] # None /\ version'[k][d].created <= s
                                            /\ version'[k][d].status \in {"active", "superseded"}}
           newest == {d \in offered : \A e \in offered :
                                        version'[k][e].number <= version'[k][d].number}
<1>1. watermark \in Nat /\ s \in Nat /\ s <= watermark
  BY DEF Inv, CatalogTypeOK, Versions
<1>2. PICK m \in Newest(k, s) : In(version[k][m], s) /\ OptionsAt(k, m, s) # {}
  BY DEF Snapshot
<1>3. /\ resource'[k] # None /\ resource'[k].created <= s
  BY DEF Snapshot, Evolves
<1>4. ASSUME NEW d \in Declarations, \E o \in Options : In(option[k][d][o], s)
      PROVE  \E o \in Options : In(option'[k][d][o], s)
  BY <1>4 DEF Evolves, Grows
<1>5. \A d \in Declarations : /\ version[k][d] # None => version[k][d] \in VersionRow
                              /\ version'[k][d] # None => version'[k][d] \in VersionRow
  BY DEF Inv, CatalogTypeOK
<1>6. Offered(k, s) \subseteq offered
      /\ \A d \in offered : version[k][d] # None /\ version'[k][d].number = version[k][d].number
  BY <1>1, <1>5 DEF Evolves, RowEvolves, Offered, VersionRow, Versions
<1>7. \A d \in offered \ Offered(k, s) :
        /\ version[k][d].status = "candidate" /\ version[k][d].created = version'[k][d].created
        /\ version'[k][d].status = "active" /\ version'[k][d].retired = None
  BY <1>1, <1>5 DEF Evolves, RowEvolves, Offered, VersionRow
<1>8. \A d, e \in offered \ Offered(k, s) : d = e
  BY <1>7 DEF Inv, SoundAt, OneActive
<1>9. m \in offered /\ In(version'[k][m], s) /\ \E o \in Options : In(option'[k][m][o], s)
  <2>1. m \in Declarations /\ m \in Offered(k, s)
    BY <1>2 DEF Newest, Offered
  <2>2. In(version'[k][m], s)
    BY <1>1, <1>2, <1>5, <2>1 DEF Evolves, RowEvolves, Offered, In, VersionRow, Versions
  <2>3. \E o \in Options : In(option[k][m][o], s)
    BY <1>2 DEF OptionsAt
  <2> QED BY <1>4, <1>6, <2>1, <2>2, <2>3
<1>10. \A e \in Offered(k, s) : version'[k][e].number <= version'[k][m].number
  BY <1>2, <1>6 DEF Newest
<1>11. \A d \in offered : version'[k][d].number \in Nat
  BY <1>5 DEF VersionRow
<1>12. \E d \in newest : In(version'[k][d], s) /\ \E o \in Options : In(option'[k][d][o], s)
  <2>1. CASE m \in newest
    BY <1>9, <2>1
  <2>2. CASE m \notin newest
    <3> HIDE DEF offered
    <3>1. PICK e \in offered : ~(version'[k][e].number <= version'[k][m].number)
      BY <1>9, <2>2
    <3>2. e \notin Offered(k, s)
      BY <1>10, <3>1
    <3>3. \A d \in offered : d \in Offered(k, s) \/ d = e
      BY <1>8, <3>1, <3>2
    <3>4. e \in newest
      BY <1>9, <1>10, <1>11, <3>1, <3>3
    <3>5. /\ version'[k][e] # None /\ version'[k][e].created <= s /\ version'[k][e].retired = None
          /\ version[k][e] # None /\ version[k][e].status = "candidate"
          /\ version[k][e].created <= s /\ e \in Declarations
      BY <1>6, <1>7, <3>1, <3>2 DEF offered
    <3>6. version[k][e].created \in Nat
      BY <1>5, <3>5 DEF VersionRow, Versions
    <3>7. \E o \in Options : In(option[k][e][o], s)
      BY <1>1, <3>5, <3>6 DEF Termed
    <3> QED BY <1>4, <3>4, <3>5, <3>7 DEF In
  <2> QED BY <2>1, <2>2
<1> QED BY <1>3, <1>12 DEF Snapshot, Newest, Offered, OptionsAt

\* A snapshot loses no resource and no terms, whatever is written, but for what a rival declared
\* and the owner takes over.
THEOREM SnapshotsStand == Spec => SnapshotsKeep
<1> DEFINE Kept == \A s \in 0 .. watermark, k \in Keys :
             /\ k \in Snapshot(s) =>
                  \/ k \in Snapshot(s)'
                  \/ \E d \in Declarations : version[k][d] # None
                                             /\ version[k][d].status = "quarantined"
                                             /\ version'[k][d].status = "active"
             /\ \A d \in Declarations : OptionsAt(k, d, s) \subseteq OptionsAt(k, d, s)'
           AllTermed == \A k \in Keys : Termed(k)
<1>1. Init => AllTermed
  BY DEF Init, Termed
<1>2. Inv /\ Inv' /\ AllTermed /\ [Next]_vars => AllTermed'
  BY AllEvolve, TermedStep
<1>3. Inv /\ Inv' /\ AllTermed /\ [Next]_vars => [Kept]_vars
  <2> SUFFICES ASSUME Inv, Inv', AllTermed, [Next]_vars
               PROVE  Kept
    OBVIOUS
  <2>1. \A k \in Keys : Evolves(k)
    BY AllEvolve
  <2>2. ASSUME NEW s \in 0 .. watermark, NEW k \in Keys, NEW d \in Declarations
        PROVE  OptionsAt(k, d, s) \subseteq OptionsAt(k, d, s)'
    BY <2>1 DEF Evolves, Grows, OptionsAt
  <2> QED BY <2>1, <2>2, SnapshotStep
<1> QED BY <1>1, <1>2, <1>3, InvAlways, PTL DEF Spec, SnapshotsKeep

-----------------------------------------------------------------------------
(* A client that walks: the rank of a row in an ordered table. *)

Newer(V, f, k) == {j \in V : f[j] > f[k]}
Rank(V, f, k) == Cardinality(Newer(V, f, k))
Ordered(V, f) ==
  IsFiniteSet(V) /\ f \in [V -> Nat] /\ \A j, k \in V : f[j] = f[k] => j = k

LEMMA RankType ==
  ASSUME NEW V, NEW f, Ordered(V, f), NEW k \in V
  PROVE  IsFiniteSet(Newer(V, f, k)) /\ Rank(V, f, k) \in Nat
<1>1. Newer(V, f, k) \in SUBSET V /\ IsFiniteSet(V)
  BY DEF Newer, Ordered
<1>2. IsFiniteSet(Newer(V, f, k))
  BY <1>1, FS_Subset
<1> QED BY <1>2, FS_CardinalityType DEF Rank

\* The newer of two rows comes first.
LEMMA RankFalls ==
  ASSUME NEW V, NEW f, Ordered(V, f), NEW j \in V, NEW k \in V, f[j] > f[k]
  PROVE  Rank(V, f, j) < Rank(V, f, k)
<1>1. Newer(V, f, j) \in SUBSET Newer(V, f, k)
  BY DEF Newer, Ordered
<1>2. j \in Newer(V, f, k) /\ j \notin Newer(V, f, j)
  BY DEF Newer, Ordered
<1>3. /\ IsFiniteSet(Newer(V, f, k))
      /\ Rank(V, f, j) \in Nat /\ Rank(V, f, k) \in Nat
  BY RankType
<1>4. /\ Rank(V, f, j) <= Rank(V, f, k)
      /\ Rank(V, f, k) = Rank(V, f, j) => Newer(V, f, k) = Newer(V, f, j)
  BY <1>1, <1>3, FS_Subset DEF Rank
<1> QED BY <1>2, <1>3, <1>4

LEMMA RanksDiffer ==
  ASSUME NEW V, NEW f, Ordered(V, f), NEW j \in V, NEW k \in V, Rank(V, f, j) = Rank(V, f, k)
  PROVE  j = k
<1>1. f[j] \in Nat /\ f[k] \in Nat /\ (f[j] = f[k] => j = k)
  BY DEF Ordered
<1>2. Rank(V, f, j) \in Nat
  BY RankType
<1>3. ~(f[j] > f[k]) /\ ~(f[k] > f[j])
  BY <1>2, RankFalls
<1> QED BY <1>1, <1>3

\* At most n rows come before place n.
LEMMA RanksBelow ==
  ASSUME NEW V, NEW f, Ordered(V, f), NEW n \in Nat,
         NEW U \in SUBSET V, \A j \in U : Rank(V, f, j) < n
  PROVE  IsFiniteSet(U) /\ Cardinality(U) <= n
<1> DEFINE place == [j \in U |-> Rank(V, f, j)]
<1>1. \A j \in U : Rank(V, f, j) \in 0 .. (n - 1)
  BY RankType
<1>2. place \in [U -> 0 .. (n - 1)]
  BY <1>1
<1>3. \A i, j \in U : place[i] = place[j] => i = j
  BY RanksDiffer
<1>4. place \in Injection(U, 0 .. (n - 1))
  BY <1>2, <1>3 DEF Injection, IsInjective
<1>5. IsFiniteSet(0 .. (n - 1)) /\ Cardinality(0 .. (n - 1)) = n
  BY FS_Interval
<1>6. IsFiniteSet(U) /\ Cardinality(U) <= Cardinality(0 .. (n - 1))
  BY <1>4, <1>5, FS_Injection
<1> QED BY <1>5, <1>6

\* The rows of a page follow each other.
LEMMA PageRanks ==
  ASSUME NEW V, NEW f, Ordered(V, f), NEW n \in Nat, NEW size \in Nat,
         NEW P, P = {k \in V : Rank(V, f, k) \in n .. (n + size - 1)},
         NEW k \in P
  PROVE  Rank(V, f, k) < n + Cardinality(P)
<1> DEFINE front == {j \in Newer(V, f, k) : Rank(V, f, j) < n}
           between == Newer(V, f, k) \ front
<1>1. k \in V /\ Rank(V, f, k) \in n .. (n + size - 1) /\ Rank(V, f, k) \in Nat
  BY RankType
<1>2. IsFiniteSet(Newer(V, f, k)) /\ Newer(V, f, k) \subseteq V /\ IsFiniteSet(V)
  BY <1>1, RankType DEF Newer, Ordered
<1>3. IsFiniteSet(front) /\ Cardinality(front) <= n
  <2>1. front \in SUBSET V /\ \A j \in front : Rank(V, f, j) < n
    BY <1>2
  <2> QED BY <2>1, RanksBelow
<1>4. /\ IsFiniteSet(between)
      /\ Cardinality(between) = Rank(V, f, k) - Cardinality(front)
  <2>1. Newer(V, f, k) \cap front = front
    OBVIOUS
  <2> HIDE DEF front
  <2>2. /\ IsFiniteSet(between)
        /\ Cardinality(between)
             = Cardinality(Newer(V, f, k)) - Cardinality(Newer(V, f, k) \cap front)
    BY <1>2, FS_Difference
  <2> QED BY <2>1, <2>2 DEF Rank
<1>5. k \notin between /\ between \cup {k} \in SUBSET P
  <2>1. k \notin between
    BY <1>1 DEF Newer, Ordered
  <2>2. ASSUME NEW j \in between PROVE j \in P
    <3>1. j \in V /\ ~(Rank(V, f, j) < n) /\ f[j] > f[k]
      BY <1>2 DEF Newer
    <3>2. Rank(V, f, j) \in Nat /\ Rank(V, f, j) < Rank(V, f, k)
      BY <1>1, <3>1, RankType, RankFalls
    <3>3. Rank(V, f, j) \in n .. (n + size - 1)
      BY <1>1, <3>1, <3>2
    <3> QED BY <3>1, <3>3
  <2> QED BY <2>1, <2>2
<1>6. IsFiniteSet(P)
  <2>1. P \in SUBSET V
    OBVIOUS
  <2> QED BY <2>1, <1>2, FS_Subset
<1>7. Cardinality(between \cup {k}) = Cardinality(between) + 1
  <2> HIDE DEF between
  <2> QED BY <1>4, <1>5, FS_AddElement
<1>8. Cardinality(between \cup {k}) <= Cardinality(P)
  <2> HIDE DEF between
  <2> QED BY <1>5, <1>6, FS_Subset
<1>9. /\ Cardinality(front) \in Nat /\ Cardinality(between) \in Nat
      /\ Cardinality(P) \in Nat
  BY <1>3, <1>4, <1>6, FS_CardinalityType
<1> HIDE DEF front, between
<1> QED BY <1>1, <1>3, <1>4, <1>7, <1>8, <1>9

\* A row moves forward when others go.
LEMMA RankShrinks ==
  ASSUME NEW V, NEW f, Ordered(V, f), NEW W \in SUBSET V, NEW g, Ordered(W, g),
         \A j \in W : g[j] = f[j], NEW k \in W
  PROVE  Rank(W, g, k) <= Rank(V, f, k)
<1>1. Newer(W, g, k) \in SUBSET Newer(V, f, k)
  BY DEF Newer
<1>2. IsFiniteSet(Newer(V, f, k))
  BY RankType
<1> QED BY <1>1, <1>2, FS_Subset DEF Rank

-----------------------------------------------------------------------------
(* What a client was shown, and what is still to come. *)

\* Resources are dated by the counter, each by a version of its own.
Dated ==
  /\ \A k \in Keys : resource[k] # None => resource[k].created <= watermark
  /\ \A j, k \in Keys : resource[j] # None /\ resource[k] # None
                        /\ resource[j].created = resource[k].created => j = k

Dates(s) == [k \in Visible(s) |-> resource[k].created]

\* As long as no write disturbs the snapshot s of the client: what it was shown comes before
\* its offset, as many rows as the offset says; and when nothing was hidden as the rows were
\* counted, they still hold all that was and that will be shown.
Walking(s) ==
  walk # None /\ walk.snapshot = s /\ ~walk.disturbed =>
    /\ ~walk.again /\ Cardinality(walk.shown) = walk.offset
    /\ walk.shown \subseteq Snapshot(s)
    /\ \A k \in walk.shown \cap Visible(s) : Rank(Visible(s), Dates(s), k) < walk.offset
    /\ walk.at = "rows" /\ ~walk.hidden =>
         \E rows \in SUBSET Keys :
           Cardinality(rows) = walk.total /\ Visible(s) \cup walk.shown \subseteq rows
    /\ walk.at = "end" /\ ~walk.partial => Visible(s) \subseteq walk.shown

WalkInv == Dated /\ \A s \in Versions : Walking(s)

LEMMA DatesOrdered ==
  ASSUME NEW rows, NEW V \in SUBSET Keys, \A k \in V : rows[k].created \in Nat,
         \A j, k \in V : rows[j].created = rows[k].created => j = k
  PROVE  Ordered(V, [k \in V |-> rows[k].created])
<1>1. IsFiniteSet(V)
  BY FiniteAssumption, FS_Subset
<1> QED BY <1>1 DEF Ordered

LEMMA VisibleRows ==
  ASSUME CatalogTypeOK, NEW s
  PROVE  /\ Snapshot(s) \in SUBSET Keys /\ Visible(s) \in SUBSET Snapshot(s)
         /\ Visible(s) \in SUBSET Keys
         /\ \A k \in Visible(s) : resource[k] # None /\ resource[k].created \in Nat
<1>1. /\ Snapshot(s) \in SUBSET Keys /\ Visible(s) \in SUBSET Snapshot(s)
      /\ \A k \in Snapshot(s) : resource[k] # None
  BY DEF Snapshot, Visible
<1>2. \A k \in Keys : resource[k] # None => resource[k].created \in Nat
  BY BoundsAssumption DEF CatalogTypeOK, ResourceRow, Versions
<1> QED BY <1>1, <1>2

\* A write makes at most one resource, dated by its own version.
LEMMA BornNow ==
  ASSUME Inv, Write
  PROVE  \E k \in Keys :
           /\ \A j \in Keys \ {k} : resource'[j] = resource[j]
           /\ resource[k] = None /\ resource'[k] # None =>
                watermark' = watermark + 1 /\ resource'[k].created = watermark'
<1>1. PICK k \in Keys : \/ Observe(k) \/ Unseen(k) \/ SweepStale(k)
                        \/ \E status \in Decisions : SetResourceStatus(k, status)
  BY DEF Write
<1>2. resource \in [Keys -> ResourceRow \cup {None}]
  BY DEF Inv, CatalogTypeOK
<1>3. ASSUME NEW d \in Declarations, NEW o \in Options, NEW s \in Sellers,
             NEW stage \in {"verified", "settled"},
             \/ CreateResource(k, d, o, s, stage) \/ Quarantine(k, d, s)
             \/ Refresh(k, d, o, s, stage) \/ Change(k, d, o, s, stage)
             \/ RefuseChange(k, d, s)
      PROVE  /\ \A j \in Keys \ {k} : resource'[j] = resource[j]
             /\ resource[k] = None => resource'[k].created = watermark' /\ watermark' = watermark + 1
  <2>1. CASE CreateResource(k, d, o, s, stage)
    BY <1>2, <2>1 DEF CreateResource, Commit
  <2>2. CASE Quarantine(k, d, s)
    BY <2>2 DEF Quarantine
  <2>3. CASE Refresh(k, d, o, s, stage)
    BY <1>2, <2>3 DEF Refresh, Owned
  <2>4. CASE Change(k, d, o, s, stage)
    BY <1>2, <2>4 DEF Change, Owned
  <2>5. CASE RefuseChange(k, d, s)
    BY <1>2, <2>5 DEF RefuseChange, Owned
  <2> QED BY <1>3, <2>1, <2>2, <2>3, <2>4, <2>5
<1>4. CASE \/ Unseen(k) \/ SweepStale(k) \/ \E status \in Decisions : SetResourceStatus(k, status)
  BY <1>2, <1>4 DEF Unseen, SweepStale, SetResourceStatus
<1>5. CASE Observe(k)
  <2>1. PICK d \in Declarations, o \in Options, s \in Sellers, stage \in {"verified", "settled"} :
             \/ CreateResource(k, d, o, s, stage) \/ Quarantine(k, d, s)
             \/ Refresh(k, d, o, s, stage) \/ Change(k, d, o, s, stage)
             \/ RefuseChange(k, d, s)
    BY <1>5 DEF Observe
  <2> QED BY <2>1, <1>3
<1> QED BY <1>1, <1>4, <1>5

LEMMA DatedStep ==
  ASSUME Inv, Inv', Dated, [Next]_vars
  PROVE  Dated'
<1>1. CASE Write
  <2>1. PICK k \in Keys :
           /\ \A j \in Keys \ {k} : resource'[j] = resource[j]
           /\ resource[k] = None /\ resource'[k] # None =>
                watermark' = watermark + 1 /\ resource'[k].created = watermark'
    BY <1>1, BornNow
  <2>2. /\ watermark \in Nat /\ watermark' \in {watermark, watermark + 1}
        /\ resource[k] # None => resource'[k] # None /\ resource'[k].created = resource[k].created
    <3>1. Evolves(k)
      BY AllEvolve
    <3>2. watermark \in Nat
      BY BoundsAssumption DEF Inv, CatalogTypeOK, Versions
    <3> QED BY <3>1, <3>2 DEF Evolves
  <2>3. \A j \in Keys : resource[j] # None => resource[j].created \in Nat
    BY BoundsAssumption DEF Inv, CatalogTypeOK, ResourceRow, Versions
  <2>4. ASSUME NEW j \in Keys, resource'[j] # None
        PROVE  IF resource[j] # None THEN resource'[j].created = resource[j].created
               ELSE j = k /\ resource'[j].created = watermark + 1 /\ watermark' = watermark + 1
    BY <2>1, <2>2, <2>4
  <2>5. ASSUME NEW j \in Keys, resource'[j] # None PROVE resource'[j].created <= watermark'
    BY <2>2, <2>3, <2>4, <2>5 DEF Dated
  <2>6. ASSUME NEW i \in Keys, NEW j \in Keys, resource'[i] # None, resource'[j] # None,
               resource'[i].created = resource'[j].created
        PROVE  i = j
    BY <2>2, <2>3, <2>4, <2>6 DEF Dated
  <2> QED BY <2>5, <2>6 DEF Dated
<1>2. CASE ~Write
  BY <1>2 DEF Next, StartWalk, CountRows, ReadRows, vars, catalogVars, Dated
<1> QED BY <1>1, <1>2

\* A write that does not disturb the client's snapshot.
LEMMA WalkingWrite ==
  ASSUME Inv, Inv', Dated, Dated', Write, NEW s \in Versions, Walking(s)
  PROVE  Walking(s)'
<1> SUFFICES ASSUME walk' # None, walk'.snapshot = s, ~walk'.disturbed
             PROVE  Walking(s)'
  BY DEF Walking
<1>1. walk # None /\ walk \in Walk
  BY DEF Write, Inv, CatalogTypeOK
<1>2. walk' = [walk EXCEPT !.disturbed =
                 @ \/ \E x \in {walk.snapshot} :
                        ~(Visible(x)' \subseteq Visible(x) /\ Snapshot(x) \subseteq Snapshot(x)')]
  BY <1>1 DEF Write
<1>3. /\ walk.snapshot = s /\ walk'.again = walk.again /\ walk'.shown = walk.shown
      /\ walk'.offset = walk.offset /\ walk'.at = walk.at /\ walk'.hidden = walk.hidden
      /\ walk'.total = walk.total /\ walk'.partial = walk.partial
  BY <1>1, <1>2 DEF Walk
<1>4. ~(walk.disturbed \/ \E x \in {walk.snapshot} :
          ~(Visible(x)' \subseteq Visible(x) /\ Snapshot(x) \subseteq Snapshot(x)'))
  BY <1>1, <1>2 DEF Walk
<1>5. ~walk.disturbed /\ Visible(s)' \subseteq Visible(s) /\ Snapshot(s) \subseteq Snapshot(s)'
  BY <1>3, <1>4
<1>6. /\ Visible(s) \in SUBSET Keys
      /\ \A k \in Visible(s) : resource[k] # None /\ resource[k].created \in Nat
  BY VisibleRows DEF Inv
<1>7. \A k \in Visible(s)' : resource'[k].created = resource[k].created
  BY <1>5, <1>6, AllEvolve DEF Next, Evolves
<1>8. Ordered(Visible(s), Dates(s))
  BY <1>6, DatesOrdered DEF Dated, Dates
<1>9. Ordered(Visible(s)', Dates(s)')
  <2> DEFINE V == Visible(s)'
  <2>1. /\ V \in SUBSET Keys /\ \A k \in V : resource'[k].created \in Nat
        /\ \A j, k \in V : resource'[j].created = resource'[k].created => j = k
    BY <1>5, <1>6, <1>7 DEF Dated
  <2>2. Dates(s)' = [k \in V |-> resource'[k].created]
    BY DEF Dates
  <2> HIDE DEF V
  <2>3. Ordered(V, [k \in V |-> resource'[k].created])
    BY <2>1, DatesOrdered
  <2> QED BY <2>2, <2>3 DEF V
<1>10. ASSUME NEW k \in Visible(s)'
       PROVE  Rank(Visible(s)', Dates(s)', k) <= Rank(Visible(s), Dates(s), k)
  <2>1. \A j \in Visible(s)' : Dates(s)'[j] = Dates(s)[j]
    BY <1>5, <1>7 DEF Dates
  <2> QED BY <1>5, <1>8, <1>9, <2>1, RankShrinks
<1>11. ASSUME NEW k \in walk.shown \cap Visible(s)'
       PROVE  Rank(Visible(s)', Dates(s)', k) < walk.offset
  <2>1. Rank(Visible(s), Dates(s), k) < walk.offset
    BY <1>1, <1>3, <1>5 DEF Walking
  <2>2. /\ Rank(Visible(s)', Dates(s)', k) \in Nat /\ Rank(Visible(s), Dates(s), k) \in Nat
        /\ walk.offset \in Nat
    BY <1>1, <1>5, <1>8, <1>9, RankType DEF Walk
  <2> QED BY <1>10, <2>1, <2>2
<1> QED BY <1>1, <1>3, <1>5, <1>11 DEF Walking


LEMMA ViewStays ==
  ASSUME UNCHANGED catalogVars, NEW s
  PROVE  Visible(s)' = Visible(s) /\ Snapshot(s)' = Snapshot(s) /\ Dates(s)' = Dates(s)
<1>1. resource' = resource /\ version' = version /\ option' = option
  BY DEF catalogVars
<1>2. Snapshot(s)' = Snapshot(s)
  BY <1>1 DEF Snapshot, Newest, Offered, In, OptionsAt
<1>3. Visible(s)' = Visible(s)
  BY <1>1, <1>2 DEF Visible
<1> QED BY <1>1, <1>2, <1>3 DEF Dates

\* The rows are counted.
LEMMA WalkingCount ==
  ASSUME Inv, CountRows, NEW s \in Versions, Walking(s)
  PROVE  Walking(s)'
<1> SUFFICES ASSUME walk'.snapshot = s, ~walk'.disturbed
             PROVE  Walking(s)'
  BY DEF Walking
<1>1. walk # None /\ walk \in Walk /\ walk.at = "count"
  BY DEF CountRows, Inv, CatalogTypeOK
<1>2. walk' = [walk EXCEPT !.at = "rows", !.total = Cardinality(Visible(walk.snapshot)),
                           !.hidden = Visible(walk.snapshot) # Snapshot(walk.snapshot)]
  BY DEF CountRows
<1>3. /\ walk.snapshot = s /\ ~walk.disturbed /\ walk'.again = walk.again
      /\ walk'.shown = walk.shown /\ walk'.offset = walk.offset /\ walk'.at = "rows"
  BY <1>1, <1>2 DEF Walk
<1>4. /\ walk'.total = Cardinality(Visible(s)) /\ walk'.hidden = (Visible(s) # Snapshot(s))
  BY <1>1, <1>2, <1>3 DEF Walk
<1>5. Visible(s)' = Visible(s) /\ Snapshot(s)' = Snapshot(s) /\ Dates(s)' = Dates(s)
  BY ViewStays DEF CountRows
<1>6. Visible(s) \in SUBSET Keys
  BY VisibleRows DEF Inv
<1>7. /\ ~walk.again /\ Cardinality(walk.shown) = walk.offset
      /\ walk.shown \subseteq Snapshot(s)
      /\ \A k \in walk.shown \cap Visible(s) : Rank(Visible(s), Dates(s), k) < walk.offset
  BY <1>1, <1>3 DEF Walking
<1>8. walk'.hidden = FALSE => Visible(s) \cup walk.shown \subseteq Visible(s)
  BY <1>4, <1>7
<1>9. ~walk'.hidden =>
        \E rows \in SUBSET Keys :
          Cardinality(rows) = walk'.total /\ Visible(s) \cup walk.shown \subseteq rows
  BY <1>4, <1>6, <1>8
<1> QED BY <1>1, <1>3, <1>5, <1>7, <1>9 DEF Walking

\* A page is shown.
LEMMA WalkingRows ==
  ASSUME Inv, Dated, ReadRows, NEW s \in Versions, Walking(s)
  PROVE  Walking(s)'
<1> SUFFICES ASSUME walk'.snapshot = s, ~walk'.disturbed
             PROVE  Walking(s)'
  BY DEF Walking
<1> DEFINE V == Visible(s)
           f == Dates(s)
           n == walk.offset
           rows == Page(s, n)
           next == n + Cardinality(rows)
<1>1. walk # None /\ walk \in Walk /\ walk.at = "rows"
  BY DEF ReadRows, Inv, CatalogTypeOK
<1>2. walk.snapshot = s /\ ~walk.disturbed
  BY <1>1 DEF ReadRows, Walk
<1>3. walk' = [walk EXCEPT
        !.shown = @ \cup rows, !.again = @ \/ rows \cap walk.shown # {}, !.offset = next,
        !.partial = next < walk.total \/ walk.hidden,
        !.at = IF next < walk.total THEN "count" ELSE "end"]
  BY <1>2 DEF ReadRows
<1>4. /\ walk'.shown = walk.shown \cup rows
      /\ walk'.again = (walk.again \/ rows \cap walk.shown # {})
      /\ walk'.offset = next /\ walk'.partial = (next < walk.total \/ walk.hidden)
      /\ walk'.at = IF next < walk.total THEN "count" ELSE "end"
  BY <1>1, <1>3 DEF Walk
<1>5. Visible(s)' = V /\ Snapshot(s)' = Snapshot(s) /\ Dates(s)' = f
  BY ViewStays DEF ReadRows
<1>6. /\ V \in SUBSET Snapshot(s) /\ V \in SUBSET Keys /\ Snapshot(s) \in SUBSET Keys
      /\ \A k \in V : resource[k] # None /\ resource[k].created \in Nat
  BY VisibleRows DEF Inv
<1>7. Ordered(V, f)
  BY <1>6, DatesOrdered DEF Dated, Dates
<1>8. rows = {k \in V : Rank(V, f, k) \in n .. (n + PageSize - 1)}
  <2>1. ASSUME NEW k \in V
        PROVE  Rank(V, f, k)
                 = Cardinality({j \in V : resource[j].created > resource[k].created})
    BY DEF Rank, Newer, Dates
  <2> QED BY <2>1 DEF Page
<1>9. /\ ~walk.again /\ Cardinality(walk.shown) = n /\ walk.shown \subseteq Snapshot(s)
      /\ \A k \in walk.shown \cap V : Rank(V, f, k) < n
      /\ ~walk.hidden => \E all \in SUBSET Keys :
           Cardinality(all) = walk.total /\ V \cup walk.shown \subseteq all
  BY <1>1, <1>2 DEF Walking
<1>10. n \in Nat /\ walk.total \in Nat /\ PageSize \in Nat
  BY <1>1, PageAssumption DEF Walk
<1> HIDE DEF V, f, n, rows
<1>11. IsFiniteSet(Keys) /\ IsFiniteSet(rows) /\ IsFiniteSet(walk.shown)
  <2>1. rows \in SUBSET Keys /\ walk.shown \in SUBSET Keys
    BY <1>6, <1>8, <1>9
  <2> QED BY <2>1, FiniteAssumption, FS_Subset
<1>12. rows \cap walk.shown = {}
  <2>1. ASSUME NEW k \in rows \cap walk.shown PROVE FALSE
    <3>1. k \in V /\ Rank(V, f, k) \in n .. (n + PageSize - 1) /\ Rank(V, f, k) < n
      BY <1>8, <1>9
    <3> QED BY <3>1, <1>10
  <2> QED BY <2>1
<1>13. Cardinality(walk.shown \cup rows) = next
  <2>1. Cardinality(walk.shown \cap rows) = 0
    BY <1>12, FS_EmptySet
  <2>2. /\ Cardinality(rows) \in Nat
        /\ Cardinality(walk.shown \cup rows)
             = Cardinality(walk.shown) + Cardinality(rows) - Cardinality(walk.shown \cap rows)
    BY <1>11, FS_Union, FS_CardinalityType
  <2> QED BY <2>1, <2>2, <1>9, <1>10
<1>14. ASSUME NEW k \in (walk.shown \cup rows) \cap V
       PROVE  Rank(V, f, k) < next
  <2>1. Cardinality(rows) \in Nat /\ Rank(V, f, k) \in Nat
    BY <1>7, <1>11, RankType, FS_CardinalityType
  <2>2. CASE k \in walk.shown
    BY <1>9, <1>10, <2>1, <2>2
  <2>3. CASE k \in rows
    BY <1>7, <1>8, <1>10, <2>3, PageRanks
  <2> QED BY <2>2, <2>3
<1>15. ~(next < walk.total) /\ ~walk.hidden => V \subseteq walk.shown \cup rows
  <2> SUFFICES ASSUME ~(next < walk.total), ~walk.hidden
               PROVE  V \subseteq walk.shown \cup rows
    OBVIOUS
  <2>1. PICK all \in SUBSET Keys : Cardinality(all) = walk.total /\ V \cup walk.shown \subseteq all
    BY <1>9
  <2> DEFINE seen == walk.shown \cup rows
  <2>2. IsFiniteSet(all) /\ seen \in SUBSET all
    BY <1>8, <1>11, <2>1, FS_Subset
  <2>3. Cardinality(seen) = next
    BY <1>13
  <2> HIDE DEF seen
  <2>4. /\ Cardinality(seen) <= Cardinality(all)
        /\ Cardinality(all) = Cardinality(seen) => all = seen
        /\ Cardinality(all) \in Nat /\ Cardinality(seen) \in Nat
    BY <2>2, FS_Subset, FS_CardinalityType
  <2> HIDE DEF next
  <2>5. all = seen
    BY <2>1, <2>3, <2>4
  <2> QED BY <2>1, <2>5 DEF seen
<1>16. /\ walk.shown \cup rows \subseteq Snapshot(s)
       /\ walk'.at # "rows"
       /\ walk'.at = "end" /\ ~walk'.partial => V \subseteq walk'.shown
  BY <1>4, <1>6, <1>8, <1>9, <1>15
<1> HIDE DEF next
<1> QED BY <1>4, <1>5, <1>9, <1>12, <1>13, <1>14, <1>16 DEF Walking, V, f

LEMMA WalkInvStep ==
  ASSUME Inv, Inv', WalkInv, [Next]_vars
  PROVE  WalkInv'
<1>1. Dated'
  BY DatedStep DEF WalkInv
<1>2. ASSUME NEW s \in Versions PROVE Walking(s)'
  <2>1. CASE Write
    BY <1>1, <2>1, WalkingWrite DEF WalkInv
  <2>2. CASE StartWalk
    <3>1. /\ walk'.at = "count" /\ walk'.shown = {} /\ walk'.offset = 0 /\ ~walk'.again
      BY <2>2 DEF StartWalk
    <3> QED BY <3>1, FS_EmptySet DEF Walking
  <2>3. CASE CountRows
    BY <2>3, WalkingCount DEF WalkInv
  <2>4. CASE ReadRows
    BY <2>4, WalkingRows DEF WalkInv
  <2>5. CASE UNCHANGED vars
    BY <2>5, ViewStays DEF WalkInv, Walking, vars
  <2> QED BY <2>1, <2>2, <2>3, <2>4, <2>5 DEF Next
<1> QED BY <1>1, <1>2 DEF WalkInv

\* A client that is told at the end that it has everything was shown all of the snapshot that is
\* to be seen, and nobody was shown a row twice, however many pages there are and whatever is
\* written that does not disturb the snapshot.
THEOREM WalksComplete == Spec => []WalkComplete
<1>1. Init => WalkInv
  BY DEF Init, WalkInv, Dated, Walking
<1>2. Inv /\ WalkInv /\ [Next]_vars /\ Inv' => WalkInv'
  BY WalkInvStep
<1>3. Inv /\ WalkInv => WalkComplete
  <2> SUFFICES ASSUME Inv, WalkInv, walk # None, walk.at = "end", ~walk.disturbed
               PROVE  ~walk.again /\ (~walk.partial => Visible(walk.snapshot) \subseteq walk.shown)
    BY DEF WalkComplete
  <2>1. walk.snapshot \in Versions
    BY DEF Inv, CatalogTypeOK, Walk
  <2>2. Walking(walk.snapshot)
    BY <2>1 DEF WalkInv
  <2> QED BY <2>2 DEF Walking
<1> QED BY <1>1, <1>2, <1>3, InvAlways, PTL DEF Spec

=============================================================================

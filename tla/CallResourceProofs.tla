------------------------- MODULE CallResourceProofs -------------------------
(***************************************************************************)
(* Proofs about CallResource, for every value of its constants.            *)
(***************************************************************************)
EXTENDS CallResourceInv, Sums

-----------------------------------------------------------------------------
(* Arithmetic of a call: what is asked for is a natural number. *)

LEMMA LeastOfThree ==
  ASSUME NEW x \in Nat, NEW y \in Nat, NEW z \in Nat
  PROVE  Least({x, y, z}) \in {x, y, z}
<1>1. \E m \in {x, y, z} : \A k \in {x, y, z} : m <= k
  <2>1. CASE x <= y /\ x <= z  BY <2>1
  <2>2. CASE y <= x /\ y <= z  BY <2>2
  <2>3. CASE z <= x /\ z <= y  BY <2>3
  <2>4. QED  BY <2>1, <2>2, <2>3
<1>2. QED
  BY <1>1 DEF Least

LEMMA UsageNumbers ==
  ASSUME StoreTypeOK, NEW a \in Agents, NEW d \in Days
  PROVE  usage[a][d].spent \in Nat /\ usage[a][d].reserved \in Int
BY DEF StoreTypeOK

LEMMA CapTyped ==
  ASSUME TypeOK, NEW a \in Agents, NEW price \in Prices
  PROVE  EffectiveCap(a, price) \in Nat
<1>1. usedToday(a) \in Int
  BY UsageNumbers DEF TypeOK, StoreTypeOK, usedToday
<1>2. Remaining(a) \in Nat
  BY <1>1, BudgetAssumption DEF Remaining
<1>3. PerCallMax \in Nat /\ price \in Nat
  BY BudgetAssumption, CallAssumption
<1>4. QED
  BY <1>2, <1>3, LeastOfThree DEF EffectiveCap

-----------------------------------------------------------------------------
(* The store: each method keeps the types and the limit. *)

LEMMA ReserveKeeps ==
  ASSUME StoreTypeOK, Limited, NEW i \in Identifiers, NEW a \in Agents, NEW amount \in Nat,
         reserve(i, a, amount)
  PROVE  StoreTypeOK' /\ Limited'
<1>1. [agent |-> a, day |-> today, amount |-> amount, settled |-> 0, status |-> "reserved"]
        \in Reservation
  BY DEF StoreTypeOK, Reservation, Statuses
<1>2. reservation' \in [Identifiers -> Reservation \cup {None}]
  BY <1>1 DEF StoreTypeOK, reserve
<1>3. today \in Days /\ usage[a][today] \in [spent: Nat, reserved: Int]
  BY DEF StoreTypeOK
<1>4. PICK day : day = [usage[a][today] EXCEPT !.reserved = usage[a][today].reserved + amount]
  OBVIOUS
<1>5. /\ usage' = [usage EXCEPT ![a] = [usage[a] EXCEPT ![today] = day]]
      /\ today' = today
  BY <1>3, <1>4 DEF StoreTypeOK, reserve
<1>6. day \in [spent: Nat, reserved: Int] /\ day.spent + day.reserved <= DayMax
  <2>1. usage[a][today].spent + usage[a][today].reserved + amount <= DayMax
    BY DEF reserve, Fits, usedToday
  <2>2. QED
    BY <1>3, <1>4, <2>1, BudgetAssumption
<1>7. QED
  BY <1>2, <1>3, <1>5, <1>6 DEF StoreTypeOK, Limited, LimitKept

LEMMA ReconcileKeeps ==
  ASSUME StoreTypeOK, Limited, NEW i \in Identifiers, reservation[i] # None,
         NEW settled \in Nat, reconcile(i, settled),
         "otheramount" \in Hazards \/ settled = reservation[i].amount
  PROVE  StoreTypeOK' /\ Limited'
<1> DEFINE row == reservation[i]
<1>1. row \in Reservation
  BY DEF StoreTypeOK
<1>2. CASE row.status = "settled"
  BY <1>2 DEF reconcile, StoreTypeOK, Limited, LimitKept
<1>3. CASE row.status # "settled"
  <2>1. [row EXCEPT !.status = "settled", !.settled = settled] \in Reservation
    BY <1>1 DEF Reservation, Statuses
  <2>2. reservation' \in [Identifiers -> Reservation \cup {None}]
    BY <2>1, <1>3 DEF StoreTypeOK, reconcile
  <2>3. PICK day : day = [spent |-> usage[row.agent][row.day].spent + settled,
                          reserved |-> usage[row.agent][row.day].reserved - row.amount]
    OBVIOUS
  <2>4. row.agent \in Agents /\ row.day \in Days /\ row.amount \in Nat
    BY <1>1 DEF Reservation
  <2>5. usage[row.agent][row.day].spent \in Nat /\ usage[row.agent][row.day].reserved \in Int
    BY <2>4, UsageNumbers
  <2>6. /\ usage' = [usage EXCEPT ![row.agent] = [usage[row.agent] EXCEPT ![row.day] = day]]
        /\ today' = today
    BY <1>3, <2>3, <2>4 DEF StoreTypeOK, reconcile
  <2>7. day \in [spent: Nat, reserved: Int]
    BY <2>3, <2>4, <2>5
  <2>8. "otheramount" \in Hazards \/ day.spent + day.reserved <= DayMax
    BY <2>3, <2>4, <2>5, BudgetAssumption DEF Limited, LimitKept
  <2>9. QED
    BY <2>2, <2>4, <2>6, <2>7, <2>8 DEF StoreTypeOK, Limited, LimitKept
<1>4. QED
  BY <1>2, <1>3

LEMMA ReleaseKeeps ==
  ASSUME StoreTypeOK, Limited, NEW i \in Identifiers, reservation[i] # None, release(i)
  PROVE  StoreTypeOK' /\ Limited'
<1> DEFINE row == reservation[i]
<1>1. row \in Reservation
  BY DEF StoreTypeOK
<1>2. CASE row.status = "released"
  BY <1>2 DEF release, StoreTypeOK, Limited, LimitKept
<1>3. CASE row.status # "released"
  <2>1. [row EXCEPT !.status = "released"] \in Reservation
    BY <1>1 DEF Reservation, Statuses
  <2>2. reservation' \in [Identifiers -> Reservation \cup {None}]
    BY <2>1, <1>3 DEF StoreTypeOK, release
  <2>3. PICK day : day = [usage[row.agent][row.day] EXCEPT
                            !.reserved = usage[row.agent][row.day].reserved - row.amount]
    OBVIOUS
  <2>4. row.agent \in Agents /\ row.day \in Days /\ row.amount \in Nat
    BY <1>1 DEF Reservation
  <2>5. usage[row.agent][row.day] \in [spent: Nat, reserved: Int]
    BY <2>4 DEF StoreTypeOK
  <2>6. /\ usage' = [usage EXCEPT ![row.agent] = [usage[row.agent] EXCEPT ![row.day] = day]]
        /\ today' = today
    BY <1>3, <2>3, <2>4 DEF StoreTypeOK, release
  <2>7. day \in [spent: Nat, reserved: Int]
    BY <2>3, <2>4, <2>5
  <2>8. "otheramount" \in Hazards \/ day.spent + day.reserved <= DayMax
    BY <2>3, <2>4, <2>5, BudgetAssumption DEF Limited, LimitKept
  <2>9. QED
    BY <2>2, <2>4, <2>6, <2>7, <2>8 DEF StoreTypeOK, Limited, LimitKept
<1>4. QED
  BY <1>2, <1>3

LEMMA MarkUnknownKeeps ==
  ASSUME StoreTypeOK, Limited, NEW i \in Identifiers, reservation[i] # None, markUnknown(i)
  PROVE  StoreTypeOK' /\ Limited'
<1>1. [reservation[i] EXCEPT !.status = "unknown"] \in Reservation
  BY DEF StoreTypeOK, Reservation, Statuses
<1>2. QED
  BY <1>1 DEF StoreTypeOK, Limited, LimitKept, markUnknown

-----------------------------------------------------------------------------
(* The invocations: where a step leads, and what it leaves alone. *)

LEMMA InitInv == Init => Inv
<1> SUFFICES ASSUME Init PROVE Inv
  OBVIOUS
<1>1. StoreTypeOK /\ Limited
  BY BudgetAssumption DEF Init, BudgetInit, StoreTypeOK, Limited, LimitKept, Days
<1>2. TypeOK
  BY <1>1, CallAssumption DEF TypeOK, Init, Fresh, Invocation, Schemes
<1>3. Staged /\ Priced
  BY DEF Staged, Priced, Init, BudgetInit, Fresh, Live, Holding
<1>4. QED
  BY <1>1, <1>2, <1>3 DEF Inv

\* What another invocation's step does not touch.
Untouched(j) ==
  inv'[j] = inv[j] /\ auth'[j] = auth[j] /\ reservation'[j] = reservation[j]

StagedOf(i) ==
  /\ Live(i) => inv[i].agent \in Agents
  /\ inv[i].pc \in {"idle", "reserve"} => reservation[i] = None
  /\ inv[i].pc \in Holding => reservation[i] # None /\ reservation[i].status = "reserved"
  /\ inv[i].pc \in {"idle", "reserve", "sign"} => auth[i] = "none"
  /\ inv[i].pc \in {"paid_call", "unknown", "settle"} => inv[i].scheme = "exact"

PricedOf(i) ==
  /\ reservation[i] # None => reservation[i].amount = inv[i].amount
  /\ Live(i) /\ inv[i].scheme = "exact" => inv[i].amount = inv[i].price
  /\ auth[i] # "none" => reservation[i] # None /\ inv[i].amount = inv[i].price

\* The invariant holds after a step of one invocation if it does for that one.
LEMMA OthersKept ==
  ASSUME Inv, NEW i \in Identifiers,
         \A j \in Identifiers \ {i} : Untouched(j),
         StagedOf(i)', PricedOf(i)'
  PROVE  Staged' /\ Priced'
<1>1. ASSUME NEW j \in Identifiers \ {i}  PROVE StagedOf(j)' /\ PricedOf(j)'
  BY <1>1 DEF Inv, Staged, Priced, StagedOf, PricedOf, Untouched, Live
<1>2. \A j \in Identifiers : StagedOf(j)' /\ PricedOf(j)'
  BY <1>1
<1>3. QED
  BY <1>2 DEF Staged, Priced, StagedOf, PricedOf, Live

\* A step that moves the program counter of one invocation only.
LEMMA GotoTyped ==
  ASSUME TypeOK, NEW i \in Identifiers, NEW pc, Goto(i, pc),
         pc \in {"idle", "reserve", "sign", "paid_call", "release", "unknown", "settle", "done"}
  PROVE  /\ inv' \in [Identifiers -> Invocation]
         /\ inv'[i] = [inv[i] EXCEPT !.pc = pc]
         /\ \A j \in Identifiers \ {i} : inv'[j] = inv[j]
<1>1. [inv[i] EXCEPT !.pc = pc] \in Invocation
  BY DEF TypeOK, Invocation
<1>2. QED
  BY <1>1 DEF TypeOK, Goto


-----------------------------------------------------------------------------
(* One lemma for each kind of step. *)

\* Steps that leave the store and the authorizations alone.
Moves(i) ==
  /\ \/ BudgetExceeded(i) \/ NoSigner(i) \/ SignFails(i) \/ NoAnswer(i) \/ Rejected(i)
     \/ Settled(i) \/ Crash(i)

LEMMA MovesKeep ==
  ASSUME Inv, NEW i \in Identifiers, Moves(i)
  PROVE  Inv'
<1>1. PICK pc \in {"release", "unknown", "settle", "done"} :
        /\ Goto(i, pc)
        /\ pc = "done" \/ inv[i].pc \in Holding
        /\ pc \in {"unknown", "settle"} => inv[i].pc = "paid_call"
  BY DEF Moves, BudgetExceeded, NoSigner, SignFails, NoAnswer, Rejected, Settled, Crash,
         Holding, At
<1>2. /\ UNCHANGED <<reservation, usage, today, auth>>
      /\ crashes' \in 0 .. MaxCrashes
      /\ Live(i)
  BY CallAssumption DEF Moves, BudgetExceeded, NoSigner, SignFails, NoAnswer, Rejected, Settled,
         Crash, At, Live, budgetVars, Inv, TypeOK
<1>3. /\ inv' \in [Identifiers -> Invocation]
      /\ inv'[i] = [inv[i] EXCEPT !.pc = pc]
      /\ \A j \in Identifiers \ {i} : inv'[j] = inv[j]
  BY <1>1, GotoTyped DEF Inv
<1>4. TypeOK' /\ Limited'
  BY <1>2, <1>3 DEF Inv, TypeOK, StoreTypeOK, Limited, LimitKept
<1>5. inv[i] \in Invocation
  BY DEF Inv, TypeOK
<1>6. StagedOf(i)' /\ PricedOf(i)'
  BY <1>1, <1>2, <1>3, <1>5 DEF Inv, Staged, Priced, StagedOf, PricedOf, Live, Holding, Invocation
<1>7. \A j \in Identifiers \ {i} : Untouched(j)
  BY <1>2, <1>3 DEF Untouched
<1>8. QED
  BY <1>4, <1>6, <1>7, OthersKept DEF Inv

LEMMA AffordKeeps ==
  ASSUME Inv, NEW i \in Identifiers, NEW a \in Agents, NEW price \in Prices,
         NEW scheme \in Schemes, Afford(i, a, price, scheme)
  PROVE  Inv'
<1> DEFINE amount == IF scheme = "exact" THEN price ELSE EffectiveCap(a, price)
           next == [pc |-> "reserve", agent |-> a, price |-> price, scheme |-> scheme,
                    amount |-> amount]
<1>1. amount \in Nat
  BY CapTyped, CallAssumption DEF Inv
<1>2. next \in Invocation
  BY <1>1, CallAssumption DEF Invocation
<1>3. /\ inv' = [inv EXCEPT ![i] = next]
      /\ UNCHANGED <<reservation, usage, today, auth, crashes>>
      /\ inv[i].pc = "idle"
  BY DEF Afford, budgetVars, At
<1> HIDE DEF amount
<1>4. TypeOK' /\ Limited'
  BY <1>2, <1>3 DEF Inv, TypeOK, StoreTypeOK, Limited, LimitKept
<1>5. inv'[i] = next
  BY <1>3 DEF Inv, TypeOK
<1>6. scheme = "exact" => amount = price
  BY DEF amount
<1>7. StagedOf(i)' /\ PricedOf(i)'
  BY <1>3, <1>5, <1>6 DEF Inv, Staged, Priced, StagedOf, PricedOf, Live, Holding
<1>8. \A j \in Identifiers \ {i} : Untouched(j)
  BY <1>3 DEF Untouched, Inv, TypeOK
<1>9. QED
  BY <1>4, <1>7, <1>8, OthersKept DEF Inv

LEMMA ReserveStepKeeps ==
  ASSUME Inv, NEW i \in Identifiers, Reserve(i)
  PROVE  Inv'
<1>1. /\ reserve(i, inv[i].agent, inv[i].amount) /\ Goto(i, "sign")
      /\ UNCHANGED <<auth, crashes>> /\ inv[i].pc = "reserve"
  BY DEF Reserve, At
<1>2. inv[i].agent \in Agents /\ inv[i].amount \in Nat /\ inv[i] \in Invocation
  BY <1>1 DEF Inv, Staged, TypeOK, Invocation, Live
<1>3. StoreTypeOK' /\ Limited'
  BY <1>1, <1>2, ReserveKeeps DEF Inv, TypeOK
<1>4. /\ inv' \in [Identifiers -> Invocation]
      /\ inv'[i] = [inv[i] EXCEPT !.pc = "sign"]
      /\ \A j \in Identifiers \ {i} : inv'[j] = inv[j]
  BY <1>1, GotoTyped DEF Inv
<1>5. TypeOK'
  BY <1>1, <1>3, <1>4 DEF Inv, TypeOK
<1>6. /\ reservation'[i] = [agent |-> inv[i].agent, day |-> today, amount |-> inv[i].amount,
                            settled |-> 0, status |-> "reserved"]
      /\ \A j \in Identifiers \ {i} : reservation'[j] = reservation[j]
  BY <1>1 DEF reserve, Inv, TypeOK, StoreTypeOK
<1>7. reservation'[i] # None
  <2>1. reservation'[i] \in Reservation
    BY <1>2, <1>6 DEF Inv, TypeOK, StoreTypeOK, Reservation, Statuses
  <2>2. QED
    BY <2>1, NoReservationAssumption
<1>8. StagedOf(i)' /\ PricedOf(i)'
  BY <1>1, <1>2, <1>4, <1>6, <1>7
     DEF Inv, Staged, Priced, StagedOf, PricedOf, Live, Holding, Invocation
<1>9. \A j \in Identifiers \ {i} : Untouched(j)
  BY <1>1, <1>4, <1>6 DEF Untouched
<1>10. QED
  BY <1>3, <1>5, <1>8, <1>9, OthersKept DEF Inv

LEMMA SignKeeps ==
  ASSUME Inv, NEW i \in Identifiers, Sign(i)
  PROVE  Inv'
<1>1. /\ inv[i].pc = "sign" /\ inv[i].scheme = "exact" /\ Goto(i, "paid_call")
      /\ auth' = [auth EXCEPT ![i] = "signed"]
      /\ UNCHANGED <<reservation, usage, today, crashes>>
  BY DEF Sign, At, budgetVars
<1>2. inv[i] \in Invocation
  BY DEF Inv, TypeOK
<1>3. /\ inv' \in [Identifiers -> Invocation]
      /\ inv'[i] = [inv[i] EXCEPT !.pc = "paid_call"]
      /\ \A j \in Identifiers \ {i} : inv'[j] = inv[j]
  BY <1>1, GotoTyped DEF Inv
<1>4. TypeOK' /\ Limited'
  BY <1>1, <1>3 DEF Inv, TypeOK, StoreTypeOK, Limited, LimitKept
<1>5. StagedOf(i)' /\ PricedOf(i)'
  BY <1>1, <1>2, <1>3 DEF Inv, Staged, Priced, StagedOf, PricedOf, Live, Holding, Invocation
<1>6. \A j \in Identifiers \ {i} : Untouched(j)
  BY <1>1, <1>3 DEF Untouched, Inv, TypeOK
<1>7. QED
  BY <1>4, <1>5, <1>6, OthersKept DEF Inv

\* What release, markUnknown and reconcile do to the reservation of their call.
LEMMA EndsKeep ==
  ASSUME Inv, NEW i \in Identifiers, Release(i) \/ MarkUnknown(i) \/ Reconcile(i)
  PROVE  Inv'
<1>1. /\ inv[i].pc \in {"release", "unknown", "settle"} /\ Goto(i, "done")
      /\ UNCHANGED <<auth, crashes, today>>
  BY DEF Release, MarkUnknown, Reconcile, At, release, markUnknown, reconcile
<1>2. inv[i] \in Invocation
  BY DEF Inv, TypeOK
<1>3. reservation[i] # None /\ reservation[i] \in Reservation
  BY <1>1 DEF Inv, Staged, Holding, TypeOK, StoreTypeOK
<1>4. /\ At(i, "settle") => reservation[i].amount = inv[i].price
      /\ \A settled \in Reported(i) :
           /\ settled \in Nat
           /\ "otheramount" \in Hazards \/ settled = inv[i].price
  BY <1>2, <1>3, CallAssumption DEF Inv, Staged, Priced, At, Live, Reported, Invocation
<1>5. StoreTypeOK' /\ Limited'
  <2>1. CASE Release(i)
    BY <2>1, <1>3, ReleaseKeeps DEF Release, Inv, TypeOK
  <2>2. CASE MarkUnknown(i)
    BY <2>2, <1>3, MarkUnknownKeeps DEF MarkUnknown, Inv, TypeOK
  <2>3. CASE Reconcile(i)
    BY <2>3, <1>3, <1>4, ReconcileKeeps DEF Reconcile, Inv, TypeOK
  <2>4. QED
    BY <2>1, <2>2, <2>3
<1>6. /\ inv' \in [Identifiers -> Invocation]
      /\ inv'[i] = [inv[i] EXCEPT !.pc = "done"]
      /\ \A j \in Identifiers \ {i} : inv'[j] = inv[j]
  BY <1>1, GotoTyped DEF Inv
<1>7. TypeOK'
  BY <1>1, <1>5, <1>6 DEF Inv, TypeOK
<1>8. /\ reservation'[i].amount = reservation[i].amount
      /\ \A j \in Identifiers \ {i} : reservation'[j] = reservation[j]
  <2>1. CASE Release(i)
    BY <2>1, <1>3 DEF Release, release, Inv, TypeOK, StoreTypeOK, Reservation
  <2>2. CASE MarkUnknown(i)
    BY <2>2, <1>3 DEF MarkUnknown, markUnknown, Inv, TypeOK, StoreTypeOK, Reservation
  <2>3. CASE Reconcile(i)
    BY <2>3, <1>3 DEF Reconcile, reconcile, Inv, TypeOK, StoreTypeOK, Reservation
  <2>4. QED
    BY <2>1, <2>2, <2>3
<1>9. reservation'[i] # None
  <2>1. CASE Release(i)
    <3>1. [reservation[i] EXCEPT !.status = "released"] \in Reservation
      BY <1>3 DEF Reservation, Statuses
    <3>2. QED
      BY <2>1, <3>1, <1>3, NoReservationAssumption
         DEF Release, release, Inv, TypeOK, StoreTypeOK
  <2>2. CASE MarkUnknown(i)
    <3>1. [reservation[i] EXCEPT !.status = "unknown"] \in Reservation
      BY <1>3 DEF Reservation, Statuses
    <3>2. QED
      BY <2>2, <3>1, <1>3, NoReservationAssumption
         DEF MarkUnknown, markUnknown, Inv, TypeOK, StoreTypeOK
  <2>3. CASE Reconcile(i)
    <3>1. PICK settled \in Reported(i) : reconcile(i, settled)
      BY <2>3 DEF Reconcile
    <3>2. [reservation[i] EXCEPT !.status = "settled", !.settled = settled] \in Reservation
      BY <1>3, <1>4 DEF Reservation, Statuses
    <3>3. reservation'[i] \in
            {reservation[i], [reservation[i] EXCEPT !.status = "settled", !.settled = settled]}
      BY <3>1 DEF reconcile, Inv, TypeOK, StoreTypeOK
    <3>4. QED
      BY <3>2, <3>3, <1>3, NoReservationAssumption
  <2>4. QED
    BY <2>1, <2>2, <2>3
<1>10. StagedOf(i)' /\ PricedOf(i)'
  BY <1>1, <1>2, <1>6, <1>8, <1>9
     DEF Inv, Staged, Priced, StagedOf, PricedOf, Live, Holding, Invocation
<1>11. \A j \in Identifiers \ {i} : Untouched(j)
  BY <1>1, <1>6, <1>8 DEF Untouched
<1>12. QED
  BY <1>5, <1>7, <1>10, <1>11, OthersKept DEF Inv

LEMMA OutsideKeeps ==
  ASSUME Inv, NEW i \in Identifiers, Pay(i) \/ Void(i)
  PROVE  Inv'
<1>1. /\ auth[i] = "signed"
      /\ \E result \in {"paid", "void"} : auth' = [auth EXCEPT ![i] = result]
      /\ UNCHANGED <<reservation, usage, today, inv, crashes>>
  BY DEF Pay, Void, budgetVars
<1>2. TypeOK' /\ Limited'
  BY <1>1 DEF Inv, TypeOK, StoreTypeOK, Limited, LimitKept
<1>3. StagedOf(i)' /\ PricedOf(i)'
  BY <1>1 DEF Inv, Staged, Priced, StagedOf, PricedOf, Live, Holding
<1>4. \A j \in Identifiers \ {i} : Untouched(j)
  BY <1>1 DEF Untouched, Inv, TypeOK
<1>5. QED
  BY <1>2, <1>3, <1>4, OthersKept DEF Inv

LEMMA MidnightKeeps ==
  ASSUME Inv, Midnight
  PROVE  Inv'
BY BudgetAssumption DEF Midnight, NextDay, Inv, TypeOK, StoreTypeOK, Limited, LimitKept, Days, Staged, Priced,
                        Live, Holding

LEMMA InvStep ==
  ASSUME Inv, [Next]_vars
  PROVE  Inv'
<1>1. CASE UNCHANGED vars
  BY <1>1 DEF vars, Inv, TypeOK, StoreTypeOK, Limited, LimitKept, Staged, Priced, Live
<1>2. ASSUME NEW i \in Identifiers, NEW a \in Agents, NEW price \in Prices,
             NEW scheme \in Schemes, Afford(i, a, price, scheme)
      PROVE  Inv'
  BY <1>2, AffordKeeps
<1>3. ASSUME NEW i \in Identifiers, Proceed(i) \/ Crash(i) \/ Pay(i) \/ Void(i)
      PROVE  Inv'
  BY <1>3, MovesKeep, ReserveStepKeeps, SignKeeps, EndsKeep, OutsideKeeps DEF Proceed, Moves
<1>4. CASE Midnight
  BY <1>4, MidnightKeeps
<1>5. QED
  BY <1>1, <1>2, <1>3, <1>4 DEF Next

\* The inductive invariant holds in every state, whatever sellers report.
THEOREM InvAlways == Spec => []Inv
<1>1. QED
  BY InitInv, InvStep, PTL DEF Spec

\* Reservations, usage, invocations and authorizations are of their types, whatever
\* sellers report.
THEOREM TypeCorrect == Spec => []TypeOK
<1>1. Inv => TypeOK
  BY DEF Inv
<1>2. QED
  BY <1>1, InvAlways, PTL

\* Where sellers report the amounts that were accepted, what an agent has spent and
\* reserved on a day never exceeds the day's limit, however invocations, crashes and
\* midnight interleave.
THEOREM LimitRespected ==
  ASSUME "otheramount" \notin Hazards
  PROVE  Spec => []LimitKept
<1>1. Inv => LimitKept
  BY DEF Inv, Limited
<1>2. QED
  BY <1>1, InvAlways, PTL

-----------------------------------------------------------------------------
(* Sellers that report failures only where they are sure. *)

FreedOf(i) ==
  /\ At(i, "release") => auth[i] \in {"none", "void"}
  /\ reservation[i] # None /\ reservation[i].status = "released" => auth[i] \in {"none", "void"}

LEMMA FreedStep ==
  ASSUME "inconclusive" \notin Hazards, Inv, Freed, [Next]_vars
  PROVE  Freed'
<1> SUFFICES ASSUME NEW j \in Identifiers PROVE FreedOf(j)'
  BY DEF Freed, FreedOf, At
<1>1. FreedOf(j)
  BY DEF Freed, FreedOf
<1>2. ASSUME Untouched(j)  PROVE FreedOf(j)'
  BY <1>1, <1>2 DEF FreedOf, Untouched, At
<1>3. CASE UNCHANGED vars \/ Midnight
  BY <1>2, <1>3 DEF vars, Midnight, NextDay, Untouched
<1>4. ASSUME NEW i \in Identifiers, NEW a \in Agents, NEW price \in Prices,
             NEW scheme \in Schemes, Afford(i, a, price, scheme)
      PROVE  FreedOf(j)'
  <2>1. CASE i = j
    BY <1>4, <2>1 DEF Afford, budgetVars, FreedOf, At, Inv, Staged, TypeOK
  <2>2. CASE i # j
    BY <1>2, <1>4, <2>2 DEF Afford, budgetVars, Untouched, Inv, TypeOK
  <2>3. QED
    BY <2>1, <2>2
<1>5. ASSUME NEW i \in Identifiers, Moves(i)
      PROVE  FreedOf(j)'
  <2>1. UNCHANGED <<reservation, auth>> /\ \E pc : Goto(i, pc)
    BY <1>5 DEF Moves, BudgetExceeded, NoSigner, SignFails, NoAnswer, Rejected, Settled, Crash,
                budgetVars
  <2>2. CASE i # j
    BY <1>2, <2>1, <2>2 DEF Goto, Untouched, Inv, TypeOK
  <2>3. CASE i = j /\ (SignFails(i) \/ Rejected(i))
    BY <1>1, <2>1, <2>3 DEF SignFails, Rejected, FreedOf, At, Inv, Staged
  <2>4. CASE i = j /\ ~(SignFails(i) \/ Rejected(i))
    <3>1. \E pc \in {"unknown", "settle", "done"} : Goto(i, pc)
      BY <1>5, <2>4 DEF Moves, BudgetExceeded, NoSigner, NoAnswer, Settled, Crash
    <3>2. inv'[j].pc # "release"
      BY <2>4, <3>1 DEF Goto, Inv, TypeOK, Invocation
    <3>3. QED
      BY <1>1, <2>1, <3>2 DEF FreedOf, At
  <2>5. QED
    BY <2>2, <2>3, <2>4
<1>6. ASSUME NEW i \in Identifiers,
             Reserve(i) \/ Sign(i) \/ Release(i) \/ MarkUnknown(i) \/ Reconcile(i)
      PROVE  FreedOf(j)'
  <2>1. CASE i # j
    BY <1>2, <1>6, <2>1 DEF Reserve, reserve, Sign, Release, release, MarkUnknown, markUnknown,
       Reconcile, reconcile, budgetVars, Goto, Untouched, Inv, TypeOK, StoreTypeOK
  <2>2. CASE i = j /\ Release(i)
    BY <1>1, <2>2 DEF FreedOf, Release, Goto, At, Inv, TypeOK, Invocation
  <2>3. CASE i = j /\ Reserve(i)
    BY <2>3 DEF FreedOf, Reserve, reserve, Goto, At, Inv, TypeOK, StoreTypeOK, Staged, Invocation
  <2>4. CASE i = j /\ Sign(i)
    BY <2>4 DEF FreedOf, Sign, budgetVars, Goto, At, Inv, TypeOK, StoreTypeOK, Staged, Holding,
                Invocation
  <2>5. CASE i = j /\ MarkUnknown(i)
    BY <2>5 DEF FreedOf, MarkUnknown, markUnknown, Goto, At, Inv, TypeOK, StoreTypeOK, Staged,
                Holding, Reservation, Invocation
  <2>6. CASE i = j /\ Reconcile(i)
    BY <2>6 DEF FreedOf, Reconcile, reconcile, Goto, At, Inv, TypeOK, StoreTypeOK, Staged,
                Holding, Reservation, Invocation
  <2>7. QED
    BY <1>6, <2>1, <2>2, <2>3, <2>4, <2>5, <2>6
<1>7. ASSUME NEW i \in Identifiers, Pay(i) \/ Void(i)
      PROVE  FreedOf(j)'
  BY <1>1, <1>7 DEF FreedOf, Pay, Void, budgetVars, At, Inv, TypeOK
<1>8. QED
  BY <1>3, <1>4, <1>5, <1>6, <1>7 DEF Next, Proceed, Moves

\* Where reported failures are conclusive, every authorization that may be paid or
\* has been paid is backed by a reservation of its price that nobody released.
THEOREM AlwaysCovered ==
  ASSUME "inconclusive" \notin Hazards
  PROVE  Spec => []Covered
<1>1. Init => Freed
  BY DEF Init, BudgetInit, Fresh, Freed, At
<1>2. Inv /\ Freed /\ [Next]_vars => Freed'
  BY FreedStep
<1>3. Inv /\ Freed => Covered
  BY DEF Inv, TypeOK, Priced, Freed, Covered
<1>4. QED
  BY <1>1, <1>2, <1>3, InvAlways, PTL DEF Spec

-----------------------------------------------------------------------------
(* The books balance. *)

HeldPart(i, a, d) ==
  IF i \in Booked(a, d, {"reserved", "unknown"}) THEN reservation[i].amount ELSE 0
PaidPart(i, a, d) == IF i \in Booked(a, d, {"settled"}) THEN reservation[i].settled ELSE 0

\* What is booked under others than i is the same before and after a step on i's row.
LEMMA OthersBooked ==
  ASSUME StoreTypeOK, StoreTypeOK', IsFiniteSet({j \in Identifiers : reservation[j] # None}),
         NEW i \in Identifiers, \A j \in Identifiers \ {i} : reservation'[j] = reservation[j],
         NEW a \in Agents, NEW d \in Days
  PROVE  \E n \in Nat, m \in Nat :
           /\ SumFunction([j \in Booked(a, d, {"reserved", "unknown"}) |-> reservation[j].amount])
                = HeldPart(i, a, d) + n
           /\ SumFunction([j \in Booked(a, d, {"reserved", "unknown"}) |-> reservation[j].amount])'
                = HeldPart(i, a, d)' + n
           /\ SumFunction([j \in Booked(a, d, {"settled"}) |-> reservation[j].settled])
                = PaidPart(i, a, d) + m
           /\ SumFunction([j \in Booked(a, d, {"settled"}) |-> reservation[j].settled])'
                = PaidPart(i, a, d)' + m
<1>1. ASSUME NEW st
      PROVE  /\ Booked(a, d, st)' \ {i} = Booked(a, d, st) \ {i}
             /\ IsFiniteSet(Booked(a, d, st) \ {i})
             /\ \A j \in Booked(a, d, st) : reservation[j].amount \in Nat /\ reservation[j].settled \in Nat
             /\ \A j \in Booked(a, d, st)' :
                  reservation'[j].amount \in Nat /\ reservation'[j].settled \in Nat
  <2>1. Booked(a, d, st)' \ {i} = Booked(a, d, st) \ {i}
    BY DEF Booked
  <2>2. Booked(a, d, st) \ {i} \subseteq {j \in Identifiers : reservation[j] # None}
    BY DEF Booked
  <2>3. IsFiniteSet(Booked(a, d, st) \ {i})
    BY <2>2, FS_Subset
  <2>4. QED
    BY <2>1, <2>3 DEF Booked, StoreTypeOK, Reservation
<1> DEFINE held == Booked(a, d, {"reserved", "unknown"})
           paid == Booked(a, d, {"settled"})
           heldNow == [j \in held |-> reservation[j].amount]
           paidNow == [j \in paid |-> reservation[j].settled]
           heldThen == [j \in held' |-> reservation'[j].amount]
           paidThen == [j \in paid' |-> reservation'[j].settled]
<1>2. /\ held \subseteq Identifiers /\ paid \subseteq Identifiers
      /\ held' \subseteq Identifiers /\ paid' \subseteq Identifiers
  BY DEF Booked
<1>3. /\ held' \ {i} = held \ {i} /\ paid' \ {i} = paid \ {i}
      /\ IsFiniteSet(held \ {i}) /\ IsFiniteSet(paid \ {i})
      /\ \A j \in held : reservation[j].amount \in Nat
      /\ \A j \in paid : reservation[j].settled \in Nat
      /\ \A j \in held' : reservation'[j].amount \in Nat
      /\ \A j \in paid' : reservation'[j].settled \in Nat
  BY <1>1
<1> HIDE DEF held, paid
<1>4. AgreeBut(i, heldNow, held, heldThen, held') /\ AgreeBut(i, paidNow, paid, paidThen, paid')
  BY <1>2, <1>3 DEF AgreeBut
<1>5. /\ i \in held => heldNow[i] = reservation[i].amount
      /\ i \in paid => paidNow[i] = reservation[i].settled
      /\ i \in held' => heldThen[i] = reservation'[i].amount
      /\ i \in paid' => paidThen[i] = reservation'[i].settled
  OBVIOUS
<1> HIDE DEF heldNow, paidNow, heldThen, paidThen
<1>6. PICK n \in Nat : /\ SumFunction(heldNow) = (IF i \in held THEN heldNow[i] ELSE 0) + n
                       /\ SumFunction(heldThen) = (IF i \in held' THEN heldThen[i] ELSE 0) + n
  BY <1>4, SumsApart
<1>7. PICK m \in Nat : /\ SumFunction(paidNow) = (IF i \in paid THEN paidNow[i] ELSE 0) + m
                       /\ SumFunction(paidThen) = (IF i \in paid' THEN paidThen[i] ELSE 0) + m
  BY <1>4, SumsApart
<1>8. /\ SumFunction(heldNow) = HeldPart(i, a, d) + n
      /\ SumFunction(heldThen) = HeldPart(i, a, d)' + n
      /\ SumFunction(paidNow) = PaidPart(i, a, d) + m
      /\ SumFunction(paidThen) = PaidPart(i, a, d)' + m
  BY <1>5, <1>6, <1>7 DEF HeldPart, PaidPart, held, paid
<1>9. QED
  BY <1>8 DEF heldNow, paidNow, heldThen, paidThen, held, paid


\* The books balance after a step on i's row that books what it changes.
LEMMA Rebooked ==
  ASSUME Booking, StoreTypeOK, StoreTypeOK', NEW i \in Identifiers,
         \A j \in Identifiers \ {i} : reservation'[j] = reservation[j],
         \A a \in Agents, d \in Days :
           /\ usage'[a][d].reserved + HeldPart(i, a, d)
                = usage[a][d].reserved + HeldPart(i, a, d)'
           /\ usage'[a][d].spent + PaidPart(i, a, d)
                = usage[a][d].spent + PaidPart(i, a, d)'
  PROVE  Booking'
<1> DEFINE recorded == {j \in Identifiers : reservation[j] # None}
<1>1. IsFiniteSet(recorded)
  BY DEF Booking
<1>2. IsFiniteSet(recorded')
  <2>1. IsFiniteSet(recorded \cup {i})
    BY <1>1, FS_AddElement
  <2>2. recorded' \subseteq recorded \cup {i}
    OBVIOUS
  <2>3. QED
    BY <2>1, <2>2, FS_Subset
<1>3. ASSUME NEW a \in Agents, NEW d \in Days
      PROVE  /\ usage'[a][d].reserved
                  = SumFunction([j \in Booked(a, d, {"reserved", "unknown"}) |-> reservation[j].amount])'
             /\ usage'[a][d].spent
                  = SumFunction([j \in Booked(a, d, {"settled"}) |-> reservation[j].settled])'
  <2>1. /\ HeldPart(i, a, d) \in Nat /\ PaidPart(i, a, d) \in Nat
        /\ HeldPart(i, a, d)' \in Nat /\ PaidPart(i, a, d)' \in Nat
    BY DEF HeldPart, PaidPart, Booked, StoreTypeOK, Reservation
  <2>2. /\ usage[a][d].reserved \in Int /\ usage[a][d].spent \in Nat
        /\ usage'[a][d].reserved \in Int /\ usage'[a][d].spent \in Nat
    BY DEF StoreTypeOK
  <2> DEFINE held == SumFunction([j \in Booked(a, d, {"reserved", "unknown"}) |-> reservation[j].amount])
             paid == SumFunction([j \in Booked(a, d, {"settled"}) |-> reservation[j].settled])
  <2>3. usage[a][d].reserved = held /\ usage[a][d].spent = paid
    BY DEF Booking, BooksBalance
  <2>4. PICK n \in Nat, m \in Nat :
          /\ held = HeldPart(i, a, d) + n /\ held' = HeldPart(i, a, d)' + n
          /\ paid = PaidPart(i, a, d) + m /\ paid' = PaidPart(i, a, d)' + m
    BY <1>1, OthersBooked
  <2> HIDE DEF held, paid
  <2>5. usage'[a][d].reserved = held' /\ usage'[a][d].spent = paid'
    BY <2>1, <2>2, <2>3, <2>4
  <2>6. QED
    BY <2>5 DEF held, paid
<1>4. QED
  BY <1>2, <1>3 DEF Booking, BooksBalance

\* A step that leaves reservations and usage alone.
LEMMA BooksUntouched ==
  ASSUME Booking, UNCHANGED <<reservation, usage>>
  PROVE  Booking'
<1>1. \A a, d, st : Booked(a, d, st)' = Booked(a, d, st)
  BY DEF Booked
<1>2. QED
  BY <1>1 DEF Booking, BooksBalance

LEMMA ReserveBooks ==
  ASSUME Inv, Inv', Booking, NEW i \in Identifiers, Reserve(i)
  PROVE  Booking'
<1> DEFINE b == inv[i].agent
           n == inv[i].amount
<1>1. b \in Agents /\ n \in Nat /\ today \in Days
  BY DEF Reserve, At, Live, Inv, Staged, TypeOK, StoreTypeOK, Invocation
<1>2. /\ reservation[i] = None
      /\ reservation' = [reservation EXCEPT ![i] =
           [agent |-> b, day |-> today, amount |-> n, settled |-> 0, status |-> "reserved"]]
      /\ usage' = [usage EXCEPT ![b][today].reserved = usage[b][today].reserved + n]
  BY DEF Reserve, reserve
<1> HIDE DEF b, n
<1>3. reservation'[i] = [agent |-> b, day |-> today, amount |-> n, settled |-> 0, status |-> "reserved"]
  BY <1>2 DEF Inv, TypeOK, StoreTypeOK
<1>4. \A j \in Identifiers \ {i} : reservation'[j] = reservation[j]
  BY <1>2 DEF Inv, TypeOK, StoreTypeOK
<1>5. reservation'[i] # None
  <2>1. reservation'[i] \in Reservation
    BY <1>1, <1>3 DEF Reservation, Statuses
  <2>2. QED
    BY <2>1, NoReservationAssumption
<1>6. ASSUME NEW a \in Agents, NEW d \in Days
      PROVE  /\ usage'[a][d].reserved + HeldPart(i, a, d) = usage[a][d].reserved + HeldPart(i, a, d)'
             /\ usage'[a][d].spent + PaidPart(i, a, d) = usage[a][d].spent + PaidPart(i, a, d)'
  <2>1. usage[a][d] \in [spent: Nat, reserved: Int]
    BY DEF Inv, TypeOK, StoreTypeOK
  <2>2. /\ HeldPart(i, a, d) = 0 /\ PaidPart(i, a, d) = 0 /\ PaidPart(i, a, d)' = 0
        /\ HeldPart(i, a, d)' = IF a = b /\ d = today THEN n ELSE 0
    BY <1>2, <1>3, <1>5 DEF HeldPart, PaidPart, Booked
  <2>3. CASE a = b /\ d = today
    <3>1. usage'[a][d] = [usage[a][d] EXCEPT !.reserved = usage[a][d].reserved + n]
      BY <1>1, <1>2, <2>3 DEF Inv, TypeOK, StoreTypeOK
    <3>2. usage'[a][d].reserved = usage[a][d].reserved + n /\ usage'[a][d].spent = usage[a][d].spent
      BY <2>1, <3>1
    <3>3. QED
      BY <1>1, <2>1, <2>2, <2>3, <3>2
  <2>4. CASE ~(a = b /\ d = today)
    <3>1. usage'[a][d] = usage[a][d]
      BY <1>1, <1>2, <2>4 DEF Inv, TypeOK, StoreTypeOK
    <3>2. QED
      BY <2>2, <2>4, <3>1
  <2>5. QED
    BY <2>3, <2>4
<1>7. QED
  BY <1>4, <1>6, Rebooked DEF Inv, TypeOK

\* The reservation that an invocation holds, when it leaves "reserved".
LEMMA EndBooks ==
  ASSUME Inv, Inv', Booking, NEW i \in Identifiers, Release(i) \/ MarkUnknown(i) \/ Reconcile(i)
  PROVE  Booking'
<1> DEFINE row == reservation[i]
<1>1. row \in Reservation /\ row.status = "reserved"
  BY DEF Release, MarkUnknown, Reconcile, At, Inv, Staged, Holding, TypeOK, StoreTypeOK
<1>2. PICK status \in {"unknown", "settled", "released"}, settled \in Nat :
        /\ reservation' = [reservation EXCEPT ![i].status = status, ![i].settled = settled]
        /\ IF status = "unknown"
           THEN usage' = usage
           ELSE usage' = [usage EXCEPT ![row.agent][row.day] =
                  [spent |-> usage[row.agent][row.day].spent
                               + (IF status = "settled" THEN settled ELSE 0),
                   reserved |-> usage[row.agent][row.day].reserved - row.amount]]
  <2>1. CASE Release(i)
    <3>1. /\ reservation' = [reservation EXCEPT ![i].status = "released"]
          /\ usage' = [usage EXCEPT ![row.agent][row.day].reserved =
                         usage[row.agent][row.day].reserved - row.amount]
      BY <1>1, <2>1 DEF Release, release
    <3>2. reservation' = [reservation EXCEPT ![i].status = "released", ![i].settled = row.settled]
      BY <1>1, <3>1 DEF Inv, TypeOK, StoreTypeOK, Reservation
    <3>3. usage[row.agent][row.day] \in [spent: Nat, reserved: Int]
      BY <1>1 DEF Inv, TypeOK, StoreTypeOK, Reservation
    <3>4. [usage[row.agent][row.day] EXCEPT !.reserved = usage[row.agent][row.day].reserved - row.amount]
            = [spent |-> usage[row.agent][row.day].spent + 0,
               reserved |-> usage[row.agent][row.day].reserved - row.amount]
      BY <3>3
    <3>5. usage' = [usage EXCEPT ![row.agent][row.day] =
                      [spent |-> usage[row.agent][row.day].spent + 0,
                       reserved |-> usage[row.agent][row.day].reserved - row.amount]]
      BY <1>1, <3>1, <3>4 DEF Inv, TypeOK, StoreTypeOK, Reservation
    <3>6. row.settled \in Nat
      BY <1>1 DEF Reservation
    <3>7. QED
      BY <3>2, <3>5, <3>6
  <2>2. CASE MarkUnknown(i)
    <3>1. reservation' = [reservation EXCEPT ![i].status = "unknown"] /\ usage' = usage
      BY <2>2 DEF MarkUnknown, markUnknown
    <3>2. reservation' = [reservation EXCEPT ![i].status = "unknown", ![i].settled = row.settled]
      BY <1>1, <3>1 DEF Inv, TypeOK, StoreTypeOK, Reservation
    <3>3. row.settled \in Nat
      BY <1>1 DEF Reservation
    <3>4. QED
      BY <3>1, <3>2, <3>3
  <2>3. CASE Reconcile(i)
    <3>1. PICK settled \in Reported(i) : reconcile(i, settled)
      BY <2>3 DEF Reconcile
    <3>2. settled \in Nat
      BY <3>1, CallAssumption DEF Reported, Inv, TypeOK, Invocation
    <3>3. QED
      BY <1>1, <3>1, <3>2 DEF reconcile
  <2>4. QED
    BY <2>1, <2>2, <2>3
<1> HIDE DEF row
<1>3. /\ reservation'[i] = [row EXCEPT !.status = status, !.settled = settled]
      /\ reservation'[i] # None /\ row # None
      /\ \A j \in Identifiers \ {i} : reservation'[j] = reservation[j]
  <2>1. [row EXCEPT !.status = status, !.settled = settled] \in Reservation
    BY <1>1 DEF Reservation, Statuses
  <2>2. /\ reservation'[i] = [row EXCEPT !.status = status, !.settled = settled]
        /\ \A j \in Identifiers \ {i} : reservation'[j] = reservation[j]
    BY <1>2 DEF row, Inv, TypeOK, StoreTypeOK
  <2>3. QED
    BY <1>1, <2>1, <2>2, NoReservationAssumption
<1>4. /\ row.agent \in Agents /\ row.day \in Days /\ row.amount \in Nat
      /\ reservation'[i].agent = row.agent /\ reservation'[i].day = row.day
      /\ reservation'[i].amount = row.amount
      /\ reservation'[i].status = status /\ reservation'[i].settled = settled
  BY <1>1, <1>3 DEF Reservation
<1>5. ASSUME NEW a \in Agents, NEW d \in Days
      PROVE  /\ usage'[a][d].reserved + HeldPart(i, a, d) = usage[a][d].reserved + HeldPart(i, a, d)'
             /\ usage'[a][d].spent + PaidPart(i, a, d) = usage[a][d].spent + PaidPart(i, a, d)'
  <2>1. usage[a][d] \in [spent: Nat, reserved: Int]
    BY DEF Inv, TypeOK, StoreTypeOK
  <2>2. CASE a = row.agent /\ d = row.day
    <3>1. /\ HeldPart(i, a, d) = row.amount /\ PaidPart(i, a, d) = 0
          /\ HeldPart(i, a, d)' = IF status = "unknown" THEN row.amount ELSE 0
          /\ PaidPart(i, a, d)' = IF status = "settled" THEN settled ELSE 0
      BY <1>1, <1>3, <1>4, <2>2 DEF HeldPart, PaidPart, Booked, row
    <3>2. CASE status = "unknown"
      BY <1>2, <3>1, <3>2
    <3>3. CASE status # "unknown"
      <4>1. usage'[a][d] = [spent |-> usage[a][d].spent + (IF status = "settled" THEN settled ELSE 0),
                            reserved |-> usage[a][d].reserved - row.amount]
        BY <1>2, <1>4, <2>2, <3>3 DEF Inv, TypeOK, StoreTypeOK
      <4>2. QED
        BY <1>4, <2>1, <3>1, <3>3, <4>1
    <3>4. QED
      BY <3>2, <3>3
  <2>3. CASE ~(a = row.agent /\ d = row.day)
    <3>1. /\ HeldPart(i, a, d) = 0 /\ PaidPart(i, a, d) = 0
          /\ HeldPart(i, a, d)' = 0 /\ PaidPart(i, a, d)' = 0
      BY <1>4, <2>3 DEF HeldPart, PaidPart, Booked, row
    <3>2. usage'[a][d] = usage[a][d]
      BY <1>2, <1>4, <2>3 DEF Inv, TypeOK, StoreTypeOK
    <3>3. QED
      BY <3>1, <3>2
  <2>4. QED
    BY <2>2, <2>3
<1>6. QED
  BY <1>3, <1>5, Rebooked DEF Inv, TypeOK

LEMMA BooksStep ==
  ASSUME Inv, Inv', Booking, [Next]_vars
  PROVE  Booking'
<1>1. CASE UNCHANGED vars \/ Midnight
  BY <1>1, BooksUntouched DEF vars, Midnight, NextDay
<1>2. ASSUME NEW i \in Identifiers, NEW a \in Agents, NEW price \in Prices,
             NEW scheme \in Schemes, Afford(i, a, price, scheme)
      PROVE  Booking'
  BY <1>2, BooksUntouched DEF Afford, budgetVars
<1>3. ASSUME NEW i \in Identifiers, Moves(i) \/ Sign(i) \/ Pay(i) \/ Void(i)
      PROVE  Booking'
  BY <1>3, BooksUntouched DEF Moves, BudgetExceeded, NoSigner, SignFails, NoAnswer, Rejected,
     Settled, Crash, Sign, Pay, Void, budgetVars
<1>4. ASSUME NEW i \in Identifiers, Reserve(i) \/ Release(i) \/ MarkUnknown(i) \/ Reconcile(i)
      PROVE  Booking'
  BY <1>4, ReserveBooks, EndBooks
<1>5. QED
  BY <1>1, <1>2, <1>3, <1>4 DEF Next, Proceed, Moves

LEMMA BooksInit == Init => Booking
<1> SUFFICES ASSUME Init PROVE Booking
  OBVIOUS
<1>1. \A i \in Identifiers : reservation[i] = None
  BY DEF Init, BudgetInit
<1>2. \A a, d, st : Booked(a, d, st) = {}
  BY <1>1 DEF Booked
<1>3. IsFiniteSet({i \in Identifiers : reservation[i] # None})
  <2>1. {i \in Identifiers : reservation[i] # None} = {}
    BY <1>1
  <2>2. QED
    BY <2>1, FS_EmptySet
<1>4. \A f : DOMAIN f = {} => SumFunction(f) = 0
  BY SumEmpty DEF SumFunction
<1>5. ASSUME NEW a \in Agents, NEW d \in Days
      PROVE  /\ usage[a][d].reserved
                  = SumFunction([i \in Booked(a, d, {"reserved", "unknown"}) |-> reservation[i].amount])
             /\ usage[a][d].spent
                  = SumFunction([i \in Booked(a, d, {"settled"}) |-> reservation[i].settled])
  <2>1. usage[a][d].reserved = 0 /\ usage[a][d].spent = 0
    BY DEF Init, BudgetInit
  <2> DEFINE held == [i \in Booked(a, d, {"reserved", "unknown"}) |-> reservation[i].amount]
             paid == [i \in Booked(a, d, {"settled"}) |-> reservation[i].settled]
  <2>2. DOMAIN held = {} /\ DOMAIN paid = {}
    BY <1>2
  <2> HIDE DEF held, paid
  <2>3. SumFunction(held) = 0 /\ SumFunction(paid) = 0
    BY <1>4, <2>2
  <2>4. QED
    BY <2>1, <2>3 DEF held, paid
<1>6. QED
  BY <1>3, <1>5 DEF Booking, BooksBalance

\* The usage of every agent on every day is what the reservations of that day add up
\* to, however many invocations there are, in whichever order they end, crash or are
\* answered, and whatever amount their sellers report.
THEOREM BooksBalanced == Spec => []BooksBalance
<1>1. Inv /\ Booking /\ [Next]_vars /\ Inv' => Booking'
  BY BooksStep
<1>2. Booking => BooksBalance
  BY DEF Booking
<1>3. QED
  BY <1>1, <1>2, BooksInit, InvAlways, PTL DEF Spec

=============================================================================

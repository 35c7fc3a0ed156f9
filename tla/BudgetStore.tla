----------------------------- MODULE BudgetStore -----------------------------
(***************************************************************************)
(* The spending budgets of agents (mcp-server/src/budget): a reservation   *)
(* per payment identifier, and the usage of each agent on each day.  Each  *)
(* method of PostgresBudgetStore is one transaction with both rows locked, *)
(* hence one action here; CallResource.tla says when they are called.      *)
(***************************************************************************)
EXTENDS Integers

CONSTANTS
  Agents,
  Identifiers,   \* payment identifiers, one per invocation
  DayMax,        \* defaultSessionOrDayMaxAtomic
  PerCallMax,    \* defaultPerCallMaxAtomic
  LastDay,       \* bound of the model: days that pass
  None           \* SQL NULL

ASSUME BudgetAssumption ==
  /\ DayMax \in Nat /\ PerCallMax \in Nat /\ LastDay \in Nat \ {0}

Days == 1 .. LastDay

Statuses == {"reserved", "unknown", "settled", "released"}
Reservation == [agent: Agents, day: Days, amount: Nat, settled: Nat, status: Statuses]

ASSUME NoReservationAssumption == None \notin Reservation

VARIABLES
  reservation,   \* mcp_budget_reservations
  usage,         \* mcp_budget_usage
  today

budgetVars == <<reservation, usage, today>>

BudgetInit ==
  /\ reservation = [i \in Identifiers |-> None]
  /\ usage = [a \in Agents |-> [d \in Days |-> [spent |-> 0, reserved |-> 0]]]
  /\ today = 1

usedToday(a) == usage[a][today].spent + usage[a][today].reserved

\* Mutant: only what is spent counts against the day's limit.
Fits_SpentOnly(a, amount) == amount <= PerCallMax /\ usage[a][today].spent + amount <= DayMax

Fits(a, amount) == amount <= PerCallMax /\ usedToday(a) + amount <= DayMax

\* Where it is not enabled it throws BUDGET_EXCEEDED.
reserve(i, a, amount) ==
  /\ reservation[i] = None /\ Fits(a, amount)
  /\ reservation' = [reservation EXCEPT ![i] =
       [agent |-> a, day |-> today, amount |-> amount, settled |-> 0, status |-> "reserved"]]
  /\ usage' = [usage EXCEPT ![a][today].reserved = usage[a][today].reserved + amount]
  /\ UNCHANGED today

\* Mutant: the settled amount moves to today's usage, not to the reservation's day.
reconcile_Today(i, settled) ==
  LET row == reservation[i]
  IN /\ reservation' = [reservation EXCEPT ![i].status = "settled", ![i].settled = settled]
     /\ usage' = [usage EXCEPT ![row.agent][row.day].reserved = @ - row.amount,
                               ![row.agent][today].spent = @ + settled]
     /\ UNCHANGED today

\* The reservation leaves "reserved" as a whole; what was settled is spent.
reconcile(i, settled) ==
  LET row == reservation[i]
      day == usage[row.agent][row.day]
  IN /\ IF row.status = "settled"
        THEN UNCHANGED <<reservation, usage>>
        ELSE /\ reservation' = [reservation EXCEPT ![i].status = "settled",
                                                   ![i].settled = settled]
             /\ usage' = [usage EXCEPT ![row.agent][row.day] =
                  [spent |-> day.spent + settled, reserved |-> day.reserved - row.amount]]
     /\ UNCHANGED today

\* The full reservation stays held.
markUnknown(i) ==
  /\ reservation' = [reservation EXCEPT ![i].status = "unknown"]
  /\ UNCHANGED <<usage, today>>

\* Mutant: the status that the table allows and no code handles.
release_Failed(i) ==
  /\ reservation' = [reservation EXCEPT ![i].status = "failed"]
  /\ UNCHANGED <<usage, today>>

release(i) ==
  LET row == reservation[i]
      day == usage[row.agent][row.day]
  IN /\ IF row.status = "released"
        THEN UNCHANGED <<reservation, usage>>
        ELSE /\ reservation' = [reservation EXCEPT ![i].status = "released"]
             /\ usage' = [usage EXCEPT ![row.agent][row.day].reserved =
                            day.reserved - row.amount]
     /\ UNCHANGED today

NextDay ==
  /\ today < LastDay
  /\ today' = today + 1
  /\ UNCHANGED <<reservation, usage>>

\* The rows hold values of their columns' types.
StoreTypeOK ==
  /\ reservation \in [Identifiers -> Reservation \cup {None}]
  /\ usage \in [Agents -> [Days -> [spent: Nat, reserved: Int]]]
  /\ today \in Days
=============================================================================

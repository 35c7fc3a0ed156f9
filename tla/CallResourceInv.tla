--------------------------- MODULE CallResourceInv ---------------------------
(* The inductive invariants behind the theorems of CallResourceProofs. *)
EXTENDS CallResource

Holding == {"sign", "paid_call", "release", "unknown", "settle"}

\* How far an invocation is says what its reservation and authorization are.
Staged ==
  \A i \in Identifiers :
    /\ Live(i) => inv[i].agent \in Agents
    /\ inv[i].pc \in {"idle", "reserve"} => reservation[i] = None
    /\ inv[i].pc \in Holding => reservation[i] # None /\ reservation[i].status = "reserved"
    /\ inv[i].pc \in {"idle", "reserve", "sign"} => auth[i] = "none"
    /\ inv[i].pc \in {"paid_call", "unknown", "settle"} => inv[i].scheme = "exact"

\* A reservation is for the amount the invocation asked for, and only an exact
\* amount is signed.
Priced ==
  \A i \in Identifiers :
    /\ reservation[i] # None => reservation[i].amount = inv[i].amount
    /\ Live(i) /\ inv[i].scheme = "exact" => inv[i].amount = inv[i].price
    /\ auth[i] # "none" => reservation[i] # None /\ inv[i].amount = inv[i].price

\* What is released was never signed, or is void: not so for a seller that reports
\* failures it is not sure of.
Freed ==
  \A i \in Identifiers :
    /\ At(i, "release") => auth[i] \in {"none", "void"}
    /\ reservation[i] # None /\ reservation[i].status = "released" =>
         auth[i] \in {"none", "void"}

\* The limit depends on the amounts that sellers report.
Limited == "otheramount" \in Hazards \/ LimitKept

Inv == TypeOK /\ Staged /\ Priced /\ Limited

\* Finitely many reservations have been made, and the books balance.
Booking ==
  /\ IsFiniteSet({i \in Identifiers : reservation[i] # None})
  /\ BooksBalance
=============================================================================

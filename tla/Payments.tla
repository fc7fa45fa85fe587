------------------------------ MODULE Payments ------------------------------
(***************************************************************************)
(* The money taken on one booking: entries that are written once, refunded *)
(* by further entries and undone by a void. They go when the booking goes, *)
(* with its customer once none of them stands, or with the whole account.  *)
(*                                                                         *)
(* A request is a server action of one cashier. It reads the entries, asks *)
(* the pure rules of finance/payments.ts, and writes entry and audit row   *)
(* in a later transaction that holds no lock on the booking: other         *)
(* requests commit in between. A request that is refused, or whose process *)
(* dies, writes nothing. A cashier who got no answer sends another request.*)
(* Tips settle nothing and are left out; the price of a booking is fixed.  *)
(***************************************************************************)
EXTENDS Integers, FiniteSets, Functions

CONSTANTS
  Request,    \* requests; an entry has the id of the request that wrote it
  NoOne,      \* voidedByUserId of an entry that stands
  Price,      \* priceMinor of the booking
  Amounts,    \* bound: sums a cashier may type into a field
  MaxAmount   \* bound: the largest of them

ASSUME PaymentConstants ==
  /\ IsFiniteSet(Request)
  /\ NoOne \notin Request
  /\ Price \in Nat
  /\ MaxAmount \in Nat
  /\ Amounts \subseteq 0..MaxAmount

Kind == {"NONE", "PAYMENT", "REFUND"}

\* A row of AppointmentPayment; kind NONE while it does not exist.
Entry == [kind: Kind, amount: 0..MaxAmount, discount: 0..MaxAmount,
          voidedBy: Request \union {NoOne}]
NoEntry == [kind |-> "NONE", amount |-> 0, discount |-> 0, voidedBy |-> NoOne]

\* Where a request is: "insert" has passed the rules of a payment or a refund,
\* "found" has read the entry it is to void, "void" has passed refuseVoid.
At == {"idle", "insert", "found", "void", "done"}

\* What it carries from its reads, and whether they are out of date by now.
Call == [at: At, kind: Kind, amount: 0..MaxAmount, discount: 0..MaxAmount,
         target: Request, stale: BOOLEAN]

\* Whether the booking is still there, and if not, what it was deleted with.
Gone == {"no", "customer", "account"}

AuditRow == [action: {"create", "refund", "void"}, target: Request, actor: Request]

VARIABLES
  entry,   \* entry[e]: the AppointmentPayment rows of the booking
  audit,   \* the AuditLog rows about them
  call,    \* call[r]: the requests
  gone,    \* the Appointment row
  raced    \* history: some request wrote upon reads that were out of date

vars == <<entry, audit, call, gone, raced>>

Init ==
  /\ entry = [e \in Request |-> NoEntry]
  /\ audit = {}
  /\ call  = [r \in Request |-> [at |-> "idle", kind |-> "NONE", amount |-> 0,
                                 discount |-> 0, target |-> r, stale |-> FALSE]]
  /\ gone  = "no"
  /\ raced = FALSE

-----------------------------------------------------------------------------
(* What the entries add up to: netReceivedMinor and settledMinor.          *)

Exists(e) == entry[e].kind # "NONE"
IsLive(e) == Exists(e) /\ entry[e].voidedBy = NoOne
Live      == {e \in Request : IsLive(e)}
Voided(k) == {e \in Request : entry[e].kind = k /\ ~IsLive(e)}

Received(e) == IF entry[e].kind = "REFUND" THEN -entry[e].amount ELSE entry[e].amount
Settled(e)  == Received(e) + entry[e].discount

NetReceived(S)  == SumFunctionOnSet([e \in Request |-> Received(e)], S)
SettledTotal(S) == SumFunctionOnSet([e \in Request |-> Settled(e)], S)

\* The audit rows about an entry: that it was written, that r voided it.
WrittenRow(e)   == [action |-> IF entry[e].kind = "REFUND" THEN "refund" ELSE "create",
                    target |-> e, actor |-> e]
VoidedRow(e, r) == [action |-> "void", target |-> e, actor |-> r]

(* The rules. They read the entries given to them and nothing else.        *)

\* Faulty variant: the total is compared before the new payment is added to it.
PaymentUncapped(amount, discount) ==
  /\ amount + discount > 0
  /\ SettledTotal(Live) <= Price
MayPay(amount, discount) ==
  /\ amount + discount > 0
  /\ SettledTotal(Live) + amount + discount <= Price

MayRefund(amount) ==
  /\ amount > 0
  /\ amount <= NetReceived(Live)

\* Faulty variant: the entry to be voided is still counted among what remains.
VoidKeepsTarget(e) == NetReceived(Live) >= 0
MayVoid(e) == NetReceived(Live \ {e}) >= 0

\* Faulty variant: the customer goes with whatever money is on the bookings.
ErasableAnyway == TRUE
Erasable == Live = {}

-----------------------------------------------------------------------------
(* Requests. Each reads and decides in one step and writes in another.     *)

\* recordPayment up to writeEntry.
RecordPayment(r, amount, discount) ==
  /\ call[r].at = "idle" /\ gone = "no"
  /\ MayPay(amount, discount)
  /\ call' = [call EXCEPT ![r] = [@ EXCEPT !.at = "insert", !.kind = "PAYMENT",
                                           !.amount = amount, !.discount = discount]]
  /\ UNCHANGED <<entry, audit, gone, raced>>

\* refundPayment up to writeEntry: a refund carries no discount.
RefundPayment(r, amount) ==
  /\ call[r].at = "idle" /\ gone = "no"
  /\ MayRefund(amount)
  /\ call' = [call EXCEPT ![r] = [@ EXCEPT !.at = "insert", !.kind = "REFUND",
                                           !.amount = amount]]
  /\ UNCHANGED <<entry, audit, gone, raced>>

\* After a commit of r, what the others have read is out of date.
Commit(r) ==
  /\ call' = [q \in Request |->
                IF q = r THEN [call[q] EXCEPT !.at = "done"]
                ELSE IF call[q].at \in {"insert", "void"} THEN [call[q] EXCEPT !.stale = TRUE]
                ELSE call[q]]
  /\ raced' = (raced \/ call[r].stale)
  /\ UNCHANGED gone
\* A request that ends without having written.
GiveUp(r) ==
  /\ call' = [call EXCEPT ![r] = [@ EXCEPT !.at = "done"]]
  /\ UNCHANGED <<entry, audit, gone, raced>>

\* Faulty variant: the sign of a refund is stored in the row as well as in its kind.
WriteSigned(r) ==
  /\ call[r].at = "insert" /\ gone = "no"
  /\ entry' = [entry EXCEPT ![r] = [@ EXCEPT !.kind = call[r].kind,
                 !.amount = IF call[r].kind = "REFUND" THEN -call[r].amount ELSE call[r].amount,
                 !.discount = call[r].discount]]
  /\ audit' = audit \union {WrittenRow(r)'}
  /\ Commit(r)
\* writeEntry: the entry and its audit row, in one transaction. The foreign key
\* refuses it when the booking has been deleted since it was read.
WriteEntry(r) ==
  /\ call[r].at = "insert"
  /\ \/ /\ gone = "no"
        /\ entry' = [entry EXCEPT ![r] = [@ EXCEPT !.kind = call[r].kind,
                       !.amount = call[r].amount, !.discount = call[r].discount]]
        /\ audit' = audit \union {WrittenRow(r)'}
        /\ Commit(r)
     \/ gone # "no" /\ GiveUp(r)

\* voidPayment finds the entry standing.
FindPayment(r, e) ==
  /\ call[r].at = "idle"
  /\ IsLive(e)
  /\ call' = [call EXCEPT ![r] = [@ EXCEPT !.at = "found", !.target = e]]
  /\ UNCHANGED <<entry, audit, gone, raced>>

\* It then reads the entries that would remain, and refuses if refunds would
\* stand against nothing.
CheckRemaining(r) ==
  /\ call[r].at = "found"
  /\ call' = [call EXCEPT ![r] = [@ EXCEPT !.at =
                IF MayVoid(call[r].target) THEN "void" ELSE "done"]]
  /\ UNCHANGED <<entry, audit, gone, raced>>

\* Faulty variant: the audit row is written whether or not the update matched.
VoidAuditsAlways(r) ==
  LET e == call[r].target IN
  /\ call[r].at = "void"
  /\ entry' = IF IsLive(e) THEN [entry EXCEPT ![e] = [@ EXCEPT !.voidedBy = r]] ELSE entry
  /\ audit' = audit \union {VoidedRow(e, r)}
  /\ Commit(r)
\* The void itself, a compare-and-set on voidedAt with its audit row; an entry
\* that was voided or deleted meanwhile leaves both tables as they are.
VoidEntry(r) ==
  LET e == call[r].target IN
  /\ call[r].at = "void"
  /\ \/ /\ IsLive(e)
        /\ entry' = [entry EXCEPT ![e] = [@ EXCEPT !.voidedBy = r]]
        /\ audit' = audit \union {VoidedRow(e, r)}
        /\ Commit(r)
     \/ ~IsLive(e) /\ GiveUp(r)

\* deleteCustomer: refused while an entry stands, by the count before the
\* transaction or by the foreign key within it; otherwise the voided entries go
\* with the booking, and the audit rows about them stay.
DeleteCustomer ==
  /\ gone = "no" /\ Erasable
  /\ entry' = [e \in Request |-> NoEntry]
  /\ gone' = "customer"
  /\ UNCHANGED <<audit, call, raced>>

\* deleteAccountCompletely takes every entry, standing or not; the audit rows stay.
DeleteAccount ==
  /\ gone = "no"
  /\ entry' = [e \in Request |-> NoEntry]
  /\ gone' = "account"
  /\ UNCHANGED <<audit, call, raced>>

Next ==
  \/ DeleteCustomer
  \/ DeleteAccount
  \/ \E r \in Request :
       \/ \E a, d \in Amounts : RecordPayment(r, a, d)
       \/ \E a \in Amounts : RefundPayment(r, a)
       \/ WriteEntry(r)
       \/ \E e \in Request : FindPayment(r, e)
       \/ CheckRemaining(r)
       \/ VoidEntry(r)

Spec == Init /\ [][Next]_vars

-----------------------------------------------------------------------------
(* Properties.                                                             *)

\* Entries, audit rows and requests keep their types; amounts are positive whatever
\* the kind of the entry (writeEntry).
TypeOK ==
  /\ entry \in [Request -> Entry]
  /\ audit \subseteq AuditRow
  /\ call \in [Request -> Call]
  /\ gone \in Gone
  /\ raced \in BOOLEAN

\* The audit log tells the whole story of every entry and nothing else: an
\* entry has one row that says who wrote it and as what, a voided one has
\* exactly one more, by the person the entry names, and there is no row about a
\* write that did not happen, although two people void one entry at once.
LogMatchesEntries ==
  audit = {WrittenRow(e) : e \in {x \in Request : Exists(x)}} \union
          {VoidedRow(e, entry[e].voidedBy) : e \in {x \in Request : Exists(x) /\ ~IsLive(x)}}

\* Once the customer is deleted the log alone is left to tell it, and tells of
\* every entry how it was undone: "the void itself stays in the audit log,
\* which is where that history lives" (deleteCustomer).
VoidRows(e) == {row \in audit : row.action = "void" /\ row.target = e}
LogTellsVoids ==
  \A w \in audit : w.action # "void" => \E row \in audit : VoidRows(w.target) = {row}

AuditExplainsEntries ==
  /\ gone = "no" => LogMatchesEntries
  /\ gone = "customer" => LogTellsVoids

\* While every request writes upon what it read, no sequence of payments,
\* refunds and voids leaves refunds against money that is not on record:
\* "a net of -100, which is not a state any later total can make sense of".
NetWithoutRaces == raced \/ NetReceived(Live) >= 0

\* And the booking is never settled beyond its price by more than the refunds
\* that were voided: undoing a refund after its room was taken by another
\* payment is the one way, and no rule looks at it.
SettledWithinPrice ==
  raced \/ SettledTotal(Live) <= Price - NetReceived(Voided("REFUND"))

WrittenOnce ==
  \A e \in Request : Exists(e) =>
    \/ /\ entry'[e] = [entry[e] EXCEPT !.voidedBy = entry'[e].voidedBy]
       /\ ~IsLive(e) => entry'[e].voidedBy = entry[e].voidedBy
    \/ entry'[e] = NoEntry /\ (IsLive(e) => gone' = "account")

\* A written entry is never edited or un-voided, and a second void does not
\* change whose the first was. While it stands it is not deleted either, short
\* of the whole account, although payments and voids are written while a
\* customer is being deleted ("rather than this quietly erasing real money").
EntriesFrozen == [][WrittenOnce]_vars
=============================================================================

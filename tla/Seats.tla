------------------------------- MODULE Seats --------------------------------
(***************************************************************************)
(* The limits a plan puts on an account: active masters of one salon, and  *)
(* branches of the account.  Both are counted and taken in a transaction   *)
(* that first locks the parent row; switching a master off, deleting one   *)
(* and closing or suspending a branch take no lock; the plan may change at *)
(* any moment.  Statements run under READ COMMITTED: a count sees what has *)
(* been committed when it runs.  SeatsInit and its like are named apart    *)
(* from Subscription's, so that one module can extend both.                *)
(***************************************************************************)
EXTENDS Naturals, FiniteSets

CONSTANTS Asker,       \* requests being served
          Employee,    \* masters the salon ever has
          Branch,      \* salons the account ever has
          Primary,     \* the salon the account registered with
          SeatLimits,  \* what plans set maxEmployees to: numbers, or Unlimited
          BranchCaps,  \* what maxBranches with the paid extra slots can be
          Unlimited, Nobody

ASSUME FiniteAccount == IsFiniteSet(Employee) /\ IsFiniteSet(Branch) /\ Primary \in Branch
ASSUME LimitsAreNumbers ==
  SeatLimits \subseteq Nat \union {Unlimited} /\ BranchCaps \subseteq Nat \ {0}
ASSUME NotValues == Unlimited \notin Nat /\ Nobody \notin Asker /\ Nobody \notin Employee

VARIABLES staff,      \* what each employee row says
          branch,     \* the status of each salon row
          seats,      \* maxEmployees of the plan in force
          cap,        \* maxBranches of the plan in force, extra slots included
          lock,       \* holder of the lock on the Salon and on the Account row
          ask,        \* the requests
          highSeats,  \* history: the most seats any plan of the account gave
          highCap     \* history: the most branches any plan of the account gave

seatsVars == <<staff, branch, seats, cap, lock, ask, highSeats, highCap>>
plans     == <<seats, cap, highSeats, highCap>>

Active   == {e \in Employee : staff[e] = "on"}
Branches == {b \in Branch : branch[b] # "absent"}

At   == {"idle", "lock", "count", "write"}
Ask  == [at : At, kind : {"Salon", "Account"}, who : Employee \union {Nobody},
         max : Nat \union {Unlimited}]
Idle == [at |-> "idle", kind |-> "Salon", who |-> Nobody, max |-> 0]

\* Masters, branches, locks and requests keep their types: a branch is active,
\* suspended or gone.
SeatsTypeOK ==
  /\ staff \in [Employee -> {"absent", "off", "on"}]
  /\ branch \in [Branch -> {"absent", "ACTIVE", "SUSPENDED"}]
  /\ seats \in SeatLimits /\ cap \in BranchCaps
  /\ lock \in [{"Salon", "Account"} -> Asker \union {Nobody}]
  /\ ask \in [Asker -> Ask]
  /\ highSeats \in SeatLimits /\ highCap \in BranchCaps

SeatsInit ==
  /\ staff = [e \in Employee |-> "absent"]
  /\ branch = [b \in Branch |-> IF b = Primary THEN "ACTIVE" ELSE "absent"]
  /\ seats \in SeatLimits /\ cap \in BranchCaps
  /\ lock = [k \in {"Salon", "Account"} |-> Nobody]
  /\ ask = [c \in Asker |-> Idle]
  /\ highSeats = seats /\ highCap = cap

Goto(c, request) ==
  ask' = [ask EXCEPT ![c] = request]

-----------------------------------------------------------------------------
(* Requests that take a place. *)

\* saveEmployee with isActive, setEmployeeActive(id, true): an existing master
\* who is switched on or saved again, or (Nobody) a new one.  The plan is read
\* before anything is locked, and an unlimited one skips the lock and the count.
AskSeat(c) ==
  \E e \in Employee \union {Nobody} :
    /\ ask[c].at = "idle"
    /\ Goto(c, [at |-> IF seats = Unlimited THEN "write" ELSE "lock",
                kind |-> "Salon", who |-> e, max |-> seats])
    /\ UNCHANGED <<staff, branch, lock, plans>>

\* createBranch: the limit comes with the session the request arrived in.
AskBranch(c) ==
  /\ ask[c].at = "idle"
  /\ Goto(c, [at |-> "lock", kind |-> "Account", who |-> Nobody, max |-> cap])
  /\ UNCHANGED <<staff, branch, lock, plans>>

\* Faulty variant: the salon row is not locked before the count.
MayLockAlways(k) == TRUE

\* SELECT ... FOR NO KEY UPDATE waits for the transaction that holds the row.
MayLock(k) == lock[k] = Nobody

TakeLock(c) ==
  /\ ask[c].at = "lock"
  /\ MayLock(ask[c].kind)
  /\ lock' = [lock EXCEPT ![ask[c].kind] = c]
  /\ Goto(c, [ask[c] EXCEPT !.at = "count"])
  /\ UNCHANGED <<staff, branch, plans>>

\* Faulty variant: a suspended branch frees its place.
ActiveBranchesOnly(r) ==
  IF r.kind = "Salon" THEN Active \ {r.who} ELSE {b \in Branch : branch[b] = "ACTIVE"}

\* Branches count whatever their status, so a suspended one keeps its place.
Taken(r) == IF r.kind = "Salon" THEN Active \ {r.who} ELSE Branches

Release(c) == lock' = [k \in {"Salon", "Account"} |-> IF lock[k] = c THEN Nobody ELSE lock[k]]

Count(c) ==
  /\ ask[c].at = "count"
  /\ \/ /\ Cardinality(Taken(ask[c])) < ask[c].max
        /\ Goto(c, [ask[c] EXCEPT !.at = "write"])
        /\ UNCHANGED lock
     \/ /\ Cardinality(Taken(ask[c])) >= ask[c].max
        /\ Goto(c, Idle)
        /\ Release(c)
  /\ UNCHANGED <<staff, branch, plans>>

\* The write and the commit.  A master deleted meanwhile is not brought back.
TakeSeat(c) ==
  /\ ask[c].at = "write" /\ ask[c].kind = "Salon"
  /\ \/ /\ ask[c].who = Nobody
        /\ \E e \in Employee : staff[e] = "absent" /\ staff' = [staff EXCEPT ![e] = "on"]
     \/ /\ ask[c].who # Nobody
        /\ staff' = [e \in Employee |->
                      IF e = ask[c].who /\ staff[e] # "absent" THEN "on" ELSE staff[e]]
  /\ Goto(c, Idle)
  /\ Release(c)
  /\ UNCHANGED <<branch, plans>>

OpenBranch(c) ==
  /\ ask[c].at = "write" /\ ask[c].kind = "Account"
  /\ \E b \in Branch : branch[b] = "absent" /\ branch' = [branch EXCEPT ![b] = "ACTIVE"]
  /\ Goto(c, Idle)
  /\ Release(c)
  /\ UNCHANGED <<staff, plans>>

\* The transaction fails or the process dies: PostgreSQL lets the lock go.
Fail(c) ==
  /\ ask[c].at # "idle"
  /\ Goto(c, Idle)
  /\ Release(c)
  /\ UNCHANGED <<staff, branch, plans>>

-----------------------------------------------------------------------------
(* Requests that give a place back, and the plan. *)

\* saveEmployee without isActive (an edit, or a new master who is off),
\* setEmployeeActive(id, false), deleteEmployee.
SwitchOff(e) ==
  /\ staff' = [staff EXCEPT ![e] = "off"]
  /\ UNCHANGED <<branch, lock, ask, plans>>

DeleteEmployee(e) ==
  /\ staff[e] # "absent"
  /\ staff' = [staff EXCEPT ![e] = "absent"]
  /\ UNCHANGED <<branch, lock, ask, plans>>

\* setBranchStatus and deleteBranch never touch the primary branch.  A branch
\* with history is not deleted: whether it has any is not modelled.
SetBranchStatus(b) ==
  /\ \/ branch[b] = "ACTIVE" /\ b # Primary /\ branch' = [branch EXCEPT ![b] = "SUSPENDED"]
     \/ branch[b] = "SUSPENDED" /\ branch' = [branch EXCEPT ![b] = "ACTIVE"]
  /\ UNCHANGED <<staff, lock, ask, plans>>

DeleteBranch(b) ==
  /\ branch[b] # "absent" /\ b # Primary
  /\ branch' = [branch EXCEPT ![b] = "absent"]
  /\ UNCHANGED <<staff, lock, ask, plans>>

MoreSeats(a, b) ==
  IF a = Unlimited \/ b = Unlimited THEN Unlimited ELSE IF a > b THEN a ELSE b

ChangePlan ==
  /\ seats' \in SeatLimits /\ cap' \in BranchCaps
  /\ highSeats' = MoreSeats(highSeats, seats')
  /\ highCap' = IF cap' > highCap THEN cap' ELSE highCap
  /\ UNCHANGED <<staff, branch, lock, ask>>

SeatsNext ==
  \/ \E c \in Asker : AskSeat(c) \/ AskBranch(c) \/ TakeLock(c) \/ Count(c) \/ TakeSeat(c)
                       \/ OpenBranch(c) \/ Fail(c)
  \/ \E e \in Employee : SwitchOff(e) \/ DeleteEmployee(e)
  \/ \E b \in Branch : SetBranchStatus(b) \/ DeleteBranch(b)
  \/ ChangePlan

SeatsSpec == SeatsInit /\ [][SeatsNext]_seatsVars

-----------------------------------------------------------------------------
(* Properties. *)

\* However many requests arrive at the last free seat, the salon never has
\* more active masters than the best plan the account was ever on gave it
\* (assertEmployeeSeatAvailable: "the salon ended up one master over its plan").
StaffWithinPlans == highSeats # Unlimited => Cardinality(Active) <= highSeats

\* The same of branches, suspended ones included, so that suspending, opening
\* another and switching the first on again is no way around the cap
\* (createBranch: "two requests at the same moment cannot both see a free slot").
BranchesWithinPlans == Cardinality(Branches) <= highCap
=============================================================================

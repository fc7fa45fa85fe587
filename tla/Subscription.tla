---------------------------- MODULE Subscription ----------------------------
(***************************************************************************)
(* One account's subscription: the platform's admins activate a paid plan, *)
(* grant a trial, sell branch slots and take a payment back; the nightly   *)
(* sweep makes the stored status truthful; effectivePlan judges the row by *)
(* the clock whenever it is asked.  Every admin action reads the row,      *)
(* computes new dates from what it read and writes them back in a          *)
(* transaction that does not look again.                                   *)
(***************************************************************************)
EXTENDS Integers

CONSTANTS Call,       \* admin requests being served
          MaxPayments,\* bound on the rows ever written to the Payment table
          Paid,       \* the plans that cost money
          Length,     \* what a payment can buy, in ticks
          Trial,      \* length of a granted trial, in ticks
          Grace,      \* GRACE_DAYS, in ticks
          MaxTime,    \* bound on the clock and on where a trial starts
          None

ASSUME NoneIsNoDate   == None \notin Int
ASSUME FreeIsNotSold  == "FREE" \notin Paid
ASSUME LengthsInTicks ==
  /\ Length \subseteq Nat \ {0} /\ Trial \in Nat \ {0}
  /\ Grace \in Nat /\ MaxTime \in Nat /\ MaxPayments \in Nat

VARIABLES now,        \* the clock
          sub,        \* the Subscription row
          payments,   \* how many Payment rows were ever written
          payment,    \* what each of them bought, None once it is deleted
          call,       \* admin requests between their read and their transaction
          pass,       \* the sweep
          paidUntil,  \* history: the end of the days bought and not taken back
          raced       \* history: a transaction wrote over a row changed since

vars == <<now, sub, payments, payment, call, pass, paidUntil, raced>>

Later(a, b) == IF a > b THEN a ELSE b

Runs(end, t) == end # None /\ end > t

\* effectivePlan: what a subscription is entitled to at time t.
Effective(s, t) ==
  IF \/ s.status = "TRIALING" /\ Runs(s.trialEnd, t)
     \/ s.status = "ACTIVE" /\ (s.periodEnd = None \/ Runs(s.periodEnd + Grace, t))
  THEN s.plan ELSE "FREE"

Row == [plan : Paid, status : {"TRIALING", "ACTIVE", "PAST_DUE", "FREE_DOWNGRADED"},
        trialEnd : Int, periodEnd : Int \union {None}]
Bought == [months : Nat, purpose : {"plan", "branches"}]

\* What a request carries from its read to its transaction.
ActivateCall == [op : {"activate"}, plan : Paid, base : Int, length : Length,
                 at : 0..MaxTime, stale : BOOLEAN]
TrialCall    == [op : {"trial"}, plan : Paid, base : Int, stale : BOOLEAN]
TakeBackCall == [op : {"takeBack"}, row : 1..MaxPayments, newEnd : Int \union {None},
                 lapses : BOOLEAN, stale : BOOLEAN]
Request == ActivateCall \union TrialCall \union TakeBackCall

ASSUME NoneIsNoRequest == None \notin Request

\* A payment is either absent or recorded, a request idle or under way.
TypeOK ==
  /\ now \in 0..MaxTime
  /\ sub \in Row
  /\ payments \in 0..MaxPayments
  /\ payment \in [1..MaxPayments -> Bought \union {None}]
  /\ call \in [Call -> Request \union {None}]
  /\ pass \in [step : {"idle"}] \union [step : {"trials", "lapsed"}, at : 0..MaxTime]
  /\ paidUntil \in Int
  /\ raced \in BOOLEAN

\* Faulty variant: the trial of a signup has no end.
SignUpUndated(p) == [plan |-> p, status |-> "TRIALING", trialEnd |-> None, periodEnd |-> None]

\* A self-serve signup starts on a trial with an end date.
SignUp(p) == [plan |-> p, status |-> "TRIALING", trialEnd |-> Trial, periodEnd |-> None]

Init ==
  /\ now = 0
  /\ sub \in {SignUp(p) : p \in Paid}
  /\ payments = 0
  /\ payment = [n \in 1..MaxPayments |-> None]
  /\ call = [c \in Call |-> None]
  /\ pass = [step |-> "idle"]
  /\ paidUntil = 0
  /\ raced = FALSE

-----------------------------------------------------------------------------
(* The reads. *)

PaidPeriodRuns == sub.status = "ACTIVE" /\ Runs(sub.periodEnd, now)

Begin(c, request) ==
  /\ call[c] = None
  /\ call' = [call EXCEPT ![c] = request]
  /\ UNCHANGED <<now, sub, payments, payment, pass, paidUntil, raced>>

\* activateSubscription: early renewal starts where the period ends.
RenewalBase == IF PaidPeriodRuns THEN sub.periodEnd ELSE now

StartActivate(c) ==
  \E p \in Paid, n \in Length :
    Begin(c, [op |-> "activate", plan |-> p, base |-> RenewalBase, length |-> n,
              at |-> now, stale |-> FALSE])

\* Faulty variant: nothing refuses a trial.
TrialAllowedAlways == TRUE

\* grantTrial: refused while a paid period, or an open-ended one, runs.
TrialAllowed == sub.status = "ACTIVE" => sub.periodEnd # None /\ ~Runs(sub.periodEnd, now)

TrialBase ==
  IF sub.status = "TRIALING" /\ Runs(sub.trialEnd, now) THEN sub.trialEnd ELSE now

StartTrial(c) ==
  \E p \in Paid :
    /\ TrialAllowed
    /\ TrialBase < MaxTime
    /\ Begin(c, [op |-> "trial", plan |-> p, base |-> TrialBase, stale |-> FALSE])

\* deletePayment.  With shortenPeriod the payment's months come off the
\* period; a payment for branch slots bought no months.
Shortens(p, shorten) == shorten /\ sub.periodEnd # None

StartTakeBack(c) ==
  \E p \in 1..MaxPayments, shorten \in BOOLEAN :
    LET end == IF Shortens(p, shorten) THEN sub.periodEnd - payment[p].months ELSE None IN
    /\ payment[p] # None
    /\ shorten => payment[p].purpose = "plan"
    /\ Begin(c, [op |-> "takeBack", row |-> p, newEnd |-> end,
                 lapses |-> end # None /\ ~Runs(end, now), stale |-> FALSE])

-----------------------------------------------------------------------------
(* The transactions. *)

\* The request ends, having written the dates and the status or not; whoever
\* read the row before such a write holds an old copy of it.
Finish(c, wrote) ==
  /\ call' = [d \in Call |->
                CASE d = c -> None
                  [] d # c /\ call[d] # None /\ wrote -> [call[d] EXCEPT !.stale = TRUE]
                  [] OTHER -> call[d]]
  /\ raced' = (raced \/ (wrote /\ call[c].stale))
  /\ UNCHANGED <<now, pass>>

Pay(bought) ==
  /\ payments < MaxPayments
  /\ payments' = payments + 1
  /\ payment' = [payment EXCEPT ![payments + 1] = bought]

Activate(c) ==
  LET r == call[c] IN
  /\ r # None /\ r.op = "activate"
  /\ sub' = [sub EXCEPT !.plan = r.plan, !.status = "ACTIVE", !.periodEnd = r.base + r.length]
  /\ Pay([months |-> r.length, purpose |-> "plan"])
  /\ paidUntil' = Later(paidUntil, r.at) + r.length
  /\ Finish(c, TRUE)

GrantTrial(c) ==
  LET r == call[c] IN
  /\ r # None /\ r.op = "trial"
  /\ sub' = [sub EXCEPT !.plan = r.plan, !.status = "TRIALING", !.trialEnd = r.base + Trial]
  /\ UNCHANGED <<payments, payment, paidUntil>>
  /\ Finish(c, TRUE)

\* setExtraBranches: more branch slots are paid for with a row of their own.
\* The number of slots is a column nothing here reads.
SetExtraBranches ==
  /\ Pay([months |-> 1, purpose |-> "branches"])
  /\ UNCHANGED <<now, sub, call, pass, paidUntil, raced>>

TakenBack(r) ==
  IF r.newEnd = None THEN sub
  ELSE [sub EXCEPT !.periodEnd = r.newEnd,
                   !.status = IF r.lapses THEN "FREE_DOWNGRADED" ELSE @]

TakeBack(c) ==
  LET r == call[c] IN
  /\ r # None /\ r.op = "takeBack"
  /\ payment[r.row] # None
  /\ sub' = TakenBack(r)
  /\ payment' = [payment EXCEPT ![r.row] = None]
  /\ paidUntil' = IF r.newEnd = None THEN paidUntil ELSE paidUntil - payment[r.row].months
  /\ UNCHANGED payments
  /\ Finish(c, r.newEnd # None)

\* The delete finds no row any more and the whole transaction rolls back; or
\* the request dies before it commits.
Abandon(c) ==
  /\ call[c] # None
  /\ call' = [call EXCEPT ![c] = None]
  /\ UNCHANGED <<now, sub, payments, payment, pass, paidUntil, raced>>

-----------------------------------------------------------------------------
(* sweepSubscriptions: one clock reading, then two conditional updates. *)

\* Faulty variant: the pass compares with the time the worker started.
StartPassAtBoot ==
  /\ now = 0 /\ pass.step = "idle"
  /\ pass' = [step |-> "trials", at |-> now]
  /\ UNCHANGED <<now, sub, payments, payment, call, paidUntil, raced>>

StartPass ==
  /\ pass.step = "idle"
  /\ pass' = [step |-> "trials", at |-> now]
  /\ UNCHANGED <<now, sub, payments, payment, call, paidUntil, raced>>

\* Faulty variant: the date alone decides.
ExpiredAnyStatus(s, t) == s.trialEnd < t

Expired(s, t) == s.status = "TRIALING" /\ s.trialEnd < t

EndTrials ==
  /\ pass.step = "trials"
  /\ sub' = IF Expired(sub, pass.at) THEN [sub EXCEPT !.status = "FREE_DOWNGRADED"] ELSE sub
  /\ pass' = [step |-> "lapsed", at |-> pass.at]
  /\ UNCHANGED <<now, payments, payment, call, paidUntil, raced>>

Lapsed(s, t) == s.status = "ACTIVE" /\ s.periodEnd # None /\ s.periodEnd + Grace < t

EndLapsed ==
  /\ pass.step = "lapsed"
  /\ sub' = IF Lapsed(sub, pass.at) THEN [sub EXCEPT !.status = "PAST_DUE"] ELSE sub
  /\ pass' = [step |-> "idle"]
  /\ UNCHANGED <<now, payments, payment, call, paidUntil, raced>>

Tick ==
  /\ now < MaxTime
  /\ now' = now + 1
  /\ UNCHANGED <<sub, payments, payment, call, pass, paidUntil, raced>>

Sweep == StartPass \/ EndTrials \/ EndLapsed

Next ==
  \/ \E c \in Call : StartActivate(c) \/ StartTrial(c) \/ StartTakeBack(c)
  \/ \E c \in Call : Activate(c) \/ GrantTrial(c) \/ TakeBack(c) \/ Abandon(c)
  \/ SetExtraBranches
  \/ Sweep
  \/ Tick

\* The sweep is a repeatable job with a run at boot; nobody has to call it.
Spec == Init /\ [][Next]_vars /\ WF_vars(Sweep)

-----------------------------------------------------------------------------
(* Properties. *)

\* Days that were bought and not taken back are days of access: neither a
\* trial, nor the sweep, nor a payment deleted without its months, nor a
\* renewal cuts them off, unless two admins wrote over each other's row
\* (activateSubscription's "keeps the remaining days", grantTrial's refusal).
PaidAccessKept == ~raced /\ now < paidUntil => Effective(sub, now) # "FREE"

Entitlement(s) == [t \in now..MaxTime |-> Effective(s, t)]
SweepIsSilent  == EndTrials \/ EndLapsed => Entitlement(sub') = Entitlement(sub)

\* The sweep only writes down what has already happened: at no moment from now
\* on is the account entitled to anything else because of it
\* (subscriptions.ts: "Enforcement itself never depends on this").
SweepChangesNothing == [][SweepIsSilent]_vars

Truthful == ~Expired(sub, now) /\ ~Lapsed(sub, now)

\* The stored status does not claim a trial or a period that is over, grace
\* included, for ever: the sweep catches up with every write that leaves such
\* a row, however late that write commits.
StatusComesTrue == []<>Truthful
=============================================================================

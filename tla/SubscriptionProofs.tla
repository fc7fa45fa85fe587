------------------------- MODULE SubscriptionProofs -------------------------
(***************************************************************************)
(* What holds of a subscription for any number of admins, payments, plans  *)
(* and lengths: the days paid for are days of access as long as no admin   *)
(* wrote over another's row, and the sweep takes nothing from anybody. The *)
(* limits of the plan it puts in force (Seats) are the second part.        *)
(***************************************************************************)
EXTENDS Subscription, Seats, FiniteSetTheorems, TLAPS

\* Rows are numbered as they are written, and a request names one that was.
Numbered ==
  /\ \A n \in 1..MaxPayments : payment[n] # None => n <= payments
  /\ \A c \in Call : call[c] # None /\ call[c].op = "takeBack" => call[c].row <= payments

SweepLooksBack == pass.step # "idle" => pass.at <= now

\* The row and the days bought agree: the period ends where the purchases end,
\* and only an active subscription has days left.
RowAgrees ==
  /\ sub.periodEnd # None => sub.periodEnd = paidUntil
  /\ sub.periodEnd = None => paidUntil = 0
  /\ sub.status = "ACTIVE" => sub.periodEnd # None
  /\ sub.status # "ACTIVE" => paidUntil <= now

\* What a request that read the current row is about to write agrees too.
CallAgrees(c) ==
  call[c] # None /\ ~call[c].stale =>
    /\ call[c].op = "activate" =>
         call[c].base = Later(paidUntil, call[c].at) /\ call[c].at <= now
    /\ call[c].op = "trial" => paidUntil <= now
    /\ call[c].op = "takeBack" /\ call[c].newEnd # None =>
         /\ sub.periodEnd # None
         /\ payment[call[c].row] # None =>
              call[c].newEnd = sub.periodEnd - payment[call[c].row].months
         /\ call[c].lapses => call[c].newEnd <= now

Agreed == ~raced => RowAgrees /\ \A c \in Call : CallAgrees(c)

IInv == TypeOK /\ Numbered /\ SweepLooksBack /\ Agreed

-----------------------------------------------------------------------------

LEMMA Access == IInv => PaidAccessKept
<1> SUFFICES ASSUME IInv, ~raced, now < paidUntil PROVE Effective(sub, now) # "FREE"
  BY DEF PaidAccessKept
<1>1. now \in Int /\ paidUntil \in Int /\ Grace \in Nat  BY LengthsInTicks DEF IInv, TypeOK
<1>2. sub.status = "ACTIVE" /\ sub.periodEnd = paidUntil
  BY <1>1 DEF IInv, Agreed, RowAgrees
<1>3. Runs(sub.periodEnd + Grace, now)  BY <1>1, <1>2, NoneIsNoDate DEF Runs
<1>4. sub.plan \in Paid  BY DEF IInv, TypeOK, Row
<1> QED BY <1>2, <1>3, <1>4, FreeIsNotSold DEF Effective

LEMMA InitHolds == Init => IInv
<1> SUFFICES ASSUME Init PROVE IInv  OBVIOUS
<1>1. PICK p \in Paid : sub = SignUp(p)  BY DEF Init
<1>2. 0 \in 0..MaxTime /\ 0 \in 0..MaxPayments /\ Trial \in Int  BY LengthsInTicks
<1>3. sub \in Row  BY <1>1, <1>2 DEF SignUp, Row
<1>4. TypeOK
  <2>1. payment \in [1..MaxPayments -> Bought \union {None}]  BY DEF Init
  <2>2. call \in [Call -> Request \union {None}]  BY DEF Init
  <2>3. pass \in [step : {"idle"}]  BY DEF Init
  <2>4. paidUntil \in Int  BY DEF Init
  <2>6. raced \in BOOLEAN  BY Zenon DEF Init
  <2>5. now \in 0..MaxTime /\ payments \in 0..MaxPayments  BY <1>2 DEF Init
  <2> QED BY <1>3, <2>1, <2>2, <2>3, <2>4, <2>5, <2>6 DEF TypeOK
<1>5. Numbered /\ SweepLooksBack  BY DEF Init, Numbered, SweepLooksBack
<1>6. RowAgrees  BY <1>1 DEF Init, SignUp, RowAgrees
<1>7. \A c \in Call : CallAgrees(c)  BY DEF Init, CallAgrees
<1> QED BY <1>4, <1>5, <1>6, <1>7 DEF IInv, Agreed

-----------------------------------------------------------------------------
(* The reads: a request is added, nothing else moves. *)

LEMMA BeginKeeps ==
  ASSUME IInv, NEW c \in Call, NEW r \in Request, Begin(c, r),
         r.op = "takeBack" => r.row <= payments,
         ~raced =>
           /\ r.op = "activate" => r.base = Later(paidUntil, r.at) /\ r.at <= now
           /\ r.op = "trial" => paidUntil <= now
           /\ r.op = "takeBack" /\ r.newEnd # None =>
                /\ sub.periodEnd # None
                /\ payment[r.row] # None =>
                     r.newEnd = sub.periodEnd - payment[r.row].months
                /\ r.lapses => r.newEnd <= now
  PROVE  IInv'
<1>1. call' = [call EXCEPT ![c] = r]
      /\ UNCHANGED <<now, sub, payments, payment, pass, paidUntil, raced>>
  BY DEF Begin
<1>2. \A d \in Call : call'[d] = IF d = c THEN r ELSE call[d]  BY <1>1 DEF IInv, TypeOK
<1>3. TypeOK'  BY <1>1 DEF IInv, TypeOK
<1>4. Numbered'  BY <1>1, <1>2 DEF IInv, Numbered
<1>5. SweepLooksBack'  BY <1>1 DEF IInv, SweepLooksBack
<1>6. ASSUME ~raced' PROVE RowAgrees' /\ \A d \in Call : CallAgrees(d)'
  <2>1. ~raced /\ RowAgrees'  BY <1>1, <1>6 DEF IInv, Agreed, RowAgrees
  <2>2. ASSUME NEW d \in Call PROVE CallAgrees(d)'
    <3>1. CASE d = c  BY <1>1, <1>2, <2>1, <3>1 DEF CallAgrees
    <3>2. CASE d # c
      <4>1. CallAgrees(d)  BY <2>1 DEF IInv, Agreed
      <4> QED BY <1>1, <1>2, <3>2, <4>1 DEF CallAgrees
    <3> QED BY <3>1, <3>2
  <2> QED BY <2>1, <2>2
<1> QED BY <1>3, <1>4, <1>5, <1>6 DEF IInv, Agreed

LEMMA StartActivateKeeps == ASSUME IInv, NEW c \in Call, StartActivate(c) PROVE IInv'
<1>1. PICK p \in Paid, n \in Length :
        Begin(c, [op |-> "activate", plan |-> p, base |-> RenewalBase, length |-> n,
                  at |-> now, stale |-> FALSE])
  BY DEF StartActivate
<1> DEFINE r == [op |-> "activate", plan |-> p, base |-> RenewalBase, length |-> n,
                 at |-> now, stale |-> FALSE]
<1>2. now \in 0..MaxTime /\ now \in Int /\ paidUntil \in Int
      /\ sub.periodEnd \in Int \union {None}
  BY LengthsInTicks DEF IInv, TypeOK, Row
<1>3. RenewalBase \in Int  BY <1>2 DEF RenewalBase, PaidPeriodRuns, Runs
<1>4. r \in Request  BY <1>2, <1>3 DEF Request, ActivateCall
<1>5. ~raced => RenewalBase = Later(paidUntil, now)
  BY <1>2 DEF IInv, Agreed, RowAgrees, RenewalBase, PaidPeriodRuns, Runs, Later
<1>6. r.op = "activate" /\ r.base = RenewalBase /\ r.at = now  OBVIOUS
<1>7. Begin(c, r)  BY <1>1
<1> HIDE DEF r
<1> QED BY <1>2, <1>4, <1>5, <1>6, <1>7, BeginKeeps

LEMMA StartTrialKeeps == ASSUME IInv, NEW c \in Call, StartTrial(c) PROVE IInv'
<1>1. PICK p \in Paid :
        Begin(c, [op |-> "trial", plan |-> p, base |-> TrialBase, stale |-> FALSE])
  BY DEF StartTrial
<1> DEFINE r == [op |-> "trial", plan |-> p, base |-> TrialBase, stale |-> FALSE]
<1>2. now \in Int /\ paidUntil \in Int /\ sub.periodEnd \in Int \union {None}
      /\ sub.trialEnd \in Int
  BY LengthsInTicks DEF IInv, TypeOK, Row
<1>3. TrialBase \in Int  BY <1>2 DEF TrialBase, Runs
<1>4. r \in Request  BY <1>3 DEF Request, TrialCall
<1>5. ~raced => paidUntil <= now
  BY <1>2 DEF StartTrial, TrialAllowed, IInv, Agreed, RowAgrees, Runs
<1>6. r.op = "trial"  OBVIOUS
<1>7. Begin(c, r)  BY <1>1
<1> HIDE DEF r
<1> QED BY <1>4, <1>5, <1>6, <1>7, BeginKeeps

LEMMA StartTakeBackKeeps == ASSUME IInv, NEW c \in Call, StartTakeBack(c) PROVE IInv'
<1> DEFINE end(p, s) == IF Shortens(p, s) THEN sub.periodEnd - payment[p].months ELSE None
           r(p, s) == [op |-> "takeBack", row |-> p, newEnd |-> end(p, s),
                       lapses |-> end(p, s) # None /\ ~Runs(end(p, s), now),
                       stale |-> FALSE]
<1>1. PICK p \in 1..MaxPayments, s \in BOOLEAN : payment[p] # None /\ Begin(c, r(p, s))
  BY DEF StartTakeBack
<1>2. now \in Int /\ sub.periodEnd \in Int \union {None} /\ payment[p].months \in Nat
  BY <1>1, LengthsInTicks DEF IInv, TypeOK, Row, Bought
<1>3. end(p, s) \in Int \union {None}
      /\ (end(p, s) # None => sub.periodEnd # None
                              /\ end(p, s) = sub.periodEnd - payment[p].months)
  BY <1>2, NoneIsNoDate DEF Shortens
<1> HIDE DEF end
<1>4. r(p, s) \in Request  BY <1>3 DEF Request, TakeBackCall
<1>5. p <= payments  BY <1>1 DEF IInv, Numbered
<1>6. end(p, s) # None /\ ~Runs(end(p, s), now) => end(p, s) <= now
  BY <1>2, <1>3 DEF Runs
<1>7. /\ r(p, s).op = "takeBack" /\ r(p, s).row = p /\ r(p, s).newEnd = end(p, s)
      /\ r(p, s).lapses = (end(p, s) # None /\ ~Runs(end(p, s), now))
  OBVIOUS
<1> HIDE DEF r
<1> QED BY <1>1, <1>3, <1>4, <1>5, <1>6, <1>7, BeginKeeps

-----------------------------------------------------------------------------
(* The transactions. *)

\* The row of a request that ends is free again, and the others are at most
\* told that they are stale.
LEMMA FinishKeepsCalls ==
  ASSUME IInv, NEW c \in Call, NEW w \in BOOLEAN, call[c] # None, Finish(c, w)
  PROVE  /\ call' \in [Call -> Request \union {None}] /\ raced' \in BOOLEAN
         /\ UNCHANGED <<now, pass>>
         /\ call'[c] = None
         /\ \A d \in Call : d # c => /\ call'[d] = None <=> call[d] = None
                                     /\ call'[d].op = call[d].op
                                     /\ call'[d].op = "takeBack" => call'[d].row = call[d].row
                                     /\ ~w => call'[d] = call[d]
                                     /\ w /\ call'[d] # None => call'[d].stale
         /\ ~raced' => ~raced /\ (w => ~call[c].stale)
<1>1. \A d \in Call : call[d] \in Request \union {None}  BY DEF IInv, TypeOK
<1>2. \A d \in Call : call'[d] = IF d = c THEN None
                                ELSE IF call[d] # None /\ w THEN [call[d] EXCEPT !.stale = TRUE]
                                ELSE call[d]
  BY DEF Finish
<1>3. ASSUME NEW q \in Request
      PROVE  LET s == [q EXCEPT !.stale = TRUE] IN
             s \in Request /\ s.op = q.op /\ s.stale /\ (q.op = "takeBack" => s.row = q.row)
  BY DEF Request, ActivateCall, TrialCall, TakeBackCall
<1>4. ASSUME NEW q \in Request PROVE q # None /\ q.stale \in BOOLEAN
  BY NoneIsNoRequest DEF Request, ActivateCall, TrialCall, TakeBackCall
<1> QED BY <1>1, <1>2, <1>3, <1>4 DEF Finish, IInv, TypeOK

\* The transactions that rewrite the dates or the status: every other request
\* has read an old row, so only the row itself has to agree afterwards.
LEMMA WriteKeeps ==
  ASSUME IInv, NEW c \in Call, call[c] # None, Finish(c, TRUE),
         sub' \in Row, payments' \in 0..MaxPayments, payments <= payments',
         payment' \in [1..MaxPayments -> Bought \union {None}], paidUntil' \in Int,
         \A n \in 1..MaxPayments : payment'[n] # None => n <= payments',
         ~raced /\ ~call[c].stale => RowAgrees'
  PROVE  IInv'
<1>1. /\ call' \in [Call -> Request \union {None}] /\ raced' \in BOOLEAN
      /\ UNCHANGED <<now, pass>>
      /\ call'[c] = None
      /\ \A d \in Call : d # c => /\ call'[d] = None <=> call[d] = None
                                  /\ call'[d].op = call[d].op
                                  /\ call'[d].op = "takeBack" => call'[d].row = call[d].row
                                  /\ call'[d] # None => call'[d].stale
      /\ ~raced' => ~raced /\ ~call[c].stale
  BY FinishKeepsCalls
<1>2. TypeOK'  BY <1>1 DEF IInv, TypeOK
<1>3. Numbered'
  <2>1. ASSUME NEW d \in Call, call'[d] # None, call'[d].op = "takeBack"
        PROVE  call'[d].row <= payments'
    <3>1. d # c /\ call[d] # None /\ call[d].op = "takeBack" /\ call'[d].row = call[d].row
      BY <1>1, <2>1
    <3>2. call[d].row <= payments  BY <3>1 DEF IInv, Numbered
    <3>3. call[d] \in Request  BY <3>1 DEF IInv, TypeOK
    <3>4. call[d].row \in Int
      BY <3>1, <3>3 DEF Request, ActivateCall, TrialCall, TakeBackCall
    <3>5. payments \in Int /\ payments' \in Int  BY LengthsInTicks DEF IInv, TypeOK
    <3> QED BY <3>1, <3>2, <3>4, <3>5
  <2> QED BY <2>1 DEF Numbered
<1>4. SweepLooksBack'  BY <1>1 DEF IInv, SweepLooksBack
<1>5. Agreed'  BY <1>1 DEF Agreed, CallAgrees
<1> QED BY <1>2, <1>3, <1>4, <1>5 DEF IInv

LEMMA ActivateKeeps == ASSUME IInv, NEW c \in Call, Activate(c) PROVE IInv'
<1> DEFINE q == call[c]
<1>1. q # None /\ q.op = "activate"  BY DEF Activate
<1>2. q \in Request  BY <1>1 DEF IInv, TypeOK
<1>3. q \in ActivateCall  BY <1>1, <1>2 DEF Request, ActivateCall, TrialCall, TakeBackCall
<1>4. q.plan \in Paid /\ q.base \in Int /\ q.length \in Nat /\ q.at \in Int
  <2>1. q.plan \in Paid /\ q.base \in Int /\ q.length \in Length /\ q.at \in 0..MaxTime
    BY <1>3 DEF ActivateCall
  <2>2. Length \subseteq Nat /\ 0..MaxTime \subseteq Int  BY LengthsInTicks
  <2> HIDE DEF q
  <2>3. q.length \in Nat /\ q.at \in Int  BY <2>1, <2>2
  <2> QED BY <2>1, <2>3
<1>5. /\ sub' = [sub EXCEPT !.plan = q.plan, !.status = "ACTIVE", !.periodEnd = q.base + q.length]
      /\ Pay([months |-> q.length, purpose |-> "plan"])
      /\ paidUntil' = Later(paidUntil, q.at) + q.length
      /\ Finish(c, TRUE)
  BY DEF Activate
<1>6. CallAgrees(c) /\ ~q.stale => q.base = Later(paidUntil, q.at)
  BY <1>1 DEF CallAgrees
<1> HIDE DEF q
<1>7. paidUntil' \in Int  BY <1>4, <1>5 DEF IInv, TypeOK, Later
<1>8. sub \in Row  BY DEF IInv, TypeOK
<1>9. sub' \in Row
  <2>1. q.base + q.length \in Int /\ sub' = [sub EXCEPT !.plan = q.plan, !.status = "ACTIVE",
                                                   !.periodEnd = q.base + q.length]
    BY <1>4, <1>5
  <2> QED BY <1>4, <1>8, <2>1 DEF Row
<1>10. payments \in 0..MaxPayments /\ payments' = payments + 1 /\ payments < MaxPayments
  <2>1. payments' = payments + 1 /\ payments < MaxPayments  BY <1>5 DEF Pay
  <2>2. payments \in 0..MaxPayments  BY DEF IInv, TypeOK
  <2> QED BY <2>1, <2>2
<1>11. payments' \in 0..MaxPayments /\ payments <= payments' /\ payments + 1 \in 1..MaxPayments
  BY <1>10, LengthsInTicks
<1>12. /\ payment' \in [1..MaxPayments -> Bought \union {None}]
       /\ \A n \in 1..MaxPayments : n # payments + 1 => payment'[n] = payment[n]
  BY <1>4, <1>5, <1>11 DEF Pay, IInv, TypeOK, Bought
<1>13. ASSUME NEW n \in 1..MaxPayments, payment'[n] # None PROVE n <= payments'
  <2>1. CASE n = payments + 1  BY <1>10, <2>1
  <2>2. CASE n # payments + 1
    <3>1. n <= payments  BY <1>12, <1>13, <2>2 DEF IInv, Numbered
    <3> QED BY <1>10, <3>1, LengthsInTicks
  <2> QED BY <2>1, <2>2
<1>14. ASSUME ~raced, ~q.stale PROVE RowAgrees'
  <2>1. q.base = Later(paidUntil, q.at)  BY <1>6, <1>14 DEF IInv, Agreed
  <2>2. sub'.periodEnd = q.base + q.length /\ sub'.status = "ACTIVE"  BY <1>5, <1>8 DEF Row
  <2>3. sub'.periodEnd = paidUntil' /\ sub'.periodEnd # None
    BY <1>4, <1>5, <1>7, <2>1, <2>2, NoneIsNoDate
  <2> QED BY <2>2, <2>3 DEF RowAgrees
<1> QED
  <2>1. call[c] # None /\ (~call[c].stale => ~q.stale)  BY <1>1 DEF q
  <2> QED BY <1>5, <1>7, <1>9, <1>11, <1>12, <1>13, <1>14, <2>1, WriteKeeps

LEMMA GrantTrialKeeps == ASSUME IInv, NEW c \in Call, GrantTrial(c) PROVE IInv'
<1>1. /\ call[c] # None /\ call[c].op = "trial"
      /\ sub' = [sub EXCEPT !.plan = call[c].plan, !.status = "TRIALING",
                            !.trialEnd = call[c].base + Trial]
      /\ UNCHANGED <<payments, payment, paidUntil>>
      /\ Finish(c, TRUE)
  BY DEF GrantTrial
<1>2. call[c] \in Request  BY <1>1 DEF IInv, TypeOK
<1>3. call[c] \in TrialCall
  BY <1>1, <1>2 DEF Request, ActivateCall, TrialCall, TakeBackCall
<1>4. call[c].plan \in Paid /\ call[c].base + Trial \in Int
  BY <1>3, LengthsInTicks DEF TrialCall
<1>5. sub \in Row  BY DEF IInv, TypeOK
<1>6. sub' \in Row /\ sub'.status = "TRIALING" /\ sub'.periodEnd = sub.periodEnd
  BY <1>1, <1>4, <1>5 DEF Row
<1>7. now' = now  BY <1>1 DEF Finish
<1>8. ASSUME ~raced, ~call[c].stale PROVE RowAgrees'
  <2>1. RowAgrees /\ paidUntil <= now
    BY <1>1, <1>8 DEF IInv, Agreed, CallAgrees
  <2> QED BY <1>1, <1>6, <1>7, <2>1 DEF RowAgrees
<1>9. payments \in 0..MaxPayments /\ payments <= payments
  BY LengthsInTicks DEF IInv, TypeOK
<1>10. /\ payment \in [1..MaxPayments -> Bought \union {None}] /\ paidUntil \in Int
       /\ \A n \in 1..MaxPayments : payment[n] # None => n <= payments
  BY DEF IInv, TypeOK, Numbered
<1> QED BY <1>1, <1>6, <1>8, <1>9, <1>10, WriteKeeps

LEMMA TakeBackKeeps == ASSUME IInv, NEW c \in Call, TakeBack(c) PROVE IInv'
<1> DEFINE q == call[c]
<1>1. /\ q # None /\ q.op = "takeBack" /\ payment[q.row] # None
      /\ sub' = TakenBack(q)
      /\ payment' = [payment EXCEPT ![q.row] = None]
      /\ paidUntil' = IF q.newEnd = None THEN paidUntil ELSE paidUntil - payment[q.row].months
      /\ UNCHANGED payments
      /\ Finish(c, q.newEnd # None)
  BY DEF TakeBack
<1>2. q \in Request  BY <1>1 DEF IInv, TypeOK
<1>3. q \in TakeBackCall
  BY <1>1, <1>2 DEF Request, ActivateCall, TrialCall, TakeBackCall
<1>4. /\ q.row \in 1..MaxPayments /\ q.newEnd \in Int \union {None}
      /\ q.lapses \in BOOLEAN /\ q.stale \in BOOLEAN
  BY <1>3 DEF TakeBackCall
<1>5. CallAgrees(c) /\ ~q.stale /\ q.newEnd # None =>
        /\ sub.periodEnd # None
        /\ q.newEnd = sub.periodEnd - payment[q.row].months
        /\ q.lapses => q.newEnd <= now
  BY <1>1 DEF CallAgrees
<1>6. call[c] # None /\ (~call[c].stale => ~q.stale)  BY <1>1
<1> HIDE DEF q
<1>7. /\ payment' \in [1..MaxPayments -> Bought \union {None}]
      /\ \A n \in 1..MaxPayments : payment'[n] = IF n = q.row THEN None ELSE payment[n]
  BY <1>1, <1>4 DEF IInv, TypeOK
<1>8. \A n \in 1..MaxPayments : payment'[n] # None => n <= payments'
  BY <1>1, <1>7 DEF IInv, Numbered
<1>9. payment[q.row].months \in Nat  BY <1>1, <1>4 DEF IInv, TypeOK, Bought
<1>10. sub \in Row /\ paidUntil \in Int /\ now \in Int
  BY LengthsInTicks DEF IInv, TypeOK
<1>11. CASE q.newEnd = None
  <2>1. sub' = sub /\ paidUntil' = paidUntil  BY <1>1, <1>11 DEF TakenBack
  <2>2. Finish(c, FALSE)  BY <1>1, <1>11
  <2>3. /\ call' \in [Call -> Request \union {None}] /\ raced' \in BOOLEAN
        /\ UNCHANGED <<now, pass>>
        /\ call'[c] = None
        /\ \A d \in Call : d # c => call'[d] = call[d]
        /\ ~raced' => ~raced
    BY <1>6, <2>2, FinishKeepsCalls
  <2>4. TypeOK'  BY <1>1, <1>7, <2>1, <2>3 DEF IInv, TypeOK
  <2>5. Numbered'
    <3>1. ASSUME NEW d \in Call, call'[d] # None, call'[d].op = "takeBack"
          PROVE  call'[d].row <= payments'
      BY <1>1, <2>3, <3>1 DEF IInv, Numbered
    <3> QED BY <1>8, <3>1 DEF Numbered
  <2>6. SweepLooksBack'  BY <2>3 DEF IInv, SweepLooksBack
  <2>7. ASSUME ~raced' PROVE RowAgrees' /\ \A d \in Call : CallAgrees(d)'
    <3>1. RowAgrees /\ \A d \in Call : CallAgrees(d)  BY <2>3, <2>7 DEF IInv, Agreed
    <3>2. RowAgrees'  BY <2>1, <2>3, <3>1 DEF RowAgrees
    <3>3. ASSUME NEW d \in Call PROVE CallAgrees(d)'
      <4>1. CASE d = c  BY <2>3, <4>1 DEF CallAgrees
      <4>2. CASE d # c /\ call[d] # None
        <5>1. CallAgrees(d) /\ call'[d] = call[d]  BY <2>3, <3>1, <4>2
        <5>2. call[d] \in Request  BY <4>2 DEF IInv, TypeOK
        <5>3. call[d].op = "takeBack" => call[d].row \in 1..MaxPayments
          BY <5>2 DEF Request, ActivateCall, TrialCall, TakeBackCall
        <5>4. call[d].op = "takeBack" /\ payment'[call[d].row] # None =>
                payment'[call[d].row] = payment[call[d].row]
          BY <1>7, <5>3
        <5> QED BY <2>1, <2>3, <5>1, <5>4 DEF CallAgrees
      <4>3. CASE d # c /\ call[d] = None  BY <2>3, <4>3 DEF CallAgrees
      <4> QED BY <4>1, <4>2, <4>3
    <3> QED BY <3>2, <3>3
  <2> QED BY <2>4, <2>5, <2>6, <2>7 DEF IInv, Agreed
<1>12. CASE q.newEnd # None
  <2>1. Finish(c, TRUE) /\ paidUntil' = paidUntil - payment[q.row].months /\ q.newEnd \in Int
    BY <1>1, <1>4, <1>12
  <2>2. paidUntil' \in Int  BY <1>9, <1>10, <2>1
  <2>3. /\ sub' \in Row /\ sub'.periodEnd = q.newEnd
        /\ sub'.status = IF q.lapses THEN "FREE_DOWNGRADED" ELSE sub.status
    BY <1>1, <1>10, <1>12, <2>1 DEF TakenBack, Row
  <2>4. ASSUME ~raced, ~q.stale PROVE RowAgrees'
    <3>1. /\ RowAgrees /\ sub.periodEnd # None
          /\ q.newEnd = sub.periodEnd - payment[q.row].months
          /\ q.lapses => q.newEnd <= now
      BY <1>5, <1>12, <2>4 DEF IInv, Agreed
    <3>2. q.newEnd = paidUntil' /\ paidUntil' <= paidUntil
      BY <1>9, <1>10, <2>1, <3>1 DEF RowAgrees
    <3>3. now' = now  BY <2>1 DEF Finish
    <3>4. sub'.status # "ACTIVE" => paidUntil' <= now'
      BY <1>10, <2>2, <2>3, <3>1, <3>2, <3>3 DEF RowAgrees
    <3> QED BY <1>12, <2>3, <3>2, <3>4 DEF RowAgrees
  <2>5. payments' \in 0..MaxPayments /\ payments <= payments'
    BY <1>1, LengthsInTicks DEF IInv, TypeOK
  <2> QED BY <1>6, <1>7, <1>8, <2>1, <2>2, <2>3, <2>4, <2>5, WriteKeeps
<1> QED BY <1>11, <1>12

-----------------------------------------------------------------------------
(* Steps that leave the row's dates alone. *)

LEMMA AbandonKeeps == ASSUME IInv, NEW c \in Call, Abandon(c) PROVE IInv'
<1>1. /\ call' = [call EXCEPT ![c] = None]
      /\ UNCHANGED <<now, sub, payments, payment, pass, paidUntil, raced>>
  BY DEF Abandon
<1>2. \A d \in Call : call'[d] = IF d = c THEN None ELSE call[d]
  BY <1>1 DEF IInv, TypeOK
<1>3. TypeOK'  BY <1>1 DEF IInv, TypeOK
<1>4. Numbered' /\ SweepLooksBack'  BY <1>1, <1>2 DEF IInv, Numbered, SweepLooksBack
<1>5. ASSUME ~raced' PROVE RowAgrees' /\ \A d \in Call : CallAgrees(d)'
  <2>1. RowAgrees /\ \A d \in Call : CallAgrees(d)  BY <1>1, <1>5 DEF IInv, Agreed
  <2>2. RowAgrees'  BY <1>1, <2>1 DEF RowAgrees
  <2>3. \A d \in Call : CallAgrees(d)'  BY <1>1, <1>2, <2>1 DEF CallAgrees
  <2> QED BY <2>2, <2>3
<1> QED BY <1>3, <1>4, <1>5 DEF IInv, Agreed

LEMMA SetExtraBranchesKeeps == ASSUME IInv, SetExtraBranches PROVE IInv'
<1>1. /\ payments' = payments + 1 /\ payments < MaxPayments
      /\ payment' = [payment EXCEPT ![payments + 1] = [months |-> 1, purpose |-> "branches"]]
      /\ UNCHANGED <<now, sub, call, pass, paidUntil, raced>>
  BY DEF SetExtraBranches, Pay
<1>2. payments \in 0..MaxPayments  BY DEF IInv, TypeOK
<1>3. payments \in Int /\ payments' \in 0..MaxPayments /\ payments + 1 \in 1..MaxPayments
  BY <1>1, <1>2, LengthsInTicks
<1>4. /\ payment' \in [1..MaxPayments -> Bought \union {None}]
      /\ \A n \in 1..MaxPayments : n # payments + 1 => payment'[n] = payment[n]
  BY <1>1, <1>3 DEF IInv, TypeOK, Bought
<1>5. TypeOK'  BY <1>1, <1>3, <1>4 DEF IInv, TypeOK
<1>6. ASSUME NEW n \in 1..MaxPayments, payment'[n] # None PROVE n <= payments'
  <2>1. CASE n = payments + 1  BY <1>1, <2>1
  <2>2. CASE n # payments + 1
    <3>1. n <= payments  BY <1>4, <1>6, <2>2 DEF IInv, Numbered
    <3> QED BY <1>1, <1>3, <3>1, LengthsInTicks
  <2> QED BY <2>1, <2>2
<1>7. ASSUME NEW c \in Call, call[c] # None, call[c].op = "takeBack"
      PROVE  call[c].row \in 1..MaxPayments /\ call[c].row <= payments
  <2>1. call[c] \in Request  BY <1>7 DEF IInv, TypeOK
  <2>2. call[c].row \in 1..MaxPayments
    BY <1>7, <2>1 DEF Request, ActivateCall, TrialCall, TakeBackCall
  <2>3. call[c].row <= payments  BY <1>7 DEF IInv, Numbered
  <2> QED BY <2>2, <2>3
<1>8. Numbered'
  <2>1. ASSUME NEW c \in Call, call'[c] # None, call'[c].op = "takeBack"
        PROVE  call'[c].row <= payments'
    <3>1. call[c].row \in 1..MaxPayments /\ call[c].row <= payments /\ call' = call
      BY <1>1, <1>7, <2>1
    <3> QED BY <1>1, <1>3, <3>1, LengthsInTicks
  <2> QED BY <1>6, <2>1 DEF Numbered
<1>9. SweepLooksBack'  BY <1>1 DEF IInv, SweepLooksBack
<1>10. ASSUME ~raced' PROVE RowAgrees' /\ \A c \in Call : CallAgrees(c)'
  <2>1. RowAgrees /\ \A c \in Call : CallAgrees(c)  BY <1>1, <1>10 DEF IInv, Agreed
  <2>2. RowAgrees'  BY <1>1, <2>1 DEF RowAgrees
  <2>3. ASSUME NEW c \in Call PROVE CallAgrees(c)'
    <3>1. call[c] # None /\ call[c].op = "takeBack" =>
            payment'[call[c].row] = payment[call[c].row]
      <4>1. ASSUME call[c] # None, call[c].op = "takeBack"
            PROVE  call[c].row # payments + 1 /\ call[c].row \in 1..MaxPayments
        BY <1>3, <1>7, <4>1
      <4> QED BY <1>4, <4>1
    <3>2. CallAgrees(c)  BY <2>1
    <3> QED BY <1>1, <3>1, <3>2 DEF CallAgrees
  <2> QED BY <2>2, <2>3
<1> QED BY <1>5, <1>8, <1>9, <1>10 DEF IInv, Agreed

\* A step of the sweep moves no date; it ends only what no longer entitles.
LEMMA StatusOnly ==
  ASSUME IInv, UNCHANGED <<now, payments, payment, call, paidUntil, raced>>,
         sub' \in Row, sub'.periodEnd = sub.periodEnd,
         sub'.status = "ACTIVE" => sub.status = "ACTIVE",
         ~raced /\ RowAgrees /\ sub'.status # "ACTIVE" => paidUntil <= now,
         pass' \in [step : {"idle"}] \union [step : {"trials", "lapsed"}, at : 0..MaxTime],
         pass'.step # "idle" => pass'.at <= now
  PROVE  IInv'
<1>1. TypeOK' /\ Numbered' /\ SweepLooksBack'
  BY DEF IInv, TypeOK, Numbered, SweepLooksBack
<1>2. ASSUME ~raced' PROVE RowAgrees' /\ \A c \in Call : CallAgrees(c)'
  <2>1. RowAgrees /\ \A c \in Call : CallAgrees(c)  BY <1>2 DEF IInv, Agreed
  <2>2. RowAgrees'  BY <1>2, <2>1 DEF RowAgrees
  <2>3. \A c \in Call : CallAgrees(c)'  BY <2>1 DEF CallAgrees
  <2> QED BY <2>2, <2>3
<1> QED BY <1>1, <1>2 DEF IInv, Agreed

LEMMA StartPassKeeps == ASSUME IInv, StartPass PROVE IInv'
<1>1. pass' = [step |-> "trials", at |-> now] /\ now \in 0..MaxTime /\ sub \in Row
      /\ UNCHANGED <<now, sub, payments, payment, call, paidUntil, raced>>
  BY DEF StartPass, IInv, TypeOK
<1>2. pass' \in [step : {"trials", "lapsed"}, at : 0..MaxTime] /\ pass'.at <= now
  BY <1>1, LengthsInTicks
<1>3. RowAgrees /\ sub'.status # "ACTIVE" => paidUntil <= now  BY <1>1 DEF RowAgrees
<1> QED BY <1>1, <1>2, <1>3, StatusOnly

LEMMA EndTrialsKeeps == ASSUME IInv, EndTrials PROVE IInv'
<1>1. /\ pass.step = "trials" /\ pass' = [step |-> "lapsed", at |-> pass.at] /\ sub \in Row
      /\ UNCHANGED <<now, payments, payment, call, paidUntil, raced>>
      /\ sub' = IF Expired(sub, pass.at) THEN [sub EXCEPT !.status = "FREE_DOWNGRADED"] ELSE sub
  BY DEF EndTrials, IInv, TypeOK
<1>2. pass \in [step : {"trials", "lapsed"}, at : 0..MaxTime]  BY <1>1 DEF IInv, TypeOK
<1>3. /\ pass' \in [step : {"trials", "lapsed"}, at : 0..MaxTime] /\ pass'.at <= now
  BY <1>1, <1>2 DEF IInv, SweepLooksBack
<1>4. /\ sub' \in Row /\ sub'.periodEnd = sub.periodEnd
      /\ sub'.status = "ACTIVE" <=> sub.status = "ACTIVE"
  <2>1. CASE Expired(sub, pass.at)  BY <1>1, <2>1 DEF Expired, Row
  <2>2. CASE ~Expired(sub, pass.at)  BY <1>1, <2>2
  <2> QED BY <2>1, <2>2
<1>5. RowAgrees /\ sub'.status # "ACTIVE" => paidUntil <= now  BY <1>4 DEF RowAgrees
<1> QED BY <1>1, <1>3, <1>4, <1>5, StatusOnly

LEMMA EndLapsedKeeps == ASSUME IInv, EndLapsed PROVE IInv'
<1>1. /\ pass.step = "lapsed" /\ pass' = [step |-> "idle"] /\ sub \in Row
      /\ UNCHANGED <<now, payments, payment, call, paidUntil, raced>>
      /\ sub' = IF Lapsed(sub, pass.at) THEN [sub EXCEPT !.status = "PAST_DUE"] ELSE sub
  BY DEF EndLapsed, IInv, TypeOK
<1>2. pass \in [step : {"trials", "lapsed"}, at : 0..MaxTime]  BY <1>1 DEF IInv, TypeOK
<1>3. pass.at \in Int /\ now \in Int /\ paidUntil \in Int /\ pass.at <= now
      /\ sub.periodEnd \in Int \union {None}
  BY <1>1, <1>2, LengthsInTicks DEF IInv, SweepLooksBack, TypeOK, Row
<1>4. pass' \in [step : {"idle"}] /\ pass'.step = "idle"  BY <1>1
<1>5. CASE Lapsed(sub, pass.at)
  <2>1. /\ sub' \in Row /\ sub'.periodEnd = sub.periodEnd /\ sub'.status = "PAST_DUE"
    BY <1>1, <1>5 DEF Row
  <2>2. sub.periodEnd \in Int /\ sub.periodEnd + Grace < pass.at
    BY <1>3, <1>5 DEF Lapsed
  <2>3. RowAgrees => paidUntil <= now
    BY <1>3, <2>2, LengthsInTicks, NoneIsNoDate DEF RowAgrees
  <2> QED BY <1>1, <1>4, <2>1, <2>3, StatusOnly
<1>6. CASE ~Lapsed(sub, pass.at)
  <2>1. sub' = sub  BY <1>1, <1>6
  <2>2. RowAgrees /\ sub'.status # "ACTIVE" => paidUntil <= now  BY <2>1 DEF RowAgrees
  <2> QED BY <1>1, <1>4, <2>1, <2>2, StatusOnly
<1> QED BY <1>5, <1>6

LEMMA TickKeeps == ASSUME IInv, Tick PROVE IInv'
<1>1. /\ now' = now + 1 /\ now < MaxTime
      /\ UNCHANGED <<sub, payments, payment, call, pass, paidUntil, raced>>
  BY DEF Tick
<1>2. now \in Int /\ now' \in 0..MaxTime /\ paidUntil \in Int
  BY <1>1, LengthsInTicks DEF IInv, TypeOK
<1>3. TypeOK'  BY <1>1, <1>2 DEF IInv, TypeOK
<1>4. Numbered'  BY <1>1 DEF IInv, Numbered
<1>5. SweepLooksBack'
  <2>1. ASSUME pass.step # "idle" PROVE pass.at <= now + 1
    <3>1. pass \in [step : {"trials", "lapsed"}, at : 0..MaxTime] /\ pass.at <= now
      BY <2>1 DEF IInv, TypeOK, SweepLooksBack
    <3> QED BY <1>2, <3>1, LengthsInTicks
  <2> QED BY <1>1, <2>1 DEF SweepLooksBack
<1>6. ASSUME ~raced' PROVE RowAgrees' /\ \A c \in Call : CallAgrees(c)'
  <2>1. RowAgrees /\ \A c \in Call : CallAgrees(c)  BY <1>1, <1>6 DEF IInv, Agreed
  <2>2. RowAgrees'  BY <1>1, <1>2, <2>1 DEF RowAgrees
  <2>3. ASSUME NEW c \in Call PROVE CallAgrees(c)'
    <3>1. CASE call[c] = None  BY <1>1, <3>1 DEF CallAgrees
    <3>2. CASE call[c] # None
      <4>1. call[c] \in Request /\ CallAgrees(c)  BY <2>1, <3>2 DEF IInv, TypeOK
      <4>2. call[c].op = "activate" => call[c].at \in 0..MaxTime
        BY <4>1 DEF Request, ActivateCall, TrialCall, TakeBackCall
      <4>3. call[c].op = "takeBack" => call[c].newEnd \in Int \union {None}
        BY <4>1 DEF Request, ActivateCall, TrialCall, TakeBackCall
      <4> QED BY <1>1, <1>2, <4>1, <4>2, <4>3, LengthsInTicks DEF CallAgrees
    <3> QED BY <3>1, <3>2
  <2> QED BY <2>2, <2>3
<1> QED BY <1>3, <1>4, <1>5, <1>6 DEF IInv, Agreed

LEMMA NextKeeps == ASSUME IInv, [Next]_vars PROVE IInv'
<1>1. ASSUME NEW c \in Call, StartActivate(c) \/ StartTrial(c) \/ StartTakeBack(c) PROVE IInv'
  BY <1>1, StartActivateKeeps, StartTrialKeeps, StartTakeBackKeeps
<1>2. ASSUME NEW c \in Call, Activate(c) \/ GrantTrial(c) \/ TakeBack(c) \/ Abandon(c)
      PROVE  IInv'
  BY <1>2, ActivateKeeps, GrantTrialKeeps, TakeBackKeeps, AbandonKeeps
<1>3. CASE SetExtraBranches  BY <1>3, SetExtraBranchesKeeps
<1>4. CASE Sweep  BY <1>4, StartPassKeeps, EndTrialsKeeps, EndLapsedKeeps DEF Sweep
<1>5. CASE Tick  BY <1>5, TickKeeps
<1>6. CASE UNCHANGED vars
  BY <1>6 DEF vars, IInv, TypeOK, Numbered, SweepLooksBack, Agreed, RowAgrees, CallAgrees
<1> QED BY <1>1, <1>2, <1>3, <1>4, <1>5, <1>6 DEF Next

LEMMA Invariance == Spec => []IInv
<1> QED BY InitHolds, NextKeeps, PTL DEF Spec

-----------------------------------------------------------------------------

\* Every state is well typed (admin/actions.ts and the sweep write no other
\* status, and a request carries only what its schema lets in).
THEOREM TypeCorrect == Spec => []TypeOK
<1>1. IInv => TypeOK  BY DEF IInv
<1> QED BY <1>1, Invariance, PTL

\* A day that was paid for and not taken back is a day of access, for any
\* number of admins, whatever trials are asked for and whenever the sweep runs,
\* as long as no transaction wrote over a row changed since it was read.
THEOREM PaidDaysHonoured == Spec => []PaidAccessKept
<1> QED BY Access, Invariance, PTL

LEMMA StepIsSilent == ASSUME IInv, [Next]_vars PROVE [SweepIsSilent]_vars
<1> SUFFICES ASSUME EndTrials \/ EndLapsed, NEW t \in now..MaxTime
             PROVE  Effective(sub', t) = Effective(sub, t)
  BY DEF SweepIsSilent, Entitlement
<1>1. sub \in Row /\ now \in Int  BY LengthsInTicks DEF IInv, TypeOK
<1>2. pass \in [step : {"trials", "lapsed"}, at : 0..MaxTime] /\ pass.at <= now
  BY DEF EndTrials, EndLapsed, IInv, TypeOK, SweepLooksBack
<1>3. pass.at \in Int /\ t \in Int /\ pass.at <= t  BY <1>1, <1>2, LengthsInTicks
<1>4. sub.trialEnd \in Int /\ sub.periodEnd \in Int \union {None}  BY <1>1 DEF Row
<1>5. CASE EndTrials
  <2>1. CASE Expired(sub, pass.at)
    <3>1. sub'.status = "FREE_DOWNGRADED"  BY <1>1, <1>5, <2>1 DEF EndTrials, Row
    <3>2. ~Runs(sub.trialEnd, t) /\ sub.status = "TRIALING"
      BY <1>3, <1>4, <2>1 DEF Expired, Runs
    <3> QED BY <3>1, <3>2 DEF Effective
  <2>2. CASE ~Expired(sub, pass.at)  BY <1>5, <2>2 DEF EndTrials
  <2> QED BY <2>1, <2>2
<1>6. CASE EndLapsed
  <2>1. CASE Lapsed(sub, pass.at)
    <3>1. sub'.status = "PAST_DUE"  BY <1>1, <1>6, <2>1 DEF EndLapsed, Row
    <3>2. sub.status = "ACTIVE" /\ sub.periodEnd # None /\ ~Runs(sub.periodEnd + Grace, t)
      BY <1>3, <1>4, <2>1, LengthsInTicks DEF Lapsed, Runs
    <3> QED BY <3>1, <3>2 DEF Effective
  <2>2. CASE ~Lapsed(sub, pass.at)  BY <1>6, <2>2 DEF EndLapsed
  <2> QED BY <2>1, <2>2
<1> QED BY <1>5, <1>6

\* The sweep takes no entitlement away and gives none, now or later: it only
\* writes down what effectivePlan already answers.
THEOREM SweepIsTruthful == Spec => SweepChangesNothing
<1> QED BY StepIsSilent, Invariance, PTL DEF Spec, SweepChangesNothing
-----------------------------------------------------------------------------
(* Seats and branches: the limits hold for any number of requests,         *)
(* masters, branches and plans.  The one who counts holds the lock until   *)
(* the place is taken, and everybody else only gives places back           *)
(* meanwhile.                                                              *)

AtMost(a, b) == b = Unlimited \/ (a # Unlimited /\ a <= b)

\* A request counts and writes under the lock it needs, and works with a limit
\* the account had at some time.
Orderly(c) ==
  /\ ask[c].at \in {"count", "write"} /\ ask[c].max # Unlimited => lock[ask[c].kind] = c
  /\ ask[c].at \in {"lock", "count"} => ask[c].max # Unlimited
  /\ ask[c].at # "idle" =>
       IF ask[c].kind = "Salon" THEN AtMost(ask[c].max, highSeats)
       ELSE ask[c].max \in Nat /\ ask[c].max <= highCap

\* Whoever is about to write has room, as long as a limit applies.
Counted(c) ==
  ask[c].at = "write" /\ ask[c].max # Unlimited =>
    IF ask[c].kind = "Salon"
    THEN highSeats # Unlimited => Cardinality(Active \ {ask[c].who}) < ask[c].max
    ELSE Cardinality(Branches) < ask[c].max

PlansKnown == AtMost(seats, highSeats) /\ cap <= highCap

SeatsInv ==
  /\ SeatsTypeOK
  /\ PlansKnown
  /\ \A c \in Asker : Orderly(c) /\ Counted(c)
  /\ StaffWithinPlans
  /\ BranchesWithinPlans

-----------------------------------------------------------------------------
(* Finite sets. *)

LEMMA Finite ==
  /\ IsFiniteSet(Active) /\ IsFiniteSet(Branches)
  /\ Cardinality(Active) \in Nat /\ Cardinality(Branches) \in Nat
  /\ \A e : IsFiniteSet(Active \ {e}) /\ Cardinality(Active \ {e}) \in Nat
<1>1. Active \in SUBSET Employee /\ Branches \in SUBSET Branch  BY DEF Active, Branches
<1>2. \A e : Active \ {e} \in SUBSET Employee  BY <1>1
<1>3. IsFiniteSet(Active) /\ IsFiniteSet(Branches) /\ \A e : IsFiniteSet(Active \ {e})
  BY <1>1, <1>2, FS_Subset, FiniteAccount
<1> QED BY <1>3, FS_CardinalityType

\* With fewer active masters there are fewer beside any of them.
LEMMA FewerActive ==
  ASSUME Active' \subseteq Active
  PROVE  /\ Cardinality(Active') <= Cardinality(Active)
         /\ Cardinality(Active') \in Nat
         /\ \A e : /\ Cardinality((Active \ {e})') <= Cardinality(Active \ {e})
                   /\ Cardinality((Active \ {e})') \in Nat
<1>1. Active' \in SUBSET Active /\ \A e : Active' \ {e} \in SUBSET (Active \ {e})  OBVIOUS
<1>2. IsFiniteSet(Active') /\ \A e : IsFiniteSet(Active' \ {e})
  BY <1>1, Finite, FS_Subset
<1> QED BY <1>1, <1>2, Finite, FS_Subset, FS_CardinalityType

LEMMA FewerBranches ==
  ASSUME Branches' \subseteq Branches
  PROVE  Cardinality(Branches') <= Cardinality(Branches) /\ Cardinality(Branches') \in Nat
<1>1. Branches' \in SUBSET Branches  OBVIOUS
<1> QED BY <1>1, Finite, FS_Subset, FS_CardinalityType

-----------------------------------------------------------------------------

\* What SeatsTypeOK says of one request and of the limits.
LEMMA Typed ==
  ASSUME SeatsTypeOK
  PROVE  /\ \A c \in Asker : /\ ask[c].at \in At /\ ask[c].kind \in {"Salon", "Account"}
                            /\ ask[c].who \in Employee \union {Nobody}
                            /\ ask[c].max \in Nat \union {Unlimited}
         /\ seats \in Nat \union {Unlimited} /\ highSeats \in Nat \union {Unlimited}
         /\ cap \in Nat \ {0} /\ highCap \in Nat \ {0}
<1>1. \A c \in Asker : ask[c] \in Ask  BY DEF SeatsTypeOK
<1>2. \A c \in Asker : /\ ask[c].at \in At /\ ask[c].kind \in {"Salon", "Account"}
                      /\ ask[c].who \in Employee \union {Nobody}
                      /\ ask[c].max \in Nat \union {Unlimited}
  BY <1>1 DEF Ask
<1>3. /\ seats \in Nat \union {Unlimited} /\ highSeats \in Nat \union {Unlimited}
      /\ cap \in Nat \ {0} /\ highCap \in Nat \ {0}
  BY LimitsAreNumbers DEF SeatsTypeOK
<1> QED BY <1>2, <1>3

LEMMA SeatsInitHolds == SeatsInit => SeatsInv
<1> SUFFICES ASSUME SeatsInit PROVE SeatsInv  OBVIOUS
<1>1. Idle \in Ask  BY DEF Idle, Ask, At
<1>2. SeatsTypeOK
  <2>1. branch \in [Branch -> {"absent", "ACTIVE", "SUSPENDED"}]  BY DEF SeatsInit
  <2> QED BY <1>1, <2>1 DEF SeatsInit, SeatsTypeOK
<1>3. \A c \in Asker : Orderly(c) /\ Counted(c)  BY DEF SeatsInit, Idle, Orderly, Counted
<1>4. StaffWithinPlans
  <2>1. Active = {}  BY DEF SeatsInit, Active
  <2>2. highSeats # Unlimited => highSeats \in Nat  BY LimitsAreNumbers DEF SeatsInit
  <2> QED BY <2>1, <2>2, FS_EmptySet DEF StaffWithinPlans
<1>5. BranchesWithinPlans
  <2>1. Branches = {Primary}  BY FiniteAccount DEF SeatsInit, Branches
  <2>2. Cardinality(Branches) = 1  BY <2>1, FS_Singleton
  <2>3. highCap \in Nat \ {0}  BY LimitsAreNumbers DEF SeatsInit
  <2> QED BY <2>2, <2>3 DEF BranchesWithinPlans
<1>6. PlansKnown  BY <1>2, Typed DEF SeatsInit, PlansKnown, AtMost
<1> QED BY <1>2, <1>3, <1>4, <1>5, <1>6 DEF SeatsInv

\* A request moves, nobody gains a place, the plans stay: what is left to show
\* is what the new state of the request itself promises.
LEMMA MoveKeeps ==
  ASSUME SeatsInv, NEW c \in Asker, NEW r \in Ask, Goto(c, r),
         UNCHANGED <<staff, branch, plans>>,
         lock' \in [{"Salon", "Account"} -> Asker \union {Nobody}],
         \A d \in Asker \ {c} : \A k \in {"Salon", "Account"} : lock[k] = d => lock'[k] = d,
         Orderly(c)', Counted(c)'
  PROVE  SeatsInv'
<1>1. ask' = [ask EXCEPT ![c] = r]  BY DEF Goto
<1>2. ask' \in [Asker -> Ask]  BY <1>1 DEF SeatsInv, SeatsTypeOK
<1>3. UNCHANGED <<staff, branch, seats, cap, highSeats, highCap>>  BY DEF plans
<1>4. SeatsTypeOK'  BY <1>2, <1>3 DEF SeatsInv, SeatsTypeOK
<1>5. Active' = Active /\ Branches' = Branches  BY <1>3 DEF Active, Branches
<1>6. ASSUME NEW d \in Asker PROVE Orderly(d)' /\ Counted(d)'
  <2>1. CASE d = c  BY <2>1
  <2>2. CASE d # c
    <3>1. ask'[d] = ask[d]  BY <1>1, <2>2 DEF SeatsInv, SeatsTypeOK
    <3>2. Orderly(d) /\ Counted(d) /\ ask[d].kind \in {"Salon", "Account"}
      BY Typed DEF SeatsInv
    <3>3. Orderly(d)'  BY <1>3, <2>2, <3>1, <3>2 DEF Orderly, AtMost
    <3>4. Counted(d)'  BY <1>3, <1>5, <3>1, <3>2 DEF Counted
    <3> QED BY <3>3, <3>4
  <2> QED BY <2>1, <2>2
<1>7. StaffWithinPlans' /\ BranchesWithinPlans' /\ PlansKnown'
  BY <1>3, <1>5 DEF SeatsInv, StaffWithinPlans, BranchesWithinPlans, PlansKnown, AtMost
<1> QED BY <1>4, <1>6, <1>7 DEF SeatsInv

LEMMA Released ==
  ASSUME SeatsTypeOK, NEW c \in Asker, Release(c)
  PROVE  /\ lock' \in [{"Salon", "Account"} -> Asker \union {Nobody}]
         /\ \A d \in Asker \ {c} : \A k \in {"Salon", "Account"} : lock[k] = d => lock'[k] = d
BY DEF Release, SeatsTypeOK

LEMMA BackToIdle ==
  ASSUME NEW c \in Asker, ask \in [Asker -> Ask], Goto(c, Idle)
  PROVE  Idle \in Ask /\ Orderly(c)' /\ Counted(c)'
<1>1. ask'[c].at = "idle"  BY DEF Goto, Idle
<1>2. Idle \in Ask  BY DEF Idle, Ask, At
<1> QED BY <1>1, <1>2 DEF Orderly, Counted

LEMMA AskSeatKeeps == ASSUME SeatsInv, NEW c \in Asker, AskSeat(c) PROVE SeatsInv'
<1> DEFINE r(e) == [at |-> IF seats = Unlimited THEN "write" ELSE "lock",
                    kind |-> "Salon", who |-> e, max |-> seats]
<1>1. PICK e \in Employee \union {Nobody} : Goto(c, r(e))  BY DEF AskSeat
<1>2. UNCHANGED <<staff, branch, lock, plans>>  BY DEF AskSeat
<1>3. seats \in Nat \union {Unlimited} /\ highSeats \in Nat \union {Unlimited}
  BY Typed DEF SeatsInv
<1>4. r(e) \in Ask  BY <1>3 DEF Ask, At
<1>5. ask'[c] = r(e)  BY <1>1 DEF Goto, SeatsInv, SeatsTypeOK
<1>6. ask'[c].at # "count" /\ ask'[c].kind = "Salon" /\ ask'[c].max = seats
      /\ (ask'[c].at = "write" <=> seats = Unlimited)
  BY <1>5
<1>7. Orderly(c)'
  <2>1. AtMost(seats, highSeats) /\ UNCHANGED highSeats  BY <1>2 DEF SeatsInv, PlansKnown, plans
  <2> QED BY <1>6, <2>1 DEF Orderly, AtMost
<1>8. Counted(c)'  BY <1>6 DEF Counted
<1>9. lock' \in [{"Salon", "Account"} -> Asker \union {Nobody}] /\ lock' = lock
  BY <1>2 DEF SeatsInv, SeatsTypeOK
<1> HIDE DEF r
<1> QED BY <1>1, <1>2, <1>4, <1>7, <1>8, <1>9, MoveKeeps

LEMMA AskBranchKeeps == ASSUME SeatsInv, NEW c \in Asker, AskBranch(c) PROVE SeatsInv'
<1> DEFINE r == [at |-> "lock", kind |-> "Account", who |-> Nobody, max |-> cap]
<1>1. Goto(c, r) /\ UNCHANGED <<staff, branch, lock, plans>>  BY DEF AskBranch
<1>2. cap \in Nat /\ cap <= highCap /\ cap # Unlimited /\ UNCHANGED highCap
  BY <1>1, Typed, NotValues DEF SeatsInv, PlansKnown, plans
<1>3. r \in Ask  BY <1>2 DEF Ask, At
<1>4. ask'[c] = r  BY <1>1 DEF Goto, SeatsInv, SeatsTypeOK
<1>5. ask'[c].at = "lock" /\ ask'[c].kind = "Account" /\ ask'[c].max = cap  BY <1>4
<1>6. Orderly(c)' /\ Counted(c)'  BY <1>2, <1>5 DEF Orderly, Counted
<1>7. lock' \in [{"Salon", "Account"} -> Asker \union {Nobody}] /\ lock' = lock
  BY <1>1 DEF SeatsInv, SeatsTypeOK
<1> HIDE DEF r
<1> QED BY <1>1, <1>3, <1>6, <1>7, MoveKeeps

LEMMA TakeLockKeeps == ASSUME SeatsInv, NEW c \in Asker, TakeLock(c) PROVE SeatsInv'
<1> DEFINE r == [ask[c] EXCEPT !.at = "count"]
           k == ask[c].kind
<1>1. /\ Goto(c, r) /\ ask[c].at = "lock" /\ lock[k] = Nobody
      /\ lock' = [lock EXCEPT ![k] = c] /\ UNCHANGED <<staff, branch, plans>>
  BY DEF TakeLock, MayLock
<1>2. ask[c] \in Ask  BY DEF SeatsInv, SeatsTypeOK
<1>3. /\ r \in Ask /\ r.at = "count" /\ r.kind = k /\ r.max = ask[c].max
      /\ k \in {"Salon", "Account"}
  BY <1>2 DEF Ask, At
<1>4. ask'[c] = r  BY <1>1 DEF Goto, SeatsInv, SeatsTypeOK
<1>5. Orderly(c)  BY DEF SeatsInv
<1> HIDE DEF r, k
<1>6. /\ lock' \in [{"Salon", "Account"} -> Asker \union {Nobody}] /\ lock'[k] = c
      /\ \A d \in Asker \ {c} : \A t \in {"Salon", "Account"} : lock[t] = d => lock'[t] = d
  BY <1>1, <1>3, NotValues DEF SeatsInv, SeatsTypeOK
<1>7. UNCHANGED <<highSeats, highCap>>  BY <1>1 DEF plans
<1>8. Orderly(c)'
  <2>1. ask[c].max # Unlimited /\ ask[c].kind = k
    BY <1>1, <1>5 DEF Orderly, k
  <2>2. IF k = "Salon" THEN AtMost(ask[c].max, highSeats)
        ELSE ask[c].max \in Nat /\ ask[c].max <= highCap
    BY <1>1, <1>5 DEF Orderly, k
  <2> QED BY <1>3, <1>4, <1>6, <1>7, <2>1, <2>2 DEF Orderly, AtMost
<1>9. Counted(c)'  BY <1>3, <1>4 DEF Counted
<1> QED BY <1>1, <1>3, <1>6, <1>8, <1>9, MoveKeeps

LEMMA CountKeeps == ASSUME SeatsInv, NEW c \in Asker, Count(c) PROVE SeatsInv'
<1>1. ask[c].at = "count" /\ UNCHANGED <<staff, branch, plans>>  BY DEF Count
<1>2. CASE Cardinality(Taken(ask[c])) < ask[c].max
           /\ Goto(c, [ask[c] EXCEPT !.at = "write"]) /\ UNCHANGED lock
  <2> DEFINE r == [ask[c] EXCEPT !.at = "write"]
  <2>1. ask[c] \in Ask  BY DEF SeatsInv, SeatsTypeOK
  <2>2. /\ r \in Ask /\ r.at = "write" /\ r.kind = ask[c].kind /\ r.max = ask[c].max
        /\ r.who = ask[c].who
    BY <2>1 DEF Ask, At
  <2>3. ask'[c] = r  BY <1>2 DEF Goto, SeatsInv, SeatsTypeOK
  <2>4. UNCHANGED <<staff, branch, highSeats, highCap>>  BY <1>1 DEF plans
  <2>5. Orderly(c)  BY DEF SeatsInv
  <2> HIDE DEF r
  <2>6. Orderly(c)'  BY <1>1, <1>2, <2>2, <2>3, <2>4, <2>5 DEF Orderly, AtMost
  <2>7. Active' = Active /\ Branches' = Branches  BY <2>4 DEF Active, Branches
  <2>8. Counted(c)'  BY <1>2, <2>2, <2>3, <2>4, <2>7 DEF Counted, Taken
  <2>9. lock' \in [{"Salon", "Account"} -> Asker \union {Nobody}]
    BY <1>2 DEF SeatsInv, SeatsTypeOK
  <2>10. Goto(c, r)  BY <1>2 DEF r
  <2> QED BY <1>1, <1>2, <2>2, <2>6, <2>8, <2>9, <2>10, MoveKeeps
<1>3. CASE Goto(c, Idle) /\ Release(c)
  <2>1. SeatsTypeOK /\ ask \in [Asker -> Ask]  BY DEF SeatsInv, SeatsTypeOK
  <2> QED BY <1>1, <1>3, <2>1, BackToIdle, Released, MoveKeeps
<1> QED BY <1>2, <1>3 DEF Count

LEMMA FailKeeps == ASSUME SeatsInv, NEW c \in Asker, Fail(c) PROVE SeatsInv'
<1>1. Goto(c, Idle) /\ Release(c) /\ UNCHANGED <<staff, branch, plans>>  BY DEF Fail
<1>2. SeatsTypeOK /\ ask \in [Asker -> Ask]  BY DEF SeatsInv, SeatsTypeOK
<1> QED BY <1>1, <1>2, BackToIdle, Released, MoveKeeps

-----------------------------------------------------------------------------
(* Places change hands. *)

\* A place given back disturbs no count.
LEMMA GiveBackKeeps ==
  ASSUME SeatsInv, UNCHANGED <<lock, ask, plans>>,
         staff' \in [Employee -> {"absent", "off", "on"}],
         branch' \in [Branch -> {"absent", "ACTIVE", "SUSPENDED"}],
         Active' \subseteq Active, Branches' \subseteq Branches
  PROVE  SeatsInv'
<1>1. UNCHANGED <<seats, cap, highSeats, highCap>>  BY DEF plans
<1>2. SeatsTypeOK' /\ PlansKnown'  BY <1>1 DEF SeatsInv, SeatsTypeOK, PlansKnown, AtMost
<1>3. /\ Cardinality(Active') <= Cardinality(Active) /\ Cardinality(Active') \in Nat
      /\ \A e : Cardinality((Active \ {e})') <= Cardinality(Active \ {e})
                /\ Cardinality((Active \ {e})') \in Nat
      /\ Cardinality(Branches') <= Cardinality(Branches) /\ Cardinality(Branches') \in Nat
  BY FewerActive, FewerBranches
<1>4. highSeats \in Nat \union {Unlimited} /\ highCap \in Nat  BY Typed DEF SeatsInv
<1>5. StaffWithinPlans' /\ BranchesWithinPlans'
  BY <1>1, <1>3, <1>4, Finite DEF SeatsInv, StaffWithinPlans, BranchesWithinPlans
<1>6. ASSUME NEW c \in Asker PROVE Orderly(c)' /\ Counted(c)'
  <2>1. Orderly(c) /\ Counted(c) /\ ask[c].max \in Nat \union {Unlimited}  BY Typed DEF SeatsInv
  <2>2. Orderly(c)'  BY <1>1, <2>1 DEF Orderly, AtMost
  <2>3. Cardinality((Active \ {ask[c].who})') <= Cardinality(Active \ {ask[c].who})
        /\ Cardinality((Active \ {ask[c].who})') \in Nat
        /\ Cardinality(Active \ {ask[c].who}) \in Nat
    BY <1>3, Finite
  <2>4. Counted(c)'  BY <1>1, <1>3, <2>1, <2>3, Finite DEF Counted
  <2> QED BY <2>2, <2>4
<1> QED BY <1>2, <1>5, <1>6 DEF SeatsInv

LEMMA SwitchOffKeeps == ASSUME SeatsInv, NEW e \in Employee, SwitchOff(e) PROVE SeatsInv'
<1>1. staff' \in [Employee -> {"absent", "off", "on"}] /\ Active' \subseteq Active
  BY DEF SwitchOff, SeatsInv, SeatsTypeOK, Active
<1>2. branch' \in [Branch -> {"absent", "ACTIVE", "SUSPENDED"}] /\ Branches' \subseteq Branches
  BY DEF SwitchOff, SeatsInv, SeatsTypeOK, Branches
<1> QED BY <1>1, <1>2, GiveBackKeeps DEF SwitchOff

LEMMA DeleteEmployeeKeeps ==
  ASSUME SeatsInv, NEW e \in Employee, DeleteEmployee(e)
  PROVE  SeatsInv'
<1>1. staff' \in [Employee -> {"absent", "off", "on"}] /\ Active' \subseteq Active
  BY DEF DeleteEmployee, SeatsInv, SeatsTypeOK, Active
<1>2. branch' \in [Branch -> {"absent", "ACTIVE", "SUSPENDED"}] /\ Branches' \subseteq Branches
  BY DEF DeleteEmployee, SeatsInv, SeatsTypeOK, Branches
<1> QED BY <1>1, <1>2, GiveBackKeeps DEF DeleteEmployee

LEMMA SetBranchStatusKeeps ==
  ASSUME SeatsInv, NEW b \in Branch, SetBranchStatus(b)
  PROVE  SeatsInv'
<1>1. branch' \in [Branch -> {"absent", "ACTIVE", "SUSPENDED"}] /\ Branches' \subseteq Branches
  BY DEF SetBranchStatus, SeatsInv, SeatsTypeOK, Branches
<1>2. staff' \in [Employee -> {"absent", "off", "on"}] /\ Active' \subseteq Active
  BY DEF SetBranchStatus, SeatsInv, SeatsTypeOK, Active
<1> QED BY <1>1, <1>2, GiveBackKeeps DEF SetBranchStatus

LEMMA DeleteBranchKeeps == ASSUME SeatsInv, NEW b \in Branch, DeleteBranch(b) PROVE SeatsInv'
<1>1. branch' \in [Branch -> {"absent", "ACTIVE", "SUSPENDED"}] /\ Branches' \subseteq Branches
  BY DEF DeleteBranch, SeatsInv, SeatsTypeOK, Branches
<1>2. staff' \in [Employee -> {"absent", "off", "on"}] /\ Active' \subseteq Active
  BY DEF DeleteBranch, SeatsInv, SeatsTypeOK, Active
<1> QED BY <1>1, <1>2, GiveBackKeeps DEF DeleteBranch

LEMMA ChangePlanKeeps == ASSUME SeatsInv, ChangePlan PROVE SeatsInv'
<1>1. /\ seats' \in SeatLimits /\ cap' \in BranchCaps
      /\ highSeats' = MoreSeats(highSeats, seats')
      /\ highCap' = IF cap' > highCap THEN cap' ELSE highCap
      /\ UNCHANGED <<staff, branch, lock, ask>>
  BY DEF ChangePlan
<1>2. /\ seats' \in Nat \union {Unlimited} /\ highSeats \in Nat \union {Unlimited}
      /\ cap' \in Nat \ {0} /\ highCap \in Nat
  BY <1>1, Typed, LimitsAreNumbers DEF SeatsInv
<1>3. highSeats' \in {highSeats, seats'}
      /\ (highSeats' # Unlimited => highSeats # Unlimited /\ seats' # Unlimited
                                     /\ highSeats <= highSeats' /\ seats' <= highSeats')
  <2>1. CASE highSeats = Unlimited \/ seats' = Unlimited  BY <1>1, <2>1 DEF MoreSeats
  <2>2. CASE highSeats # Unlimited /\ seats' # Unlimited /\ highSeats > seats'
    BY <1>1, <1>2, <2>2 DEF MoreSeats
  <2>3. CASE highSeats # Unlimited /\ seats' # Unlimited /\ ~(highSeats > seats')
    BY <1>1, <1>2, <2>3 DEF MoreSeats
  <2> QED BY <2>1, <2>2, <2>3
<1>4. highCap <= highCap' /\ cap' <= highCap' /\ highCap' \in Nat /\ highCap' \in {cap', highCap}
  BY <1>1, <1>2
<1>5. Unlimited \in SeatLimits \/ (highSeats # Unlimited /\ seats' # Unlimited)
  BY <1>1 DEF SeatsInv, SeatsTypeOK
<1>6. SeatsTypeOK'  BY <1>1, <1>3, <1>4 DEF SeatsInv, SeatsTypeOK
<1>7. PlansKnown'  BY <1>3, <1>4 DEF PlansKnown, AtMost
<1>8. Active' = Active /\ Branches' = Branches  BY <1>1 DEF Active, Branches
<1>9. StaffWithinPlans'
  <2>1. ASSUME highSeats' # Unlimited PROVE Cardinality(Active) <= highSeats'
    <3>1. Cardinality(Active) <= highSeats /\ highSeats <= highSeats'
      BY <1>3, <2>1 DEF SeatsInv, StaffWithinPlans
    <3>2. highSeats \in Nat /\ highSeats' \in Nat  BY <1>2, <1>3, <2>1
    <3> QED BY <3>1, <3>2, Finite
  <2> QED BY <1>8, <2>1 DEF StaffWithinPlans
<1>10. BranchesWithinPlans'  BY <1>2, <1>4, <1>8, Finite DEF SeatsInv, BranchesWithinPlans
<1>11. ASSUME NEW c \in Asker PROVE Orderly(c)' /\ Counted(c)'
  <2>1. Orderly(c) /\ Counted(c) /\ ask[c].max \in Nat \union {Unlimited}  BY Typed DEF SeatsInv
  <2>2. AtMost(ask[c].max, highSeats) => AtMost(ask[c].max, highSeats')
    <3>1. ASSUME AtMost(ask[c].max, highSeats), highSeats' # Unlimited
          PROVE  ask[c].max # Unlimited /\ ask[c].max <= highSeats'
      <4>1. ask[c].max # Unlimited /\ ask[c].max <= highSeats /\ highSeats <= highSeats'
            /\ highSeats \in Nat /\ highSeats' \in Nat
        BY <1>2, <1>3, <3>1 DEF AtMost
      <4> QED BY <2>1, <4>1
    <3> QED BY <3>1 DEF AtMost
  <2>3. Orderly(c)'
    <3>1. ask[c].max \in Nat /\ ask[c].max <= highCap => ask[c].max <= highCap'
      BY <1>2, <1>4
    <3> QED BY <1>1, <2>1, <2>2, <3>1 DEF Orderly
  <2>4. Counted(c)'  BY <1>1, <1>3, <1>8, <2>1 DEF Counted
  <2> QED BY <2>3, <2>4
<1> QED BY <1>6, <1>7, <1>9, <1>10, <1>11 DEF SeatsInv

\* Who writes under a limit holds the lock, so nobody else is about to.
LEMMA OneWriter ==
  ASSUME SeatsInv, NEW c \in Asker, NEW d \in Asker, c # d, ask[c].kind = ask[d].kind,
         ask[c].at = "write", ask[c].max # Unlimited, ask[d].at = "write"
  PROVE  ask[d].max = Unlimited
BY DEF SeatsInv, Orderly

LEMMA TakeSeatKeeps == ASSUME SeatsInv, NEW c \in Asker, TakeSeat(c) PROVE SeatsInv'
<1>1. /\ ask[c].at = "write" /\ ask[c].kind = "Salon"
      /\ Goto(c, Idle) /\ Release(c) /\ UNCHANGED <<branch, plans>>
  BY DEF TakeSeat
<1>2. UNCHANGED <<branch, seats, cap, highSeats, highCap>>  BY <1>1 DEF plans
<1>3. PICK e \in Employee :
        /\ staff' \in [Employee -> {"absent", "off", "on"}]
        /\ Active' \subseteq (Active \ {ask[c].who}) \union {e}
           \/ Active' = Active
  <2>1. CASE ask[c].who = Nobody
    <3>1. PICK e \in Employee : staff[e] = "absent" /\ staff' = [staff EXCEPT ![e] = "on"]
      BY <2>1 DEF TakeSeat
    <3>2. Nobody \notin Active  BY NotValues DEF Active
    <3> QED BY <2>1, <3>1, <3>2 DEF SeatsInv, SeatsTypeOK, Active
  <2>2. CASE ask[c].who # Nobody
    <3>1. ask[c].who \in Employee  BY <2>2, Typed DEF SeatsInv
    <3>2. staff' = [f \in Employee |->
                     IF f = ask[c].who /\ staff[f] # "absent" THEN "on" ELSE staff[f]]
      BY <2>2 DEF TakeSeat
    <3>3. staff' \in [Employee -> {"absent", "off", "on"}]  BY <3>2 DEF SeatsInv, SeatsTypeOK
    <3>4. Active' \subseteq (Active \ {ask[c].who}) \union {ask[c].who}  BY <3>2 DEF Active
    <3> QED BY <3>1, <3>3, <3>4
  <2> QED BY <2>1, <2>2
<1>4. Branches' = Branches  BY <1>2 DEF Branches
<1>5. /\ lock' \in [{"Salon", "Account"} -> Asker \union {Nobody}]
      /\ \A d \in Asker \ {c} : \A k \in {"Salon", "Account"} : lock[k] = d => lock'[k] = d
  BY <1>1, Released DEF SeatsInv
<1>6. Idle \in Ask /\ Orderly(c)' /\ Counted(c)'
  BY <1>1, BackToIdle DEF SeatsInv, SeatsTypeOK
<1>7. ask' = [ask EXCEPT ![c] = Idle]  BY <1>1 DEF Goto
<1>8. SeatsTypeOK'  BY <1>2, <1>3, <1>5, <1>6, <1>7 DEF SeatsInv, SeatsTypeOK
<1>9. ASSUME highSeats # Unlimited PROVE Cardinality(Active') <= highSeats
  <2>1. /\ Cardinality(Active \ {ask[c].who}) < ask[c].max /\ ask[c].max <= highSeats
        /\ ask[c].max \in Nat /\ highSeats \in Nat
    <3>1. Orderly(c) /\ Counted(c) /\ ask[c].max \in Nat \union {Unlimited}
          /\ highSeats \in Nat \union {Unlimited}
      BY Typed DEF SeatsInv
    <3>2. AtMost(ask[c].max, highSeats)  BY <1>1, <3>1 DEF Orderly
    <3>3. ask[c].max # Unlimited /\ ask[c].max <= highSeats  BY <1>9, <3>2 DEF AtMost
    <3> QED BY <1>1, <1>9, <3>1, <3>3 DEF Counted
  <2>2. CASE Active' \subseteq (Active \ {ask[c].who}) \union {e}
    <3> DEFINE S == Active \ {ask[c].who}
    <3>1. IsFiniteSet(S) /\ Cardinality(S) \in Nat  BY Finite
    <3>2. IsFiniteSet(S \union {e}) /\ Cardinality(S \union {e}) <= Cardinality(S) + 1
      BY <3>1, FS_AddElement
    <3>3. Active' \in SUBSET (S \union {e})  BY <2>2
    <3>4. IsFiniteSet(Active') /\ Cardinality(Active') <= Cardinality(S \union {e})
      BY <3>2, <3>3, FS_Subset
    <3>5. Cardinality(Active') \in Nat /\ Cardinality(S \union {e}) \in Nat
      BY <3>2, <3>4, FS_CardinalityType
    <3> HIDE DEF S
    <3>6. Cardinality(S) < ask[c].max  BY <2>1 DEF S
    <3> QED BY <2>1, <3>1, <3>2, <3>4, <3>5, <3>6
  <2>3. CASE Active' = Active  BY <1>9, <2>3 DEF SeatsInv, StaffWithinPlans
  <2> QED BY <1>3, <2>2, <2>3
<1>10. StaffWithinPlans' /\ BranchesWithinPlans' /\ PlansKnown'
  <2>1. StaffWithinPlans'  BY <1>2, <1>9 DEF StaffWithinPlans
  <2> QED BY <1>2, <1>4, <2>1 DEF SeatsInv, BranchesWithinPlans, PlansKnown, AtMost
<1>11. ASSUME NEW d \in Asker, d # c PROVE Orderly(d)' /\ Counted(d)'
  <2>1. ask'[d] = ask[d]  BY <1>7, <1>11 DEF SeatsInv, SeatsTypeOK
  <2>2. Orderly(d) /\ Counted(d) /\ ask[d].kind \in {"Salon", "Account"}  BY Typed DEF SeatsInv
  <2>3. Orderly(d)'  BY <1>2, <1>5, <1>11, <2>1, <2>2 DEF Orderly, AtMost
  <2>4. CASE ask[d].kind = "Salon"
    <3>1. ASSUME ask[d].at = "write", ask[d].max # Unlimited, highSeats # Unlimited
          PROVE  FALSE
      <4>1. ask[c].max = Unlimited  BY <1>1, <1>11, <2>4, <3>1, OneWriter
      <4>2. AtMost(ask[c].max, highSeats)  BY <1>1 DEF SeatsInv, Orderly
      <4> QED BY <3>1, <4>1, <4>2 DEF AtMost
    <3> QED BY <1>2, <2>1, <2>3, <2>4, <3>1 DEF Counted
  <2>5. CASE ask[d].kind = "Account"
    BY <1>4, <2>1, <2>2, <2>3, <2>5 DEF Counted
  <2> QED BY <2>2, <2>4, <2>5
<1> QED BY <1>6, <1>8, <1>10, <1>11 DEF SeatsInv

LEMMA OpenBranchKeeps == ASSUME SeatsInv, NEW c \in Asker, OpenBranch(c) PROVE SeatsInv'
<1>1. /\ ask[c].at = "write" /\ ask[c].kind = "Account"
      /\ Goto(c, Idle) /\ Release(c) /\ UNCHANGED <<staff, plans>>
  BY DEF OpenBranch
<1>2. PICK b \in Branch : branch[b] = "absent" /\ branch' = [branch EXCEPT ![b] = "ACTIVE"]
  BY DEF OpenBranch
<1>3. UNCHANGED <<staff, seats, cap, highSeats, highCap>>  BY <1>1 DEF plans
<1>4. Active' = Active /\ Branches' = Branches \union {b} /\ b \notin Branches
  BY <1>2, <1>3 DEF SeatsInv, SeatsTypeOK, Active, Branches
<1>5. /\ lock' \in [{"Salon", "Account"} -> Asker \union {Nobody}]
      /\ \A d \in Asker \ {c} : \A k \in {"Salon", "Account"} : lock[k] = d => lock'[k] = d
  BY <1>1, Released DEF SeatsInv
<1>6. Idle \in Ask /\ Orderly(c)' /\ Counted(c)'
  BY <1>1, BackToIdle DEF SeatsInv, SeatsTypeOK
<1>7. ask' = [ask EXCEPT ![c] = Idle]  BY <1>1 DEF Goto
<1>8. branch' \in [Branch -> {"absent", "ACTIVE", "SUSPENDED"}]
  BY <1>2 DEF SeatsInv, SeatsTypeOK
<1>9. SeatsTypeOK'  BY <1>3, <1>5, <1>6, <1>7, <1>8 DEF SeatsInv, SeatsTypeOK
<1>10. /\ ask[c].max \in Nat /\ ask[c].max <= highCap /\ highCap \in Nat
       /\ ask[c].max # Unlimited /\ Cardinality(Branches) < ask[c].max
  <2>1. Orderly(c) /\ Counted(c) /\ highCap \in Nat  BY Typed DEF SeatsInv
  <2>2. ask[c].max \in Nat /\ ask[c].max <= highCap  BY <1>1, <2>1 DEF Orderly
  <2>3. ask[c].max # Unlimited  BY <2>2, NotValues
  <2> QED BY <1>1, <2>1, <2>2, <2>3 DEF Counted
<1>11. BranchesWithinPlans'
  <2>1. Cardinality(Branches \union {b}) = Cardinality(Branches) + 1
    BY <1>4, Finite, FS_AddElement
  <2> QED BY <1>3, <1>4, <1>10, <2>1, Finite DEF BranchesWithinPlans
<1>12. StaffWithinPlans' /\ PlansKnown'
  BY <1>3, <1>4 DEF SeatsInv, StaffWithinPlans, PlansKnown, AtMost
<1>13. ASSUME NEW d \in Asker, d # c PROVE Orderly(d)' /\ Counted(d)'
  <2>1. ask'[d] = ask[d]  BY <1>7, <1>13 DEF SeatsInv, SeatsTypeOK
  <2>2. Orderly(d) /\ Counted(d) /\ ask[d].kind \in {"Salon", "Account"}  BY Typed DEF SeatsInv
  <2>3. Orderly(d)'  BY <1>3, <1>5, <1>13, <2>1, <2>2 DEF Orderly, AtMost
  <2>4. CASE ask[d].kind = "Account"
    <3>1. ask[d].at = "write" => ask[d].max = Unlimited
      BY <1>1, <1>10, <1>13, <2>4, OneWriter
    <3> QED BY <2>1, <2>3, <3>1 DEF Counted
  <2>5. CASE ask[d].kind = "Salon"
    BY <1>3, <1>4, <2>1, <2>2, <2>3, <2>5 DEF Counted
  <2> QED BY <2>2, <2>4, <2>5
<1> QED BY <1>6, <1>9, <1>11, <1>12, <1>13 DEF SeatsInv

LEMMA SeatsNextKeeps == ASSUME SeatsInv, [SeatsNext]_seatsVars PROVE SeatsInv'
<1>1. ASSUME NEW c \in Asker, AskSeat(c) \/ AskBranch(c) \/ TakeLock(c) \/ Count(c)
                               \/ TakeSeat(c) \/ OpenBranch(c) \/ Fail(c)
      PROVE  SeatsInv'
  BY <1>1, AskSeatKeeps, AskBranchKeeps, TakeLockKeeps, CountKeeps, TakeSeatKeeps,
     OpenBranchKeeps, FailKeeps
<1>2. ASSUME NEW e \in Employee, SwitchOff(e) \/ DeleteEmployee(e) PROVE SeatsInv'
  BY <1>2, SwitchOffKeeps, DeleteEmployeeKeeps
<1>3. ASSUME NEW b \in Branch, SetBranchStatus(b) \/ DeleteBranch(b) PROVE SeatsInv'
  BY <1>3, SetBranchStatusKeeps, DeleteBranchKeeps
<1>4. CASE ChangePlan  BY <1>4, ChangePlanKeeps
<1>5. CASE UNCHANGED seatsVars
  <2>1. UNCHANGED <<lock, ask, plans, staff, branch>>  BY <1>5 DEF seatsVars, plans
  <2>2. Active' = Active /\ Branches' = Branches  BY <2>1 DEF Active, Branches
  <2> QED BY <2>1, <2>2, GiveBackKeeps DEF SeatsInv, SeatsTypeOK
<1> QED BY <1>1, <1>2, <1>3, <1>4, <1>5 DEF SeatsNext

LEMMA SeatsInvariance == SeatsSpec => []SeatsInv
<1> QED BY SeatsInitHolds, SeatsNextKeeps, PTL DEF SeatsSpec

-----------------------------------------------------------------------------

\* Every state is well typed (no row gets another status than the schema's,
\* a request carries a limit some plan of the account gave).
THEOREM SeatsTypeCorrect == SeatsSpec => []SeatsTypeOK
<1>1. SeatsInv => SeatsTypeOK  BY DEF SeatsInv
<1> QED BY <1>1, SeatsInvariance, PTL

\* assertEmployeeSeatAvailable keeps the salon within its best plan for any
\* number of simultaneous requests.
THEOREM SeatsNeverOversold == SeatsSpec => []StaffWithinPlans
<1>1. SeatsInv => StaffWithinPlans  BY DEF SeatsInv
<1> QED BY <1>1, SeatsInvariance, PTL

\* createBranch keeps the account within its branches, suspended ones counted.
THEOREM BranchesNeverOversold == SeatsSpec => []BranchesWithinPlans
<1>1. SeatsInv => BranchesWithinPlans  BY DEF SeatsInv
<1> QED BY <1>1, SeatsInvariance, PTL
=============================================================================

--------------------------- MODULE DeliveryProofs ---------------------------
(***************************************************************************)
(* For any number of rows, attempts, faults and reschedules: at most one   *)
(* run sends a row at a time, a message is repeated only when no terminal  *)
(* write recorded it, and what Meta reported is never undone.              *)
(*                                                                         *)
(* The rows do not disturb each other, so the invariant is a fact about    *)
(* one row r, its jobs q, the messages s accepted for it and the u of them *)
(* that went unnoticed.                                                    *)
(***************************************************************************)
EXTENDS Delivery, FiniteSetTheorems, TLAPS

Sending == {"send", "record", "fail"}
Holding == Sending \union {"claim"}

\* No two jobs are between a claim and their terminal write.
Alone(q) ==
  \A i, j \in JobId : q[i].st \in Sending /\ q[j].st \in Sending => i = j

\* A row that is being sent is leased, and no wamid is on it.
UnderLease(r, q) ==
  \A i \in JobId : q[i].st \in Sending => r.leased /\ ~r.wamid /\ r.status # "NONE"

\* A claim that could still win has nobody to win from.
ClaimCurrent(r, q) ==
  \A i \in JobId : q[i].st = "claim" =>
    /\ r.status # "NONE"
    /\ q[i].seen <= r.attempts
    /\ q[i].seen = r.attempts =>
         ~r.wamid /\ \A j \in JobId : q[j].st \notin Sending

\* The processor would send a row in this state.
Open(r) == ~r.wamid /\ r.status \in {"NONE", "QUEUED", "FAILED"}

\* Every accepted message but one is unnoticed, and that one is on the way to
\* being recorded, recorded, or on a row that is not sent any more.
Counted(r, q, s, u) ==
  /\ s <= u + 1
  /\ Open(r) /\ (\A i \in JobId : q[i].st # "record") => s <= u
  /\ \A i \in JobId :
       q[i].st \in {"send", "fail"} \/ (q[i].st = "claim" /\ q[i].seen = r.attempts)
         => s <= u

RowOK(r, q, s, u) ==
  /\ r \in Row
  /\ q \in [JobId -> Job]
  /\ s \in Nat
  /\ u \in Nat
  /\ r.wamid => r.status \notin {"NONE", "QUEUED"}
  /\ Alone(q)
  /\ UnderLease(r, q)
  /\ ClaimCurrent(r, q)
  /\ Counted(r, q, s, u)

RowsOK ==
  /\ row \in [Notif -> Row]
  /\ job \in [Notif -> [JobId -> Job]]
  /\ sent \in [Notif -> Nat]
  /\ unnoticed \in [Notif -> Nat]
  /\ \A n \in Notif : RowOK(row[n], job[n], sent[n], unnoticed[n])

SurroundingsOK ==
  /\ appt \in {"none", "live", "off", "over"}
  /\ version \in 0..MaxMoves
  /\ open \in BOOLEAN
  /\ optIn \in BOOLEAN
  /\ pending \subseteq Notif
  /\ closing \in Closing
  /\ trouble \in 0..MaxTrouble

DeliveryInv == SurroundingsOK /\ RowsOK

-----------------------------------------------------------------------------
(* Jobs                                                                    *)

\* Only job id differs between q and p.
OnlyJob(q, p, id) ==
  p \in [JobId -> Job] /\ \A i \in JobId \ {id} : p[i] = q[i]

\* The ids that the handlers and the processor give are ids.
LEMMA IdsAreIds ==
  ASSUME NEW k \in 0..MaxClaims
  PROVE  Plain \in JobId /\ Revive(k) \in JobId /\ Defer(k) \in JobId
  BY DEF JobId

\* A job that is not there yet, or is finished, is a job.
LEMMA NoJobIsJob ==
  ASSUME NEW st \in JobState
  PROVE  NoJob \in Job /\ [NoJob EXCEPT !.st = st] \in Job
<1>1. 0 \in 0..JobAttempts - 1 /\ 0 \in 0..MaxStalls /\ 0 \in 0..MaxClaims
  BY DeliveryConstants DEF DeliveryConstants
<1>2. NoJob \in Job
  BY <1>1 DEF NoJob, Job, JobState
<1>3. [NoJob EXCEPT !.st = st] \in Job
  BY <1>2 DEF Job
<1> QED
  BY <1>2, <1>3

\* Stepped moves one job on.
LEMMA SteppedJob ==
  ASSUME NEW q \in [JobId -> Job], NEW id \in JobId, NEW st \in JobState
  PROVE  /\ OnlyJob(q, Stepped(q, id, st), id)
         /\ Stepped(q, id, st)[id].st = st
         /\ Stepped(q, id, st)[id].tries = q[id].tries
         /\ Stepped(q, id, st)[id].stalls = q[id].stalls
<1> DEFINE j == [q[id] EXCEPT !.st = st, !.seen = 0]
<1>1. j \in Job /\ j.st = st /\ j.tries = q[id].tries /\ j.stalls = q[id].stalls
  <2>1. q[id] \in Job /\ 0 \in 0..MaxClaims
    BY DeliveryConstants DEF DeliveryConstants
  <2> QED
    BY <2>1 DEF Job
<1>2. Stepped(q, id, st) = [q EXCEPT ![id] = j]
  BY DEF Stepped
<1> HIDE DEF j
<1> QED
  BY <1>1, <1>2 DEF OnlyJob

\* Begun moves one job to its claim, with what it read.
LEMMA BegunJob ==
  ASSUME NEW q \in [JobId -> Job], NEW id \in JobId, NEW k \in 0..MaxClaims
  PROVE  /\ OnlyJob(q, Begun(q, id, k), id)
         /\ Begun(q, id, k)[id].st = "claim"
         /\ Begun(q, id, k)[id].seen = k
  BY DEF Begun, OnlyJob, Job, JobState, Active

\* Ended leaves a finished job behind.
LEMMA EndedJob ==
  ASSUME NEW q \in [JobId -> Job], NEW id \in JobId, NEW st \in JobState
  PROVE  /\ OnlyJob(q, Ended(q, id, st), id)
         /\ Ended(q, id, st)[id].st = st
  BY NoJobIsJob DEF Ended, OnlyJob, NoJob

\* Added touches one job, which is not a run's.
LEMMA AddedJob ==
  ASSUME NEW q \in [JobId -> Job], NEW id \in JobId, NEW st \in {"wait", "delayed"}
  PROVE  /\ OnlyJob(q, Added(q, id, st), id)
         /\ Added(q, id, st)[id] = q[id] \/ Added(q, id, st)[id].st \notin Holding
<1>1. CASE q[id].st = "absent"
  BY <1>1, NoJobIsJob DEF Added, OnlyJob, JobState, Holding, Sending, NoJob
<1>2. CASE q[id].st # "absent"
  BY <1>2 DEF Added, OnlyJob
<1> QED
  BY <1>1, <1>2

\* A job that failed or stalled waits again, or is dead.
LEMMA AgainOrDead ==
  ASSUME NEW q \in [JobId -> Job], NEW id \in JobId
  PROVE  /\ OnlyJob(q, Retried(q, id), id)
         /\ Retried(q, id)[id].st \in {"wait", "dead"}
         /\ OnlyJob(q, Stalled(q, id), id)
         /\ Stalled(q, id)[id].st \in {"wait", "dead"}
<1> DEFINE W == Stepped(q, id, "wait")
<1>1. OnlyJob(q, Ended(q, id, "dead"), id) /\ Ended(q, id, "dead")[id].st = "dead"
  BY EndedJob DEF JobState
<1>2. /\ W \in [JobId -> Job]
      /\ \A i \in JobId \ {id} : W[i] = q[i]
      /\ W[id].st = "wait" /\ W[id].tries = q[id].tries /\ W[id].stalls = q[id].stalls
  <2>1. "wait" \in JobState
    BY DEF JobState
  <2> QED
    BY <2>1, SteppedJob DEF OnlyJob
<1> HIDE DEF W
<1>3. ASSUME q[id].tries + 1 < JobAttempts
      PROVE  /\ OnlyJob(q, [W EXCEPT ![id].tries = @ + 1], id)
             /\ [W EXCEPT ![id].tries = @ + 1][id].st = "wait"
  BY <1>2, <1>3, DeliveryConstants DEF OnlyJob, Job, DeliveryConstants
<1>4. ASSUME q[id].stalls < MaxStalls
      PROVE  /\ OnlyJob(q, [W EXCEPT ![id].stalls = @ + 1], id)
             /\ [W EXCEPT ![id].stalls = @ + 1][id].st = "wait"
  BY <1>2, <1>4, DeliveryConstants DEF OnlyJob, Job, DeliveryConstants
<1>5. OnlyJob(q, Retried(q, id), id) /\ Retried(q, id)[id].st \in {"wait", "dead"}
  BY <1>1, <1>2, <1>3 DEF Retried, W
<1>6. OnlyJob(q, Stalled(q, id), id) /\ Stalled(q, id)[id].st \in {"wait", "dead"}
  BY <1>1, <1>2, <1>4 DEF Stalled, W
<1> QED
  BY <1>5, <1>6

-----------------------------------------------------------------------------
(* One row                                                                 *)

\* Jobs may leave a row, when what they had to record is counted.
LEMMA JobsLeave ==
  ASSUME NEW r, NEW q, NEW s, NEW u, RowOK(r, q, s, u),
         NEW p \in [JobId -> Job], NEW v \in Nat, v >= u,
         \A i \in JobId : p[i] = q[i] \/ p[i].st \notin Holding,
         (\E i \in JobId : q[i].st = "record" /\ p[i].st # "record") => v >= u + 1
  PROVE  RowOK(r, p, s, v)
<1> USE DEF RowOK, Holding, Sending
<1>1. Alone(p) /\ UnderLease(r, p)
  BY DEF Alone, UnderLease
<1>2. ClaimCurrent(r, p)
  BY DEF ClaimCurrent
<1>3. Counted(r, p, s, v)
  <2>1. s <= v + 1
    BY DEF Counted
  <2>2. ASSUME Open(r), \A i \in JobId : p[i].st # "record"
        PROVE  s <= v
    BY <2>2 DEF Counted
  <2>3. ASSUME NEW i \in JobId,
               p[i].st \in {"send", "fail"} \/ (p[i].st = "claim" /\ p[i].seen = r.attempts)
        PROVE  s <= v
    <3>1. p[i] = q[i]
      BY <2>3
    <3>2. s <= u
      BY <2>3, <3>1 DEF Counted
    <3> QED
      BY <3>2
  <2> QED
    BY <2>1, <2>2, <2>3 DEF Counted
<1> QED
  BY <1>1, <1>2, <1>3

\* A row may change its status, due time and lease, as long as a row that is
\* being sent stays leased and no row becomes one that is sent.
LEMMA RowChanges ==
  ASSUME NEW r, NEW q, NEW s, NEW u, RowOK(r, q, s, u),
         NEW t \in Row, t.attempts = r.attempts, t.wamid = r.wamid,
         t.wamid => t.status \notin {"NONE", "QUEUED"},
         r.status # "NONE" => t.status # "NONE",
         Open(t) => Open(r),
         \A i \in JobId : q[i].st \in Sending => t.leased
  PROVE  RowOK(t, q, s, u)
<1>1. UnderLease(t, q)
  BY DEF RowOK, UnderLease
<1>2. ClaimCurrent(t, q)
  BY DEF RowOK, ClaimCurrent
<1>3. Counted(t, q, s, u)
  BY DEF RowOK, Counted
<1> QED
  BY <1>1, <1>2, <1>3 DEF RowOK

\* A new row replaces an unused one, which no run holds and nobody was sent.
LEMMA UnusedIsIdle ==
  ASSUME NEW r, NEW q, NEW s, NEW u, RowOK(r, q, s, u), r.status = "NONE"
  PROVE  s <= u /\ \A i \in JobId : q[i].st \notin Holding
<1>1. \A i \in JobId : q[i].st \notin Holding
  BY DEF RowOK, UnderLease, ClaimCurrent, Holding
<1>2. Open(r)
  BY DEF RowOK, Open
<1> QED
  BY <1>1, <1>2 DEF RowOK, Counted, Holding, Sending

LEMMA NewRowOK ==
  ASSUME NEW r, NEW q, NEW s, NEW u, RowOK(r, q, s, u), r.status = "NONE",
         NEW kind \in Kind, NEW says \in 0..MaxMoves
  PROVE  RowOK(NewRow(kind, says), q, s, u)
<1>1. /\ NewRow(kind, says) \in Row
      /\ ~NewRow(kind, says).wamid
  <2>1. 0 \in 0..MaxClaims
    BY DeliveryConstants DEF DeliveryConstants
  <2>2. NoRow \in Row /\ NoRow.wamid = FALSE
    BY <2>1, DeliveryConstants DEF NoRow, Row, Kind, Status, DeliveryConstants
  <2>3. "QUEUED" \in Status /\ (kind # "reminder") \in BOOLEAN
    BY DEF Status
  <2> QED
    BY <2>2, <2>3 DEF NewRow, Row
<1>2. s <= u /\ \A i \in JobId : q[i].st \notin Holding
  BY UnusedIsIdle
<1> QED
  BY <1>1, <1>2 DEF RowOK, Alone, UnderLease, ClaimCurrent, Counted, Holding, Sending

LEMMA DroppedOK ==
  ASSUME NEW r, NEW q, NEW s, NEW u, RowOK(r, q, s, u)
  PROVE  RowOK(Dropped(r), q, s, u)
<1>1. CASE r.status = "QUEUED"
  <2>1. /\ Dropped(r) \in Row
        /\ Dropped(r).attempts = r.attempts /\ Dropped(r).wamid = r.wamid
        /\ Dropped(r).leased = r.leased /\ Dropped(r).status = "CANCELLED"
    BY <1>1 DEF RowOK, Dropped, Row, Status
  <2> QED
    BY <2>1, RowChanges DEF RowOK, UnderLease, Open
<1>2. CASE r.status # "QUEUED"
  BY <1>2 DEF Dropped
<1> QED
  BY <1>1, <1>2

\* A run begins to claim an open row that nobody leases.
LEMMA BeginOK ==
  ASSUME NEW r, NEW q, NEW s, NEW u, RowOK(r, q, s, u), NEW id \in JobId,
         r.status \in {"QUEUED", "FAILED"}, ~r.wamid, ~r.leased
  PROVE  RowOK(r, Begun(q, id, r.attempts), s, u)
<1> DEFINE p == Begun(q, id, r.attempts)
<1>1. /\ p \in [JobId -> Job]
      /\ \A i \in JobId \ {id} : p[i] = q[i]
      /\ p[id].st = "claim" /\ p[id].seen = r.attempts
  BY BegunJob DEF RowOK, Row, OnlyJob
<1>2. \A i \in JobId : q[i].st \notin Sending /\ p[i].st \notin Sending
  BY <1>1 DEF RowOK, UnderLease, Sending
<1>3. s <= u
  BY <1>2 DEF RowOK, Counted, Open, Sending
<1>4. \A i \in JobId : p[i].st = "claim" => p[i].seen <= r.attempts
  BY <1>1 DEF RowOK, ClaimCurrent, Row
<1> HIDE DEF p
<1>5. ClaimCurrent(r, p)
  BY <1>2, <1>4 DEF ClaimCurrent
<1>6. Alone(p) /\ UnderLease(r, p)
  BY <1>2 DEF Alone, UnderLease
<1>7. Counted(r, p, s, u)
  BY <1>3 DEF Counted, RowOK
<1> QED
  BY <1>1, <1>5, <1>6, <1>7 DEF RowOK, p

\* The claim is won.
LEMMA ClaimOK ==
  ASSUME NEW r, NEW q, NEW s, NEW u, RowOK(r, q, s, u), NEW id \in JobId,
         q[id].st = "claim", q[id].seen = r.attempts, r.attempts < MaxClaims
  PROVE  RowOK([r EXCEPT !.attempts = @ + 1, !.leased = TRUE],
               Stepped(q, id, "send"), s, u)
<1> DEFINE p == Stepped(q, id, "send")
           t == [r EXCEPT !.attempts = @ + 1, !.leased = TRUE]
<1>1. /\ p \in [JobId -> Job]
      /\ \A i \in JobId \ {id} : p[i] = q[i]
      /\ p[id].st = "send"
  <2>1. "send" \in JobState
    BY DEF JobState, Active
  <2> QED
    BY <2>1, SteppedJob DEF RowOK, OnlyJob
<1>2. r \in Row /\ r.attempts \in Nat /\ r.attempts + 1 \in 0..MaxClaims
  BY DeliveryConstants DEF RowOK, Row, DeliveryConstants
<1>3. t \in Row /\ t.attempts = r.attempts + 1 /\ t.leased
      /\ t.status = r.status /\ t.wamid = r.wamid
  BY <1>2 DEF Row
<1>4. r.status # "NONE" /\ ~r.wamid /\ \A i \in JobId : q[i].st \notin Sending
  BY DEF RowOK, ClaimCurrent
<1>5. s <= u
  BY DEF RowOK, Counted
<1> HIDE DEF p, t
<1>6. \A i \in JobId : p[i].st \in Sending => i = id
  BY <1>1, <1>4
<1>7. Alone(p) /\ UnderLease(t, p)
  BY <1>3, <1>4, <1>6 DEF Alone, UnderLease
<1>8. ClaimCurrent(t, p)
  <2>1. SUFFICES ASSUME NEW i \in JobId, p[i].st = "claim"
                 PROVE  t.status # "NONE" /\ p[i].seen <= t.attempts
                        /\ p[i].seen # t.attempts
    BY DEF ClaimCurrent
  <2>2. p[i] = q[i]
    BY <2>1, <1>1
  <2>3. p[i].seen \in Nat
    BY <1>1 DEF Job
  <2>4. p[i].seen <= r.attempts
    BY <2>1, <2>2 DEF RowOK, ClaimCurrent
  <2> QED
    BY <2>3, <2>4, <1>2, <1>3, <1>4
<1>9. Counted(t, p, s, u)
  BY <1>5 DEF Counted, RowOK
<1> QED
  BY <1>1, <1>3, <1>4, <1>7, <1>8, <1>9 DEF RowOK, p, t

\* A sending run moves on to its terminal write; what Meta accepted is counted.
LEMMA SendOK ==
  ASSUME NEW r, NEW q, NEW s, NEW u, RowOK(r, q, s, u), NEW id \in JobId,
         q[id].st = "send"
  PROVE  /\ RowOK(r, Stepped(q, id, "record"), s + 1, u)
         /\ RowOK(r, Stepped(q, id, "fail"), s, u)
         /\ RowOK(r, Stepped(q, id, "fail"), s + 1, u + 1)
<1>1. "record" \in JobState /\ "fail" \in JobState
  BY DEF JobState, Active
<1>2. s \in Nat /\ u \in Nat /\ s <= u
  BY DEF RowOK, Counted
<1>3. SUFFICES ASSUME NEW st \in {"record", "fail"}, NEW s2 \in Nat, NEW u2 \in Nat,
                      s2 <= u2 + 1, st = "fail" => s2 <= u2
               PROVE  RowOK(r, Stepped(q, id, st), s2, u2)
  BY <1>2
<1> DEFINE p == Stepped(q, id, st)
<1>4. /\ p \in [JobId -> Job]
      /\ \A i \in JobId \ {id} : p[i] = q[i]
      /\ p[id].st = st
  BY <1>1, <1>3, SteppedJob DEF RowOK, OnlyJob
<1> HIDE DEF p
<1>5. \A i \in JobId : p[i].st \in Sending => i = id
  BY <1>3, <1>4 DEF RowOK, Alone, Sending
<1>6. \A i \in JobId : p[i].st = "claim" => q[i].st = "claim" /\ p[i].seen = q[i].seen
  BY <1>3, <1>4
<1>7. \A i \in JobId : q[i].st = "claim" => q[i].seen # r.attempts
  BY DEF RowOK, ClaimCurrent, Sending
<1>8. Alone(p) /\ UnderLease(r, p)
  BY <1>5 DEF RowOK, Alone, UnderLease, Sending
<1>9. ClaimCurrent(r, p)
  BY <1>6, <1>7 DEF RowOK, ClaimCurrent
<1>10. Counted(r, p, s2, u2)
  <2>1. CASE st = "fail"
    BY <2>1, <1>3 DEF Counted
  <2>2. CASE st = "record"
    <3>1. ASSUME NEW i \in JobId
          PROVE  p[i].st \notin {"send", "fail"} /\ ~(p[i].st = "claim" /\ p[i].seen = r.attempts)
      BY <2>2, <1>4, <1>5, <1>6, <1>7 DEF Sending
    <3> QED
      BY <2>2, <3>1, <1>3, <1>4 DEF Counted
  <2> QED
    BY <2>1, <2>2, <1>3
<1> QED
  BY <1>3, <1>4, <1>8, <1>9, <1>10 DEF RowOK, p

\* finalize(SENT): the message is recorded, or the row was cancelled meanwhile.
LEMMA RecordOK ==
  ASSUME NEW r, NEW q, NEW s, NEW u, RowOK(r, q, s, u), NEW id \in JobId,
         q[id].st = "record"
  PROVE  /\ r.status \in {"QUEUED", "FAILED"} =>
              RowOK([r EXCEPT !.status = "SENT", !.wamid = TRUE, !.leased = FALSE],
                    Ended(q, id, "done"), s, u)
         /\ r.status \notin {"QUEUED", "FAILED"} => RowOK(r, Ended(q, id, "done"), s, u)
<1> DEFINE p == Ended(q, id, "done")
           t == [r EXCEPT !.status = "SENT", !.wamid = TRUE, !.leased = FALSE]
<1>1. /\ p \in [JobId -> Job]
      /\ \A i \in JobId \ {id} : p[i] = q[i]
      /\ p[id].st = "done"
  <2>1. "done" \in JobState
    BY DEF JobState
  <2> QED
    BY <2>1, EndedJob DEF RowOK, OnlyJob
<1>2. /\ t \in Row
      /\ t.status = "SENT" /\ t.wamid /\ t.attempts = r.attempts
  BY DEF RowOK, Row, Status
<1> HIDE DEF p, t
<1>3. \A i \in JobId : p[i].st \notin Sending
  BY <1>1 DEF RowOK, Alone, Sending
<1>4. \A i \in JobId : p[i].st = "claim" =>
         r.status # "NONE" /\ p[i].seen <= r.attempts /\ p[i].seen # r.attempts
  BY <1>1 DEF RowOK, ClaimCurrent, Sending
<1>5. r.status # "NONE"
  BY DEF RowOK, UnderLease, Sending
<1>6. ASSUME NEW x \in {r, t}, ~Open(x)
      PROVE  RowOK(x, p, s, u)
  <2>1. x \in Row /\ x.attempts = r.attempts /\ x.status # "NONE"
        /\ (x.wamid => x.status \notin {"NONE", "QUEUED"})
    BY <1>2, <1>5, <1>6 DEF RowOK
  <2>2. Alone(p) /\ UnderLease(x, p) /\ ClaimCurrent(x, p)
    BY <2>1, <1>3, <1>4 DEF Alone, UnderLease, ClaimCurrent
  <2>3. \A i \in JobId : ~(p[i].st \in {"send", "fail"}
                           \/ (p[i].st = "claim" /\ p[i].seen = x.attempts))
    BY <2>1, <1>3, <1>4 DEF Sending
  <2>4. Counted(x, p, s, u)
    BY <2>3, <1>6 DEF RowOK, Counted
  <2> QED
    BY <2>1, <2>2, <2>4, <1>1 DEF RowOK
<1>7. ~Open(t) /\ (r.status \notin {"QUEUED", "FAILED"} => ~Open(r))
  BY <1>2, <1>5 DEF Open
<1> QED
  BY <1>6, <1>7 DEF p, t

\* finalize(FAILED), and the job is tried again or dead.
LEMMA FailOK ==
  ASSUME NEW r, NEW q, NEW s, NEW u, RowOK(r, q, s, u), NEW id \in JobId,
         q[id].st = "fail"
  PROVE  /\ r.status \in {"QUEUED", "FAILED"} =>
              RowOK([r EXCEPT !.status = "FAILED", !.leased = FALSE], Retried(q, id), s, u)
         /\ RowOK(r, Retried(q, id), s, u)
<1> DEFINE p == Retried(q, id)
           t == [r EXCEPT !.status = "FAILED", !.leased = FALSE]
<1>1. /\ p \in [JobId -> Job]
      /\ \A i \in JobId \ {id} : p[i] = q[i]
      /\ p[id].st \in {"wait", "dead"}
  BY AgainOrDead DEF RowOK, OnlyJob
<1>2. /\ t \in Row
      /\ t.status = "FAILED" /\ t.wamid = r.wamid /\ t.attempts = r.attempts
  BY DEF RowOK, Row, Status
<1> HIDE DEF p, t
<1>3. RowOK(r, p, s, u)
  <2>1. \A i \in JobId : p[i] = q[i] \/ p[i].st \notin Holding
    BY <1>1 DEF Holding, Sending
  <2>2. \A i \in JobId : ~(q[i].st = "record" /\ p[i].st # "record")
    BY <1>1
  <2>3. u \in Nat /\ u >= u
    BY DEF RowOK
  <2> QED
    BY <2>1, <2>2, <2>3, <1>1, JobsLeave
<1>4. \A i \in JobId : p[i].st \notin Sending
  BY <1>1 DEF RowOK, Alone, Sending
<1>5. r.status \in {"QUEUED", "FAILED"} => RowOK(t, p, s, u)
  BY <1>2, <1>3, <1>4, RowChanges DEF RowOK, Open
<1> QED
  BY <1>3, <1>5 DEF p, t

-----------------------------------------------------------------------------
(* All rows                                                                *)

\* A step changes the row, the jobs and the counts of row n only.
LEMMA OneRow ==
  ASSUME RowsOK, NEW n \in Notif,
         NEW r, NEW q, NEW s, NEW u, RowOK(r, q, s, u),
         row' \in {row, [row EXCEPT ![n] = r]}, row'[n] = r,
         job' \in {job, [job EXCEPT ![n] = q]}, job'[n] = q,
         sent' \in {sent, [sent EXCEPT ![n] = s]}, sent'[n] = s,
         unnoticed' \in {unnoticed, [unnoticed EXCEPT ![n] = u]}, unnoticed'[n] = u
  PROVE  RowsOK'
<1>1. r \in Row /\ q \in [JobId -> Job] /\ s \in Nat /\ u \in Nat
  BY DEF RowOK
<1>2. row' \in [Notif -> Row] /\ \A m \in Notif \ {n} : row'[m] = row[m]
  BY <1>1 DEF RowsOK
<1>3. job' \in [Notif -> [JobId -> Job]] /\ \A m \in Notif \ {n} : job'[m] = job[m]
  BY <1>1 DEF RowsOK
<1>4. sent' \in [Notif -> Nat] /\ \A m \in Notif \ {n} : sent'[m] = sent[m]
  BY <1>1 DEF RowsOK
<1>5. unnoticed' \in [Notif -> Nat] /\ \A m \in Notif \ {n} : unnoticed'[m] = unnoticed[m]
  BY <1>1 DEF RowsOK
<1>6. ASSUME NEW m \in Notif
      PROVE  RowOK(row'[m], job'[m], sent'[m], unnoticed'[m])
  BY <1>2, <1>3, <1>4, <1>5 DEF RowsOK
<1> QED
  BY <1>2, <1>3, <1>4, <1>5, <1>6 DEF RowsOK

\* What the invariant says of one row.
LEMMA OfRow ==
  ASSUME RowsOK, NEW n \in Notif
  PROVE  /\ RowOK(row[n], job[n], sent[n], unnoticed[n])
         /\ row[n] \in Row /\ job[n] \in [JobId -> Job]
         /\ sent[n] \in Nat /\ unnoticed[n] \in Nat
  BY DEF RowsOK

\* The jobs of row n change without a run beginning.
LEMMA OneRowsJobs ==
  ASSUME RowsOK, NEW n \in Notif, NEW p \in [JobId -> Job],
         \A i \in JobId : p[i] = job[n][i] \/ p[i].st \notin Holding,
         \A i \in JobId : job[n][i].st = "record" => p[i].st = "record",
         job' = [job EXCEPT ![n] = p], UNCHANGED <<row, sent, unnoticed>>
  PROVE  RowsOK'
<1>1. RowOK(row[n], p, sent[n], unnoticed[n])
  BY OfRow, JobsLeave
<1>2. job'[n] = p
  BY DEF RowsOK
<1> QED
  BY <1>1, <1>2, OneRow

\* One job of row n, not one that records, changes without a run beginning.
LEMMA OneJob ==
  ASSUME RowsOK, NEW n \in Notif, NEW id \in JobId, NEW p,
         OnlyJob(job[n], p, id), p[id] = job[n][id] \/ p[id].st \notin Holding,
         job[n][id].st # "record",
         job' = [job EXCEPT ![n] = p], UNCHANGED <<row, sent, unnoticed>>
  PROVE  RowsOK'
<1>1. p \in [JobId -> Job] /\ \A i \in JobId \ {id} : p[i] = job[n][i]
  BY DEF OnlyJob
<1>2. \A i \in JobId : p[i] = job[n][i] \/ p[i].st \notin Holding
  BY <1>1
<1>3. \A i \in JobId : job[n][i].st = "record" => p[i].st = "record"
  BY <1>1
<1> QED
  BY <1>1, <1>2, <1>3, OneRowsJobs

\* A job is added for row n.
LEMMA OneAdded ==
  ASSUME RowsOK, NEW n \in Notif, NEW id \in JobId, NEW st \in {"wait", "delayed"},
         job' = [job EXCEPT ![n] = Added(@, id, st)], UNCHANGED <<row, sent, unnoticed>>
  PROVE  RowsOK'
<1>1. job[n] \in [JobId -> Job]
  BY OfRow
<1> DEFINE p == Added(job[n], id, st)
<1>2. /\ p \in [JobId -> Job]
      /\ \A i \in JobId \ {id} : p[i] = job[n][i]
      /\ p[id] = job[n][id] \/ (p[id].st \notin Holding /\ job[n][id].st = "absent")
  <2>1. OnlyJob(job[n], p, id) /\ (p[id] = job[n][id] \/ p[id].st \notin Holding)
    BY <1>1, AddedJob
  <2>2. job[n][id].st # "absent" => p = job[n]
    BY DEF Added
  <2> HIDE DEF p
  <2> QED
    BY <2>1, <2>2 DEF OnlyJob
<1>3. job' = [job EXCEPT ![n] = p]
  OBVIOUS
<1> HIDE DEF p
<1>4. \A i \in JobId : p[i] = job[n][i] \/ p[i].st \notin Holding
  BY <1>2
<1>5. \A i \in JobId : job[n][i].st = "record" => p[i].st = "record"
  BY <1>2
<1> QED
  BY <1>2, <1>3, <1>4, <1>5, OneRowsJobs

\* The rows of a handler: new ones on unused ids, the others dropped if queued.
LEMMA Rewritten ==
  ASSUME RowsOK, NEW new \in BookingRows \union CancelRows, NEW says \in 0..MaxMoves,
         Rewrite(new, says), UNCHANGED <<job, sent, unnoticed>>
  PROVE  RowsOK'
<1>1. DOMAIN new \subseteq Unused /\ \A n \in DOMAIN new : new[n] \in Kind
  BY DEF BookingRows, CancelRows, Kind
<1>2. ASSUME NEW n \in Notif
      PROVE  RowOK(row'[n], job[n], sent[n], unnoticed[n])
  <2>1. CASE n \in DOMAIN new
    <3>1. row'[n] = NewRow(new[n], says) /\ row[n].status = "NONE"
      BY <2>1, <1>1 DEF Rewrite, Unused
    <3> QED
      BY <3>1, <1>1, <2>1, OfRow, NewRowOK
  <2>2. CASE n \notin DOMAIN new
    <3>1. row'[n] = Dropped(row[n])
      BY <2>2 DEF Rewrite
    <3> QED
      BY <3>1, OfRow, DroppedOK
  <2> QED
    BY <2>1, <2>2
<1>3. \A n \in Notif : row'[n] \in Row
  BY <1>2 DEF RowOK
<1>4. row' \in [Notif -> Row]
  BY <1>3 DEF Rewrite
<1> QED
  BY <1>2, <1>4 DEF RowsOK

-----------------------------------------------------------------------------
(* The actions                                                             *)

\* What the handlers do keeps the rows.
LEMMA HandlersKeepRows ==
  ASSUME SurroundingsOK, RowsOK, Handlers
  PROVE  RowsOK'
<1>1. version \in 0..MaxMoves /\ (version < MaxMoves => version + 1 \in 0..MaxMoves)
  BY DeliveryConstants DEF SurroundingsOK, DeliveryConstants
<1>2. ASSUME NEW new \in BookingRows, Book(new) \/ Reschedule(new)
      PROVE  RowsOK'
  BY <1>1, <1>2, Rewritten DEF Book, Reschedule, history
<1>3. ASSUME NEW new \in CancelRows, NEW k \in 0..MaxMoves, CustomerCancel(new, k)
      PROVE  RowsOK'
  BY <1>3, Rewritten DEF CustomerCancel, history
<1>4. CASE (\E notify \in BOOLEAN : StaffRead(notify)) \/ StaffClose \/ StaffCrash
  BY <1>4 DEF StaffRead, StaffClose, StaffCrash, history, RowsOK
<1>5. CASE StaffDropRows
  <2>1. row' = [n \in Notif |-> Dropped(row[n])] /\ UNCHANGED <<job, sent, unnoticed>>
    BY <1>5 DEF StaffDropRows, history
  <2>2. \A n \in Notif : RowOK(row'[n], job[n], sent[n], unnoticed[n])
    BY <2>1, OfRow, DroppedOK
  <2>3. row' \in [Notif -> Row]
    BY <2>1, <2>2 DEF RowOK
  <2> QED
    BY <2>1, <2>2, <2>3 DEF RowsOK
<1>6. ASSUME NEW n \in Notif, StaffNotice(n)
      PROVE  RowsOK'
  <2>1. /\ row[n].status = "NONE"
        /\ row' = [row EXCEPT ![n] = NewRow("notice", closing.says)]
        /\ UNCHANGED <<job, sent, unnoticed>> /\ closing.says \in 0..MaxMoves
    BY <1>6 DEF StaffNotice, history, Unused, SurroundingsOK, Closing
  <2>2. RowOK(NewRow("notice", closing.says), job[n], sent[n], unnoticed[n])
    BY <2>1, OfRow, NewRowOK DEF Kind
  <2>3. row'[n] = NewRow("notice", closing.says)
    BY <2>1 DEF RowsOK
  <2> QED
    BY <2>1, <2>2, <2>3, OneRow
<1>7. ASSUME NEW n \in Notif, Enqueue(n)
      PROVE  RowsOK'
  <2>1. Plain \in JobId
    BY DEF JobId
  <2>2. PICK st \in {"wait", "delayed"} : job' = [job EXCEPT ![n] = Added(@, Plain, st)]
    BY <1>7 DEF Enqueue
  <2> QED
    BY <2>1, <2>2, <1>7, OneAdded DEF Enqueue, history
<1>8. ASSUME NEW n \in Notif, EnqueueLost(n)
      PROVE  RowsOK'
  BY <1>8 DEF EnqueueLost, history, RowsOK
<1> QED
  BY <1>2, <1>3, <1>4, <1>5, <1>6, <1>7, <1>8 DEF Handlers

\* So do time and Meta's callbacks.
LEMMA TimeKeepsRows ==
  ASSUME RowsOK, NEW n \in Notif,
         \/ DueComes(n) \/ LeaseLapses(n)
         \/ \E s \in {"DELIVERED", "READ", "FAILED"} : Callback(n, s)
  PROVE  RowsOK'
<1>1. SUFFICES ASSUME NEW t, RowOK(t, job[n], sent[n], unnoticed[n]),
                      row' = [row EXCEPT ![n] = t], UNCHANGED <<job, sent, unnoticed>>
               PROVE  RowsOK'
  <2>1. CASE DueComes(n)
    <3> DEFINE t == [row[n] EXCEPT !.due = TRUE]
    <3>1. /\ t \in Row
          /\ t.attempts = row[n].attempts /\ t.wamid = row[n].wamid
          /\ t.status = row[n].status /\ t.leased = row[n].leased
      BY OfRow DEF Row
    <3>2. row' = [row EXCEPT ![n] = t] /\ UNCHANGED <<job, sent, unnoticed>>
      BY <2>1 DEF DueComes, history
    <3> HIDE DEF t
    <3>3. RowOK(t, job[n], sent[n], unnoticed[n])
      BY <3>1, OfRow, RowChanges DEF RowOK, UnderLease, Open
    <3> QED
      BY <3>2, <3>3
  <2>2. CASE LeaseLapses(n)
    <3> DEFINE t == [row[n] EXCEPT !.leased = FALSE]
    <3>1. /\ t \in Row
          /\ t.attempts = row[n].attempts /\ t.wamid = row[n].wamid
          /\ t.status = row[n].status
      BY OfRow DEF Row
    <3>2. row' = [row EXCEPT ![n] = t] /\ UNCHANGED <<job, sent, unnoticed>>
      BY <2>2 DEF LeaseLapses, history
    <3>3. \A i \in JobId : job[n][i].st \notin Sending
      BY <2>2 DEF LeaseLapses, Senders, Sending
    <3> HIDE DEF t
    <3>4. RowOK(t, job[n], sent[n], unnoticed[n])
      BY <3>1, <3>3, OfRow, RowChanges DEF RowOK, Open
    <3> QED
      BY <3>2, <3>4
  <2>3. ASSUME NEW s \in {"DELIVERED", "READ", "FAILED"}, Callback(n, s)
        PROVE  RowsOK'
    <3> DEFINE t == [row[n] EXCEPT !.status = s]
    <3>1. /\ t \in Row
          /\ t.attempts = row[n].attempts /\ t.wamid = row[n].wamid
          /\ t.status = s /\ t.leased = row[n].leased
      BY OfRow DEF Row, Status
    <3>2. /\ row' = [row EXCEPT ![n] = t] /\ UNCHANGED <<job, sent, unnoticed>>
          /\ row[n].wamid
      BY <2>3 DEF Callback, history
    <3> HIDE DEF t
    <3>3. RowOK(t, job[n], sent[n], unnoticed[n])
      BY <3>1, <3>2, OfRow, RowChanges DEF RowOK, UnderLease, Open
    <3> QED
      BY <3>2, <3>3
  <2> QED
    BY <2>1, <2>2, <2>3
<1>2. row'[n] = t
  BY <1>1 DEF RowsOK
<1> QED
  BY <1>1, <1>2, OneRow

\* So do a job that wakes and the sweep.
LEMMA QueueKeepsRows ==
  ASSUME RowsOK, NEW n \in Notif, NEW id \in JobId, Wake(n, id) \/ Sweep(n)
  PROVE  RowsOK'
<1>1. CASE Wake(n, id)
  <2> DEFINE p == Stepped(job[n], id, "wait")
  <2>1. "wait" \in JobState
    BY DEF JobState
  <2>2. OnlyJob(job[n], p, id) /\ p[id].st = "wait"
    BY <2>1, OfRow, SteppedJob
  <2>3. job' = [job EXCEPT ![n] = p] /\ job[n][id].st = "delayed" /\ UNCHANGED <<row, sent, unnoticed>>
    BY <1>1 DEF Wake, At, history
  <2> HIDE DEF p
  <2> QED
    BY <2>2, <2>3, OneJob DEF Holding, Sending
<1>2. CASE Sweep(n)
  <2>1. row[n].attempts \in 0..MaxClaims
    BY OfRow DEF Row
  <2>2. Plain \in JobId /\ Revival(n) \in JobId
    BY <2>1, IdsAreIds DEF Revival
  <2>3. PICK i \in JobId : job' = [job EXCEPT ![n] = Added(@, i, "wait")]
    BY <2>2, <1>2 DEF Sweep
  <2> QED
    BY <2>3, <1>2, OneAdded DEF Sweep, history
<1> QED
  BY <1>1, <1>2

\* A run that reads the row ends, is deferred or begins a claim.
LEMMA LookKeepsRows ==
  ASSUME RowsOK, NEW n \in Notif, NEW id \in JobId, Look(n, id)
  PROVE  RowsOK'
<1> DEFINE r == row[n]
           q == job[n]
<1>1. /\ q[id].st = "wait" /\ UNCHANGED <<row, sent, unnoticed>>
      /\ r \in Row /\ q \in [JobId -> Job] /\ r.attempts \in 0..MaxClaims
  BY OfRow DEF Look, At, history, Row
<1>2. "done" \in JobState /\ "veto" \in JobState
  BY DEF JobState, Active
<1>3. CASE job' = [job EXCEPT ![n] = Ended(@, id, "done")]
  <2> DEFINE p == Ended(q, id, "done")
  <2>1. OnlyJob(q, p, id) /\ p[id].st = "done"
    BY <1>1, <1>2, EndedJob
  <2>2. job' = [job EXCEPT ![n] = p]
    BY <1>3
  <2> HIDE DEF p
  <2> QED
    BY <1>1, <2>1, <2>2, OneJob DEF Holding, Sending
<1>4. CASE job' = [job EXCEPT ![n] = Stepped(@, id, "veto")]
  <2> DEFINE p == Stepped(q, id, "veto")
  <2>1. OnlyJob(q, p, id) /\ p[id].st = "veto"
    BY <1>1, <1>2, SteppedJob
  <2>2. job' = [job EXCEPT ![n] = p]
    BY <1>4
  <2> HIDE DEF p
  <2> QED
    BY <1>1, <2>1, <2>2, OneJob DEF Holding, Sending
<1>5. CASE job' = [job EXCEPT ![n] = Added(Ended(@, id, "done"), Defer(r.attempts), "delayed")]
  <2> DEFINE p0 == Ended(q, id, "done")
             d  == Defer(r.attempts)
             p  == Added(p0, d, "delayed")
  <2>1. OnlyJob(q, p0, id) /\ p0[id].st = "done"
    BY <1>1, <1>2, EndedJob
  <2>2. d \in JobId /\ p0 \in [JobId -> Job]
    BY <1>1, <2>1, IdsAreIds DEF OnlyJob
  <2>3. job' = [job EXCEPT ![n] = p]
    BY <1>5
  <2> HIDE DEF p0, d
  <2>4. OnlyJob(p0, p, d) /\ (p[d] = p0[d] \/ p[d].st \notin Holding)
    BY <2>2, AddedJob
  <2>5. p0[d].st # "absent" => p = p0
    BY DEF Added
  <2> HIDE DEF p
  <2>6. p \in [JobId -> Job] /\ \A i \in JobId : p[i] = p0[i] \/ p[i].st \notin Holding
    BY <2>4 DEF OnlyJob
  <2>7. \A i \in JobId : p[i] = q[i] \/ p[i].st \notin Holding
    BY <2>1, <2>6 DEF OnlyJob, Holding, Sending
  <2>8. \A i \in JobId : q[i].st = "record" => p[i].st = "record"
    BY <1>1, <2>1, <2>2, <2>4, <2>5 DEF OnlyJob
  <2> QED
    BY <1>1, <2>3, <2>6, <2>7, <2>8, OneRowsJobs
<1>6. CASE /\ ~Finished(n) /\ ~r.leased
           /\ job' = [job EXCEPT ![n] = Begun(@, id, r.attempts)]
  <2> DEFINE p == Begun(q, id, r.attempts)
  <2>1. r.status \in {"QUEUED", "FAILED"} /\ ~r.wamid /\ ~r.leased
    BY <1>6, OfRow DEF Finished, Row, Status, RowOK
  <2>2. RowOK(r, p, sent[n], unnoticed[n])
    BY <2>1, OfRow, BeginOK
  <2>3. job' = [job EXCEPT ![n] = p]
    BY <1>6
  <2> HIDE DEF p
  <2>4. job'[n] = p
    BY <2>3 DEF RowsOK
  <2> QED
    BY <1>1, <2>2, <2>3, <2>4, OneRow
<1> QED
  BY <1>3, <1>4, <1>5, <1>6 DEF Look

\* A vetoed row is cancelled unless it went out meanwhile.
LEMMA VetoKeepsRows ==
  ASSUME RowsOK, NEW n \in Notif, NEW id \in JobId, Veto(n, id)
  PROVE  RowsOK'
<1> DEFINE p == Ended(job[n], id, "done")
           t == IF Sendable(n) THEN [row[n] EXCEPT !.status = "CANCELLED"] ELSE row[n]
<1>1. job[n][id].st = "veto" /\ UNCHANGED <<sent, unnoticed>> /\ job' = [job EXCEPT ![n] = p]
  BY DEF Veto, At, history
<1>2. row' \in {row, [row EXCEPT ![n] = t]} /\ row'[n] = t
  BY DEF Veto, RowsOK
<1>3. /\ t \in Row /\ t.attempts = row[n].attempts /\ t.wamid = row[n].wamid
      /\ t.leased = row[n].leased
      /\ t = row[n] \/ (t.status = "CANCELLED" /\ row[n].status \in {"QUEUED", "FAILED"})
  BY OfRow DEF Row, Status, Sendable
<1> HIDE DEF t
<1>4. RowOK(t, job[n], sent[n], unnoticed[n])
  BY <1>3, OfRow, RowChanges DEF RowOK, UnderLease, Open
<1>5. OnlyJob(job[n], p, id) /\ p[id].st = "done"
  BY OfRow, EndedJob DEF JobState
<1> HIDE DEF p
<1>6. /\ p \in [JobId -> Job]
      /\ \A i \in JobId : p[i] = job[n][i] \/ p[i].st \notin Holding
      /\ \A i \in JobId : ~(job[n][i].st = "record" /\ p[i].st # "record")
  BY <1>1, <1>5 DEF OnlyJob, Holding, Sending
<1>7. RowOK(t, p, sent[n], unnoticed[n])
  BY <1>4, <1>6, OfRow, JobsLeave
<1>8. job'[n] = p
  BY <1>1 DEF RowsOK
<1> QED
  BY <1>1, <1>2, <1>7, <1>8, OneRow

\* Only the run that wins the claim goes on.
LEMMA ClaimKeepsRows ==
  ASSUME RowsOK, NEW n \in Notif, NEW id \in JobId, Claim(n, id)
  PROVE  RowsOK'
<1>1. job[n][id].st = "claim" /\ job[n][id].seen < MaxClaims /\ UNCHANGED <<sent, unnoticed>>
  BY DEF Claim, At, history
<1>2. CASE Won(n, id)
  <2> DEFINE p == Stepped(job[n], id, "send")
             t == [row[n] EXCEPT !.attempts = @ + 1, !.leased = TRUE]
  <2>1. row' = [row EXCEPT ![n] = t] /\ job' = [job EXCEPT ![n] = p]
    BY <1>2 DEF Claim
  <2>2. RowOK(t, p, sent[n], unnoticed[n])
    BY <1>1, <1>2, OfRow, ClaimOK DEF Won
  <2> HIDE DEF p, t
  <2>3. row'[n] = t /\ job'[n] = p
    BY <2>1 DEF RowsOK
  <2> QED
    BY <1>1, <2>1, <2>2, <2>3, OneRow
<1>3. CASE ~Won(n, id)
  <2> DEFINE p == Ended(job[n], id, "done")
  <2>1. job' = [job EXCEPT ![n] = p] /\ UNCHANGED row
    BY <1>3 DEF Claim
  <2>2. OnlyJob(job[n], p, id) /\ p[id].st = "done"
    BY OfRow, EndedJob DEF JobState
  <2> HIDE DEF p
  <2> QED
    BY <1>1, <2>1, <2>2, OneJob DEF Holding, Sending
<1> QED
  BY <1>2, <1>3

\* What Meta accepted is counted, and counted as unnoticed when it answers late.
LEMMA SendKeepsRows ==
  ASSUME RowsOK, NEW n \in Notif, NEW id \in JobId, Send(n, id)
  PROVE  RowsOK'
<1> DEFINE rec == Stepped(job[n], id, "record")
           bad == Stepped(job[n], id, "fail")
<1>1. job[n][id].st = "send" /\ UNCHANGED row
  BY DEF Send, At
<1>2. /\ RowOK(row[n], rec, sent[n] + 1, unnoticed[n])
      /\ RowOK(row[n], bad, sent[n], unnoticed[n])
      /\ RowOK(row[n], bad, sent[n] + 1, unnoticed[n] + 1)
  BY <1>1, OfRow, SendOK
<1>3. CASE sent' = [sent EXCEPT ![n] = @ + 1] /\ job' = [job EXCEPT ![n] = rec] /\ UNCHANGED unnoticed
  <2> HIDE DEF rec
  <2>1. sent'[n] = sent[n] + 1 /\ job'[n] = rec
    BY <1>3 DEF RowsOK
  <2> QED
    BY <1>1, <1>2, <1>3, <2>1, OneRow
<1>4. CASE job' = [job EXCEPT ![n] = bad] /\ UNCHANGED <<sent, unnoticed>>
  <2> HIDE DEF bad
  <2>1. job'[n] = bad
    BY <1>4 DEF RowsOK
  <2> QED
    BY <1>1, <1>2, <1>4, <2>1, OneRow
<1>5. CASE /\ sent' = [sent EXCEPT ![n] = @ + 1]
           /\ unnoticed' = [unnoticed EXCEPT ![n] = @ + 1]
           /\ job' = [job EXCEPT ![n] = bad]
  <2> HIDE DEF bad
  <2>1. sent'[n] = sent[n] + 1 /\ unnoticed'[n] = unnoticed[n] + 1 /\ job'[n] = bad
    BY <1>5 DEF RowsOK
  <2> QED
    BY <1>1, <1>2, <1>5, <2>1, OneRow
<1> QED
  BY <1>3, <1>4, <1>5 DEF Send

\* A terminal write gives the row back.
LEMMA FinalizeKeepsRows ==
  ASSUME RowsOK, NEW n \in Notif, NEW id \in JobId, Record(n, id) \/ Fail(n, id)
  PROVE  RowsOK'
<1>1. CASE Record(n, id)
  <2> DEFINE p == Ended(job[n], id, "done")
             t == [row[n] EXCEPT !.status = "SENT", !.wamid = TRUE, !.leased = FALSE]
  <2>1. /\ job[n][id].st = "record" /\ UNCHANGED <<sent, unnoticed>>
        /\ job' = [job EXCEPT ![n] = p]
        /\ \/ Sendable(n) /\ row' = [row EXCEPT ![n] = t]
           \/ ~Sendable(n) /\ UNCHANGED row
    BY <1>1 DEF Record, At, history
  <2>2. /\ Sendable(n) => RowOK(t, p, sent[n], unnoticed[n])
        /\ ~Sendable(n) => RowOK(row[n], p, sent[n], unnoticed[n])
    BY <2>1, OfRow, RecordOK DEF Sendable
  <2> HIDE DEF p, t
  <2>3. job'[n] = p /\ (row' = [row EXCEPT ![n] = t] => row'[n] = t)
    BY <2>1 DEF RowsOK
  <2> QED
    BY <2>1, <2>2, <2>3, OneRow
<1>2. CASE Fail(n, id)
  <2> DEFINE p == Retried(job[n], id)
             t == [row[n] EXCEPT !.status = "FAILED", !.leased = FALSE]
  <2>1. /\ job[n][id].st = "fail" /\ UNCHANGED <<sent, unnoticed>>
        /\ job' = [job EXCEPT ![n] = p]
        /\ \/ Sendable(n) /\ row' = [row EXCEPT ![n] = t]
           \/ UNCHANGED row
    BY <1>2 DEF Fail, At, history
  <2>2. /\ Sendable(n) => RowOK(t, p, sent[n], unnoticed[n])
        /\ RowOK(row[n], p, sent[n], unnoticed[n])
    BY <2>1, OfRow, FailOK DEF Sendable
  <2> HIDE DEF p, t
  <2>3. job'[n] = p /\ (row' = [row EXCEPT ![n] = t] => row'[n] = t)
    BY <2>1 DEF RowsOK
  <2> QED
    BY <2>1, <2>2, <2>3, OneRow
<1> QED
  BY <1>1, <1>2

\* A run whose database does not answer is tried again; what it had to record
\* is counted as unnoticed.
LEMMA DbErrorKeepsRows ==
  ASSUME RowsOK, NEW n \in Notif, NEW id \in JobId, DbError(n, id)
  PROVE  RowsOK'
<1> DEFINE p == Retried(job[n], id)
           v == IF job[n][id].st = "record" THEN unnoticed[n] + 1 ELSE unnoticed[n]
<1>1. /\ UNCHANGED <<row, sent>> /\ job' = [job EXCEPT ![n] = p]
      /\ unnoticed' \in {unnoticed, [unnoticed EXCEPT ![n] = v]} /\ unnoticed'[n] = v
  BY DEF DbError, At, RowsOK
<1>2. OnlyJob(job[n], p, id) /\ p[id].st \in {"wait", "dead"}
  BY OfRow, AgainOrDead
<1>3. v \in Nat /\ v >= unnoticed[n] /\ (job[n][id].st = "record" => v >= unnoticed[n] + 1)
  BY OfRow
<1> HIDE DEF p, v
<1>4. /\ p \in [JobId -> Job]
      /\ \A i \in JobId : p[i] = job[n][i] \/ p[i].st \notin Holding
      /\ \A i \in JobId : job[n][i].st = "record" /\ p[i].st # "record" => i = id
  BY <1>2 DEF OnlyJob, Holding, Sending
<1>5. RowOK(row[n], p, sent[n], v)
  BY <1>3, <1>4, OfRow, JobsLeave
<1>6. job'[n] = p
  BY <1>1 DEF RowsOK
<1> QED
  BY <1>1, <1>5, <1>6, OneRow

\* A dying worker stalls every run; one of each row at most had to record.
LEMMA WorkerDiesKeepsRows ==
  ASSUME RowsOK, WorkerDies
  PROVE  RowsOK'
<1> DEFINE Recorders(n) == {id \in JobId : At(n, id, "record")}
<1>1. ASSUME NEW n \in Notif
      PROVE  RowOK(row'[n], job'[n], sent'[n], unnoticed'[n])
  <2> DEFINE p == job'[n]
  <2>1. ASSUME NEW i \in JobId
        PROVE  p[i] = IF job[n][i].st \in Active THEN Stalled(job[n], i)[i] ELSE job[n][i]
    BY DEF WorkerDies
  <2>2. ASSUME NEW i \in JobId
        PROVE  /\ Stalled(job[n], i)[i] \in Job
               /\ Stalled(job[n], i)[i].st \in {"wait", "dead"}
    BY OfRow, AgainOrDead DEF OnlyJob
  <2>3. p = [i \in JobId |-> p[i]]
    BY DEF WorkerDies
  <2>4. \A i \in JobId : p[i] \in Job
    BY <2>1, <2>2, OfRow
  <2>5. p \in [JobId -> Job]
    BY <2>3, <2>4
  <2>6. \A i \in JobId : p[i] = job[n][i] \/ p[i].st \notin Holding
    BY <2>1, <2>2 DEF Holding, Sending
  <2>7. unnoticed'[n] = unnoticed[n] + Cardinality(Recorders(n))
    BY DEF WorkerDies
  <2>8. /\ Cardinality(Recorders(n)) \in Nat
        /\ (\E i \in JobId : job[n][i].st = "record") => Cardinality(Recorders(n)) = 1
    <3>1. CASE Recorders(n) = {}
      BY <3>1, FS_EmptySet DEF At
    <3>2. ASSUME NEW i \in Recorders(n)
          PROVE  Cardinality(Recorders(n)) = 1
      <4>1. Recorders(n) = {i}
        BY <3>2, OfRow DEF RowOK, Alone, Sending, At
      <4> QED
        BY <4>1, FS_Singleton
    <3> QED
      BY <3>1, <3>2
  <2> HIDE DEF Recorders
  <2>9. /\ unnoticed'[n] \in Nat /\ unnoticed'[n] >= unnoticed[n]
        /\ (\E i \in JobId : job[n][i].st = "record" /\ p[i].st # "record")
             => unnoticed'[n] >= unnoticed[n] + 1
    BY <2>7, <2>8, OfRow
  <2>10. UNCHANGED <<row, sent>>
    BY DEF WorkerDies
  <2> QED
    BY <2>5, <2>6, <2>9, <2>10, OfRow, JobsLeave
<1>2. \A n \in Notif : job'[n] \in [JobId -> Job] /\ unnoticed'[n] \in Nat
  BY <1>1 DEF RowOK
<1>3. job' = [n \in Notif |-> job'[n]] /\ unnoticed' = [n \in Notif |-> unnoticed'[n]]
  BY DEF WorkerDies
<1>4. job' \in [Notif -> [JobId -> Job]] /\ unnoticed' \in [Notif -> Nat]
  BY <1>2, <1>3
<1>5. UNCHANGED <<row, sent>>
  BY DEF WorkerDies
<1> QED
  BY <1>1, <1>4, <1>5 DEF RowsOK

\* A Redis that lost its data, between two runs, holds no job.
LEMMA RedisLosesJobsKeepsRows ==
  ASSUME RowsOK, RedisLosesJobs
  PROVE  RowsOK'
<1> DEFINE none == [id \in JobId |-> NoJob]
<1>1. job' = [n \in Notif |-> none] /\ UNCHANGED <<row, sent, unnoticed>>
  BY DEF RedisLosesJobs, history
<1>2. none \in [JobId -> Job] /\ \A i \in JobId : none[i].st = "absent"
  <2>1. NoJob \in Job
    BY NoJobIsJob DEF JobState
  <2> QED
    BY <2>1 DEF NoJob
<1>3. \A n \in Notif, i \in JobId : job[n][i].st # "record"
  BY DEF RedisLosesJobs, Active
<1> HIDE DEF none
<1>4. ASSUME NEW n \in Notif
      PROVE  RowOK(row[n], none, sent[n], unnoticed[n])
  <2>1. \A i \in JobId : none[i].st \notin Holding
    BY <1>2 DEF Holding, Sending
  <2>2. unnoticed[n] \in Nat /\ unnoticed[n] >= unnoticed[n]
    BY OfRow
  <2> QED
    BY <1>2, <1>3, <2>1, <2>2, OfRow, JobsLeave
<1>5. job' \in [Notif -> [JobId -> Job]] /\ \A n \in Notif : job'[n] = none
  BY <1>1, <1>2
<1> QED
  BY <1>1, <1>4, <1>5 DEF RowsOK

-----------------------------------------------------------------------------
(* The invariant, and what follows from it                                 *)

\* No status change in progress is one of the states of it.
LEMMA NoClosingTyped == NoClosing \in Closing
BY DeliveryConstants DEF DeliveryConstants, NoClosing, Closing

\* What surrounds the rows stays in its range.
LEMMA SurroundingsStay ==
  ASSUME SurroundingsOK, Next
  PROVE  SurroundingsOK'
<1> USE DeliveryConstants DEF SurroundingsOK, DeliveryConstants, history, booking
<1>1. CASE Trouble /\ UNCHANGED <<appt, version, open, optIn, closing>> /\ pending' \subseteq pending
  BY <1>1 DEF Trouble
<1>2. CASE Handlers
  <2>1. ASSUME NEW new \in BookingRows \union CancelRows
        PROVE  DOMAIN new \subseteq Notif
    BY <2>1 DEF BookingRows, CancelRows, Unused
  <2>2. ASSUME NEW new \in BookingRows, Book(new) \/ Reschedule(new)
        PROVE  SurroundingsOK'
    BY <2>1, <2>2 DEF Book, Reschedule
  <2>3. ASSUME NEW new \in CancelRows, NEW k \in 0..MaxMoves, CustomerCancel(new, k)
        PROVE  SurroundingsOK'
    BY <2>1, <2>3 DEF CustomerCancel
  <2>4. CASE (\E notify \in BOOLEAN : StaffRead(notify)) \/ StaffClose
             \/ StaffDropRows \/ StaffCrash
    <3>1. ASSUME NEW notify \in BOOLEAN, StaffRead(notify) PROVE SurroundingsOK'
      BY <3>1 DEF StaffRead, Closing
    <3>2. ASSUME NEW at \in {"rows", "notice"} PROVE [closing EXCEPT !.at = at] \in Closing
      BY DEF Closing
    <3> QED
      BY <2>4, <3>1, <3>2, NoClosingTyped DEF StaffClose, StaffDropRows, StaffCrash
  <2>5. ASSUME NEW n \in Notif, StaffNotice(n) \/ Enqueue(n) \/ EnqueueLost(n)
        PROVE  SurroundingsOK'
    BY <2>5, <1>1, NoClosingTyped DEF StaffNotice, Enqueue, EnqueueLost
  <2> QED
    BY <1>2, <2>2, <2>3, <2>4, <2>5 DEF Handlers
<1>3. CASE Ends \/ SetBranch \/ Consent
  BY <1>3 DEF Ends, SetBranch, Consent
<1>4. CASE WorkerDies \/ RedisLosesJobs
  BY <1>1, <1>4 DEF WorkerDies, RedisLosesJobs
<1>5. ASSUME NEW n \in Notif,
             \/ DueComes(n) \/ LeaseLapses(n) \/ Sweep(n)
             \/ \E s \in {"DELIVERED", "READ", "FAILED"} : Callback(n, s)
      PROVE  SurroundingsOK'
  BY <1>5 DEF DueComes, LeaseLapses, Sweep, Callback
<1>6. ASSUME NEW n \in Notif, NEW id \in JobId, Wake(n, id) \/ Run(n, id) \/ DbError(n, id)
      PROVE  SurroundingsOK'
  <2>1. CASE Send(n, id)
    BY <1>1, <2>1 DEF Send
  <2>2. CASE DbError(n, id)
    BY <1>1, <2>2 DEF DbError
  <2>3. CASE \/ Wake(n, id) \/ Look(n, id) \/ Veto(n, id) \/ Claim(n, id)
             \/ Record(n, id) \/ Fail(n, id)
    BY <2>3 DEF Wake, Look, Veto, Claim, Record, Fail
  <2> QED
    BY <1>6, <2>1, <2>2, <2>3 DEF Run
<1> QED
  BY <1>2, <1>3, <1>4, <1>5, <1>6 DEF Next

\* So do the rows.
LEMMA RowsStay ==
  ASSUME SurroundingsOK, RowsOK, Next
  PROVE  RowsOK'
<1>1. CASE Ends \/ SetBranch \/ Consent
  BY <1>1 DEF Ends, SetBranch, Consent, history, RowsOK
<1>2. ASSUME NEW n \in Notif, NEW id \in JobId, Run(n, id)
      PROVE  RowsOK'
  BY <1>2, LookKeepsRows, VetoKeepsRows, ClaimKeepsRows, SendKeepsRows, FinalizeKeepsRows DEF Run
<1>3. ASSUME NEW n \in Notif, Sweep(n)
      PROVE  RowsOK'
  <2>1. Plain \in JobId
    BY DEF JobId
  <2> QED
    BY <1>3, <2>1, QueueKeepsRows
<1> QED
  BY <1>1, <1>2, <1>3, HandlersKeepRows, TimeKeepsRows, QueueKeepsRows, DbErrorKeepsRows,
     WorkerDiesKeepsRows, RedisLosesJobsKeepsRows DEF Next

\* The invariant holds in every reachable state.
THEOREM DeliveryInvariant == SafeSpec => []DeliveryInv
<1>1. Init => DeliveryInv
  <2> SUFFICES ASSUME Init PROVE DeliveryInv
    OBVIOUS
  <2> USE DeliveryConstants DEF DeliveryConstants
  <2>1. SurroundingsOK
    BY NoClosingTyped DEF Init, SurroundingsOK
  <2>2. NoRow \in Row /\ NoRow.status = "NONE" /\ ~NoRow.wamid /\ ~NoRow.leased
    BY DEF NoRow, Row, Status, Kind
  <2> DEFINE none == [id \in JobId |-> NoJob]
  <2>3. none \in [JobId -> Job] /\ \A i \in JobId : none[i].st = "absent"
    <3>1. NoJob \in Job
      BY NoJobIsJob DEF JobState
    <3> QED
      BY <3>1 DEF NoJob
  <2>4. /\ row = [n \in Notif |-> NoRow] /\ job = [n \in Notif |-> none]
        /\ sent = [n \in Notif |-> 0] /\ unnoticed = [n \in Notif |-> 0]
    BY DEF Init
  <2> HIDE DEF none
  <2>5. RowOK(NoRow, none, 0, 0)
    BY <2>2, <2>3 DEF RowOK, Alone, UnderLease, ClaimCurrent, Counted, Sending
  <2>6. RowsOK
    BY <2>2, <2>3, <2>4, <2>5 DEF RowsOK
  <2> QED
    BY <2>1, <2>6 DEF DeliveryInv
<1>2. DeliveryInv /\ [Next]_vars => DeliveryInv'
  <2> SUFFICES ASSUME DeliveryInv, [Next]_vars PROVE DeliveryInv'
    OBVIOUS
  <2>1. CASE Next
    BY <2>1, SurroundingsStay, RowsStay DEF DeliveryInv
  <2>2. CASE UNCHANGED vars
    BY <2>2 DEF vars, booking, history, DeliveryInv, SurroundingsOK, RowsOK
  <2> QED
    BY <2>1, <2>2
<1> QED
  BY <1>1, <1>2, PTL DEF SafeSpec

\* Every variable stays in its type: no counter of attempts, tries or stalls
\* leaves its range.
THEOREM TypeInvariant == SafeSpec => []TypeOK
<1>1. DeliveryInv => TypeOK
  BY DEF DeliveryInv, SurroundingsOK, RowsOK, TypeOK
<1> QED
  BY <1>1, DeliveryInvariant, PTL

\* At most one run is between a claim and its terminal write, for any number of
\* jobs and workers (processNotification's compare-and-set and lease).
THEOREM OneSenderInvariant == SafeSpec => []OneSender
<1>1. DeliveryInv => OneSender
  <2> SUFFICES ASSUME DeliveryInv, NEW n \in Notif
               PROVE  Cardinality(Senders(n)) <= 1
    BY DEF OneSender
  <2>1. CASE Senders(n) = {}
    BY <2>1, FS_EmptySet
  <2>2. ASSUME NEW i \in Senders(n)
        PROVE  Cardinality(Senders(n)) = 1
    <3>1. Senders(n) = {i}
      BY <2>2, OfRow DEF DeliveryInv, RowOK, Alone, Senders, Sending
    <3> QED
      BY <3>1, FS_Singleton
  <2> QED
    BY <2>1, <2>2
<1> QED
  BY <1>1, DeliveryInvariant, PTL

\* A message is repeated only as often as its terminal write was lost.
THEOREM RepeatsExplainedInvariant == SafeSpec => []RepeatsExplained
<1>1. DeliveryInv => RepeatsExplained
  BY OfRow DEF DeliveryInv, RowOK, Counted, RepeatsExplained
<1> QED
  BY <1>1, DeliveryInvariant, PTL

\* What Meta reported, and a cancellation, are never undone.
THEOREM NoStepBackHolds == SafeSpec => NoStepBack
<1>1. ASSUME DeliveryInv, [Next]_vars, NEW m \in Notif
      PROVE  Forward(row[m].status, row'[m].status)
  <2> USE DEF Forward
  <2>1. row \in [Notif -> Row]
    BY <1>1 DEF DeliveryInv, RowsOK
  <2>2. CASE UNCHANGED row
    BY <2>2
  <2>3. ASSUME NEW new \in BookingRows \union CancelRows, NEW says, Rewrite(new, says)
        PROVE  Forward(row[m].status, row'[m].status)
    <3>1. CASE m \in DOMAIN new
      BY <2>3, <3>1 DEF BookingRows, CancelRows, Unused
    <3>2. CASE m \notin DOMAIN new
      <4>1. row'[m] = Dropped(row[m])
        BY <2>3, <3>2 DEF Rewrite
      <4> QED
        BY <2>1, <4>1 DEF Dropped, Row
    <3> QED
      BY <3>1, <3>2
  <2>4. CASE Handlers
    <3>1. CASE StaffDropRows
      <4>1. row'[m] = Dropped(row[m])
        BY <3>1 DEF StaffDropRows
      <4> QED
        BY <2>1, <4>1 DEF Dropped, Row
    <3>2. ASSUME NEW n \in Notif, StaffNotice(n)
          PROVE  Forward(row[m].status, row'[m].status)
      BY <2>1, <3>2 DEF StaffNotice, Unused
    <3> QED
      BY <2>2, <2>3, <2>4, <3>1, <3>2
         DEF Handlers, Book, Reschedule, CustomerCancel, StaffRead, StaffClose, StaffCrash,
             Enqueue, EnqueueLost
  <2>5. ASSUME NEW n \in Notif, DueComes(n) \/ LeaseLapses(n)
        PROVE  Forward(row[m].status, row'[m].status)
    <3>1. row'[m].status = row[m].status
      BY <2>1, <2>5 DEF DueComes, LeaseLapses, Row
    <3> QED
      BY <3>1
  <2>6. ASSUME NEW n \in Notif, NEW s \in {"DELIVERED", "READ", "FAILED"}, Callback(n, s)
        PROVE  Forward(row[m].status, row'[m].status)
    <3>1. row[n].status \in AdvancesFrom(s) /\ row' = [row EXCEPT ![n].status = s]
      BY <2>6 DEF Callback
    <3>2. (m = n => row'[m].status = s) /\ (m # n => row'[m] = row[m])
      BY <2>1, <3>1 DEF Row
    <3> QED
      BY <3>1, <3>2 DEF AdvancesFrom
  <2>7. ASSUME NEW n \in Notif, NEW id \in JobId, Run(n, id)
        PROVE  Forward(row[m].status, row'[m].status)
    <3>1. CASE Veto(n, id) \/ Record(n, id) \/ Fail(n, id)
      <4>1. row'[m].status = row[m].status \/ row[m].status \in {"QUEUED", "FAILED"}
        BY <2>1, <3>1 DEF Veto, Record, Fail, Sendable, Row
      <4> QED
        BY <4>1
    <3>2. CASE Claim(n, id)
      <4>1. row'[m].status = row[m].status
        BY <2>1, <3>2 DEF Claim, Row
      <4> QED
        BY <4>1
    <3>3. CASE Look(n, id) \/ Send(n, id)
      BY <3>3, <2>2 DEF Look, Send
    <3> QED
      BY <2>7, <3>1, <3>2, <3>3 DEF Run
  <2>8. CASE UNCHANGED vars
    BY <2>8, <2>2 DEF vars
  <2> QED
    BY <1>1, <2>2, <2>4, <2>5, <2>6, <2>7, <2>8
       DEF Next, Ends, SetBranch, Consent, WorkerDies, RedisLosesJobs, Sweep, Wake, DbError
<1>2. DeliveryInv /\ [Next]_vars => [\A n \in Notif : Forward(row[n].status, row'[n].status)]_vars
  BY <1>1
<1> QED
  BY <1>2, DeliveryInvariant, PTL DEF SafeSpec, NoStepBack

-----------------------------------------------------------------------------
(* What a row says, and why it may be dropped. A queued row that is no     *)
(* notice says the time that holds, a row in another state to be sent from *)
(* was tried, a notice exists only once the appointment is off, and is     *)
(* never vetoed.                                                           *)

Meant(r, q, a, v) ==
  /\ r.kind = "notice" => a = "off"
  /\ r.status = "QUEUED" /\ r.kind # "notice" => r.says = v
  /\ r.status = "FAILED" \/ r.wamid => r.attempts > 0
  /\ \A i \in JobId : q[i].st \in Sending => r.attempts > 0
  /\ \A i \in JobId : q[i].st = "veto" => r.status # "NONE" /\ r.kind # "notice"

MeantOK ==
  /\ closing.at \in {"rows", "notice"} => appt = "off"
  /\ \A n \in Notif : Meant(row[n], job[n], appt, version)

\* No run of p is sending, or about to cancel, that was not in q.
Calmer(q, p) ==
  \A i \in JobId : /\ p[i].st \in Sending => q[i].st \in Sending
                   /\ p[i].st = "veto" => q[i].st = "veto"

\* One job that changes to a state of its own is enough to compare.
LEMMA OneCalmer ==
  ASSUME NEW q, NEW p, NEW id \in JobId, OnlyJob(q, p, id),
         /\ p[id].st \in Sending => q[id].st \in Sending
         /\ p[id].st = "veto" => q[id].st = "veto"
  PROVE  Calmer(q, p)
  BY DEF OnlyJob, Calmer

\* An added job is nobody's run.
LEMMA AddedCalmer ==
  ASSUME NEW q \in [JobId -> Job], NEW id \in JobId, NEW st \in {"wait", "delayed"}
  PROVE  Calmer(q, Added(q, id, st))
<1>1. CASE q[id].st = "absent"
  <2>1. Added(q, id, st)[id].st = st
    BY <1>1 DEF Added, NoJob
  <2> QED
    BY <2>1, AddedJob, OneCalmer DEF Sending
<1>2. CASE q[id].st # "absent"
  BY <1>2 DEF Added, Calmer
<1> QED
  BY <1>1, <1>2

\* A row keeps its meaning when it is not queued anew, not failed without a
\* wamid, and gets no run.
LEMMA MeantKept ==
  ASSUME NEW r, NEW q, NEW a, NEW v, Meant(r, q, a, v), NEW t, NEW p, NEW b, NEW w,
         Calmer(q, p), t.kind = r.kind, t.attempts = r.attempts, t.wamid = r.wamid,
         t.kind = "notice" /\ a = "off" => b = "off",
         t.status = "QUEUED" => r.status = "QUEUED" /\ t.says = r.says /\ w = v,
         t.status = "FAILED" => r.status = "FAILED" \/ r.wamid,
         r.status # "NONE" => t.status # "NONE"
  PROVE  Meant(t, p, b, w)
  BY DEF Meant, Calmer

\* A handler that writes rows gives the new ones the time it writes; a notice has
\* the one its handler read.
LEMMA NewRowMeant ==
  ASSUME NEW r, NEW q, NEW s, NEW u, RowOK(r, q, s, u), r.status = "NONE",
         NEW a, NEW v, Meant(r, q, a, v), NEW kind, NEW k, NEW w, NEW b,
         kind = "notice" => b = "off", kind # "notice" => k = w
  PROVE  Meant(NewRow(kind, k), q, b, w)
<1>1. /\ NewRow(kind, k).kind = kind /\ NewRow(kind, k).status = "QUEUED"
      /\ NewRow(kind, k).says = k /\ ~NewRow(kind, k).wamid
  BY DEF NewRow, NoRow
<1>2. \A i \in JobId : q[i].st \notin Sending
  BY UnusedIsIdle DEF Holding
<1>3. \A i \in JobId : q[i].st # "veto"
  BY DEF Meant
<1> QED
  BY <1>1, <1>2, <1>3 DEF Meant

\* Dropping what is queued leaves no queued row that could be stale.
LEMMA DroppedMeant ==
  ASSUME NEW r, r \in Row, NEW q, NEW a, NEW v, Meant(r, q, a, v), NEW b, NEW w,
         r.kind = "notice" /\ a = "off" => b = "off"
  PROVE  Meant(Dropped(r), q, b, w)
<1>1. /\ Dropped(r).kind = r.kind /\ Dropped(r).attempts = r.attempts
      /\ Dropped(r).wamid = r.wamid
      /\ Dropped(r).status # "QUEUED"
      /\ Dropped(r).status = "FAILED" => r.status = "FAILED"
      /\ r.status # "NONE" => Dropped(r).status # "NONE"
  BY DEF Dropped, Row
<1>2. Calmer(q, q)
  BY DEF Calmer
<1> QED
  BY <1>1, <1>2, MeantKept

\* The handlers.
LEMMA RewriteMeant ==
  ASSUME RowsOK, MeantOK, NEW new \in BookingRows \union CancelRows,
         NEW k, Rewrite(new, k), UNCHANGED job,
         \A n \in DOMAIN new : IF new[n] = "notice" THEN appt' = "off" ELSE k = version',
         appt # "off"
  PROVE  \A n \in Notif : Meant(row'[n], job'[n], appt', version')
<1> SUFFICES ASSUME NEW n \in Notif
             PROVE  Meant(row'[n], job[n], appt', version')
  OBVIOUS
<1>1. Meant(row[n], job[n], appt, version)
  BY DEF MeantOK
<1>2. CASE n \in DOMAIN new
  <2>1. row[n].status = "NONE" /\ row'[n] = NewRow(new[n], k)
    BY <1>2 DEF BookingRows, CancelRows, Unused, Rewrite
  <2> QED
    BY <2>1, <1>1, <1>2, OfRow, NewRowMeant
<1>3. CASE n \notin DOMAIN new
  <2>1. row'[n] = Dropped(row[n])
    BY <1>3 DEF Rewrite
  <2> QED
    BY <2>1, <1>1, OfRow, DroppedMeant
<1> QED
  BY <1>2, <1>3

LEMMA HandlersMeant ==
  ASSUME RowsOK, MeantOK, Handlers
  PROVE  MeantOK'
<1>1. ASSUME NEW new \in BookingRows, Book(new) \/ Reschedule(new)
      PROVE  MeantOK'
  <2>1. \A n \in DOMAIN new : new[n] # "notice"
    BY DEF BookingRows
  <2>2. /\ Rewrite(new, version') /\ UNCHANGED <<job, closing>>
        /\ appt # "off" /\ closing.at \notin {"rows", "notice"}
    BY <1>1 DEF Book, Reschedule, MeantOK
  <2> QED
    BY <2>1, <2>2, RewriteMeant DEF MeantOK
<1>2. ASSUME NEW new \in CancelRows, NEW k \in 0..MaxMoves, CustomerCancel(new, k)
      PROVE  MeantOK'
  <2>1. \A n \in DOMAIN new : new[n] = "notice"
    BY DEF CancelRows
  <2>2. /\ Rewrite(new, k) /\ UNCHANGED <<job, closing>>
        /\ appt # "off" /\ appt' = "off"
    BY <1>2 DEF CustomerCancel
  <2> QED
    BY <2>1, <2>2, RewriteMeant DEF MeantOK
<1>3. CASE StaffClose
  <2>1. UNCHANGED <<row, job, version>> /\ appt' = "off"
    BY <1>3 DEF StaffClose
  <2> QED
    BY <2>1 DEF MeantOK, Meant
<1>4. CASE (\E notify \in BOOLEAN : StaffRead(notify)) \/ StaffCrash
  BY <1>4 DEF StaffRead, StaffCrash, NoClosing, MeantOK
<1>5. CASE StaffDropRows
  <2>1. /\ UNCHANGED <<job, appt, version>> /\ appt = "off"
        /\ \A n \in Notif : row'[n] = Dropped(row[n])
    BY <1>5 DEF StaffDropRows, MeantOK
  <2>2. ASSUME NEW n \in Notif
        PROVE  Meant(row'[n], job'[n], appt', version')
    BY <2>1, OfRow, DroppedMeant DEF MeantOK
  <2> QED
    BY <2>1, <2>2 DEF MeantOK
<1>6. ASSUME NEW n \in Notif, StaffNotice(n)
      PROVE  MeantOK'
  <2>1. /\ UNCHANGED <<job, appt, version>> /\ closing.at = "notice" /\ closing'.at = "no"
        /\ row[n].status = "NONE"
        /\ row' = [row EXCEPT ![n] = NewRow("notice", closing.says)]
    BY <1>6 DEF StaffNotice, Unused, NoClosing
  <2>2. appt = "off" /\ row \in [Notif -> Row]
    BY <2>1 DEF MeantOK, RowsOK
  <2>3. Meant(NewRow("notice", closing.says), job[n], appt, version)
    BY <2>1, <2>2, OfRow, NewRowMeant DEF MeantOK
  <2>4. /\ row'[n] = NewRow("notice", closing.says)
        /\ \A m \in Notif \ {n} : row'[m] = row[m]
    BY <2>1, <2>2
  <2> QED
    BY <2>1, <2>3, <2>4 DEF MeantOK
<1>7. ASSUME NEW n \in Notif, Enqueue(n)
      PROVE  MeantOK'
  <2>1. Plain \in JobId
    BY DEF JobId
  <2>2. PICK st \in {"wait", "delayed"} : job' = [job EXCEPT ![n] = Added(@, Plain, st)]
    BY <1>7 DEF Enqueue
  <2>3. UNCHANGED <<row, appt, version, closing>>
    BY <1>7 DEF Enqueue, booking
  <2>4. Calmer(job[n], job'[n]) /\ \A m \in Notif \ {n} : job'[m] = job[m]
    BY <2>1, <2>2, OfRow, AddedCalmer DEF RowsOK
  <2> QED
    BY <2>3, <2>4, MeantKept DEF MeantOK
<1>8. ASSUME NEW n \in Notif, EnqueueLost(n)
      PROVE  MeantOK'
  BY <1>8 DEF EnqueueLost, booking, MeantOK
<1> QED
  BY <1>1, <1>2, <1>3, <1>4, <1>5, <1>6, <1>7, <1>8 DEF Handlers

\* The jobs of row n calm down, its row keeps its meaning, nothing else moves.
LEMMA OneMeant ==
  ASSUME RowsOK, MeantOK, NEW n \in Notif, NEW t, NEW p,
         Meant(t, p, appt, version), row'[n] = t, job'[n] = p,
         \A m \in Notif \ {n} : row'[m] = row[m] /\ job'[m] = job[m],
         UNCHANGED booking
  PROVE  MeantOK'
  BY DEF MeantOK, booking

\* Only the jobs of row n change.
LEMMA JobsMeant ==
  ASSUME RowsOK, MeantOK, NEW n \in Notif, NEW p, Calmer(job[n], p),
         job' = [job EXCEPT ![n] = p], UNCHANGED <<booking, row>>
  PROVE  MeantOK'
<1>1. Meant(row[n], p, appt, version)
  BY MeantKept DEF MeantOK
<1>2. job'[n] = p /\ \A m \in Notif \ {n} : job'[m] = job[m]
  BY DEF RowsOK
<1> QED
  BY <1>1, <1>2, OneMeant

\* Time, and Meta's callbacks, which come only for a row that was sent.
LEMMA TimeMeant ==
  ASSUME RowsOK, MeantOK, NEW n \in Notif,
         \/ DueComes(n) \/ LeaseLapses(n)
         \/ \E s \in {"DELIVERED", "READ", "FAILED"} : Callback(n, s)
  PROVE  MeantOK'
<1>1. Meant(row[n], job[n], appt, version) /\ Calmer(job[n], job[n])
  BY DEF MeantOK, Calmer
<1>2. /\ \A m \in Notif \ {n} : row'[m] = row[m] /\ job'[m] = job[m]
      /\ job'[n] = job[n] /\ UNCHANGED booking
  BY DEF DueComes, LeaseLapses, Callback, RowsOK
<1>3. /\ row'[n].kind = row[n].kind /\ row'[n].attempts = row[n].attempts
      /\ row'[n].wamid = row[n].wamid /\ row'[n].says = row[n].says
      /\ \/ row'[n].status = row[n].status
         \/ row[n].wamid /\ row'[n].status \notin {"NONE", "QUEUED"}
  <2>1. row \in [Notif -> Row] /\ row[n] \in Row
    BY OfRow DEF RowsOK
  <2>2. CASE DueComes(n) \/ LeaseLapses(n)
    BY <2>1, <2>2 DEF DueComes, LeaseLapses, Row
  <2>3. CASE \E s \in {"DELIVERED", "READ", "FAILED"} : Callback(n, s)
    BY <2>1, <2>3 DEF Callback, Row
  <2> QED
    BY <2>2, <2>3
<1>4. Meant(row'[n], job[n], appt, version)
  BY <1>1, <1>3, MeantKept
<1> QED
  BY <1>2, <1>4, OneMeant

\* A job that wakes, and the sweep.
LEMMA QueueMeant ==
  ASSUME RowsOK, MeantOK, NEW n \in Notif, NEW id \in JobId, Wake(n, id) \/ Sweep(n)
  PROVE  MeantOK'
<1>1. CASE Wake(n, id)
  <2> DEFINE p == Stepped(job[n], id, "wait")
  <2>1. "wait" \in JobState
    BY DEF JobState
  <2>2. OnlyJob(job[n], p, id) /\ p[id].st = "wait"
    BY <2>1, OfRow, SteppedJob
  <2>3. job' = [job EXCEPT ![n] = p] /\ UNCHANGED <<booking, row>>
    BY <1>1 DEF Wake
  <2> HIDE DEF p
  <2>4. Calmer(job[n], p)
    BY <2>2, OneCalmer DEF Sending
  <2> QED
    BY <2>3, <2>4, JobsMeant
<1>2. CASE Sweep(n)
  <2>1. Plain \in JobId /\ Revival(n) \in JobId
    BY OfRow, IdsAreIds DEF Revival, Row
  <2>2. PICK i \in JobId : job' = [job EXCEPT ![n] = Added(@, i, "wait")]
    BY <2>1, <1>2 DEF Sweep
  <2> DEFINE p == Added(job[n], i, "wait")
  <2>3. Calmer(job[n], p)
    BY OfRow, AddedCalmer
  <2>4. job' = [job EXCEPT ![n] = p] /\ UNCHANGED <<booking, row>>
    BY <2>2, <1>2 DEF Sweep
  <2> HIDE DEF p
  <2> QED
    BY <2>3, <2>4, JobsMeant
<1> QED
  BY <1>1, <1>2

\* A run that reads the row: only a row that is to be sent and is no notice is
\* vetoed.
LEMMA LookMeant ==
  ASSUME RowsOK, MeantOK, NEW n \in Notif, NEW id \in JobId, Look(n, id)
  PROVE  MeantOK'
<1> DEFINE r == row[n]
           q == job[n]
<1>1. /\ UNCHANGED <<booking, row>>
      /\ r \in Row /\ q \in [JobId -> Job] /\ r.attempts \in 0..MaxClaims
  BY OfRow DEF Look, Row
<1>2. "done" \in JobState /\ "veto" \in JobState
  BY DEF JobState, Active
<1>3. CASE job' = [job EXCEPT ![n] = Ended(@, id, "done")]
  <2> DEFINE p == Ended(q, id, "done")
  <2>1. OnlyJob(q, p, id) /\ p[id].st = "done"
    BY <1>1, <1>2, EndedJob
  <2>2. job' = [job EXCEPT ![n] = p]
    BY <1>3
  <2> HIDE DEF p
  <2>3. Calmer(q, p)
    BY <2>1, OneCalmer DEF Sending
  <2> QED
    BY <1>1, <2>2, <2>3, JobsMeant
<1>4. CASE /\ ~Finished(n) /\ Vetoed(n)
           /\ job' = [job EXCEPT ![n] = Stepped(@, id, "veto")]
  <2> DEFINE p == Stepped(q, id, "veto")
  <2>1. OnlyJob(q, p, id) /\ p[id].st = "veto"
    BY <1>1, <1>2, SteppedJob
  <2>2. job' = [job EXCEPT ![n] = p]
    BY <1>4
  <2>3. r.status # "NONE" /\ r.kind # "notice"
    BY <1>4 DEF Finished, Vetoed
  <2> HIDE DEF p
  <2>4. Meant(r, p, appt, version)
    BY <2>1, <2>3 DEF MeantOK, Meant, OnlyJob, Sending
  <2>5. job'[n] = p /\ \A m \in Notif \ {n} : job'[m] = job[m]
    BY <2>2 DEF RowsOK
  <2> QED
    BY <1>1, <2>4, <2>5, OneMeant
<1>5. CASE job' = [job EXCEPT ![n] = Added(Ended(@, id, "done"), Defer(r.attempts), "delayed")]
  <2> DEFINE p0 == Ended(q, id, "done")
             d  == Defer(r.attempts)
             p  == Added(p0, d, "delayed")
  <2>1. OnlyJob(q, p0, id) /\ p0[id].st = "done"
    BY <1>1, <1>2, EndedJob
  <2>2. d \in JobId /\ p0 \in [JobId -> Job]
    BY <1>1, <2>1, IdsAreIds DEF OnlyJob
  <2>3. job' = [job EXCEPT ![n] = p]
    BY <1>5
  <2> HIDE DEF p0, d
  <2>4. Calmer(q, p0)
    BY <2>1, OneCalmer DEF Sending
  <2>5. Calmer(p0, p)
    BY <2>2, AddedCalmer
  <2> HIDE DEF p
  <2>6. Calmer(q, p)
    BY <2>4, <2>5 DEF Calmer
  <2> QED
    BY <1>1, <2>3, <2>6, JobsMeant
<1>6. CASE job' = [job EXCEPT ![n] = Begun(@, id, r.attempts)]
  <2> DEFINE p == Begun(q, id, r.attempts)
  <2>1. OnlyJob(q, p, id) /\ p[id].st = "claim"
    BY <1>1, BegunJob
  <2>2. job' = [job EXCEPT ![n] = p]
    BY <1>6
  <2> HIDE DEF p
  <2>3. Calmer(q, p)
    BY <2>1, OneCalmer DEF Sending
  <2> QED
    BY <1>1, <2>2, <2>3, JobsMeant
<1> QED
  BY <1>3, <1>4, <1>5, <1>6 DEF Look

\* The other steps of a run.
LEMMA RunMeant ==
  ASSUME RowsOK, MeantOK, NEW n \in Notif, NEW id \in JobId,
         Veto(n, id) \/ Claim(n, id) \/ Send(n, id) \/ Record(n, id) \/ Fail(n, id)
  PROVE  MeantOK'
<1> DEFINE q == job[n]
<1>1. /\ Meant(row[n], q, appt, version) /\ row[n] \in Row /\ q \in [JobId -> Job]
      /\ row \in [Notif -> Row] /\ job \in [Notif -> [JobId -> Job]]
  BY OfRow DEF MeantOK, RowsOK
<1>2. /\ \A m \in Notif \ {n} : row'[m] = row[m] /\ job'[m] = job[m]
      /\ UNCHANGED booking
  BY <1>1 DEF Veto, Claim, Send, Record, Fail
<1>3. {"done", "send", "record", "fail"} \subseteq JobState
  BY DEF JobState, Active
<1>4. SUFFICES Meant(row'[n], job'[n], appt, version)
  BY <1>2, OneMeant
<1>5. CASE Veto(n, id)
  <2>1. OnlyJob(q, job'[n], id) /\ job'[n][id].st = "done"
    <3>1. job'[n] = Ended(q, id, "done")
      BY <1>1, <1>5 DEF Veto
    <3> QED
      BY <3>1, <1>1, <1>3, EndedJob
  <2>2. /\ row'[n].kind = row[n].kind /\ row'[n].attempts = row[n].attempts
        /\ row'[n].wamid = row[n].wamid /\ row'[n].says = row[n].says
        /\ row'[n].status \in {row[n].status, "CANCELLED"}
    BY <1>1, <1>5 DEF Veto, Row
  <2>3. Calmer(q, job'[n])
    BY <2>1, OneCalmer DEF Sending
  <2> QED
    BY <1>1, <2>2, <2>3, MeantKept
<1>6. CASE Claim(n, id)
  <2>1. CASE Won(n, id)
    <3>1. OnlyJob(q, job'[n], id) /\ job'[n][id].st = "send"
      <4>1. job'[n] = Stepped(q, id, "send")
        BY <1>1, <1>6, <2>1 DEF Claim
      <4> QED
        BY <4>1, <1>1, <1>3, SteppedJob
    <3>2. /\ row'[n].kind = row[n].kind /\ row'[n].attempts = row[n].attempts + 1
          /\ row'[n].wamid = row[n].wamid /\ row'[n].says = row[n].says
          /\ row'[n].status = row[n].status
      BY <1>1, <1>6, <2>1 DEF Claim, Row
    <3>3. row'[n].attempts > 0
      BY <1>1, <3>2, DeliveryConstants DEF Row, DeliveryConstants
    <3> QED
      BY <1>1, <3>1, <3>2, <3>3 DEF Meant, OnlyJob
  <2>2. CASE ~Won(n, id)
    <3>1. job'[n] = Ended(q, id, "done") /\ row' = row
      BY <1>1, <1>6, <2>2 DEF Claim
    <3>2. OnlyJob(q, job'[n], id) /\ job'[n][id].st = "done"
      BY <3>1, <1>1, <1>3, EndedJob
    <3>3. Calmer(q, job'[n])
      BY <3>2, OneCalmer DEF Sending
    <3> QED
      BY <1>1, <3>1, <3>3, MeantKept
  <2> QED
    BY <2>1, <2>2
<1>7. CASE Send(n, id)
  <2>1. PICK st \in {"record", "fail"} : job'[n] = Stepped(q, id, st)
    BY <1>1, <1>7 DEF Send
  <2>2. OnlyJob(q, job'[n], id) /\ job'[n][id].st = st
    BY <2>1, <1>1, <1>3, SteppedJob
  <2>3. row' = row /\ q[id].st = "send"
    BY <1>7 DEF Send, At
  <2>4. Calmer(q, job'[n])
    BY <2>2, <2>3, OneCalmer DEF Sending
  <2> QED
    BY <1>1, <2>3, <2>4, MeantKept
<1>8. CASE Record(n, id) \/ Fail(n, id)
  <2>1. q[id].st \in Sending
    BY <1>8 DEF Record, Fail, At, Sending
  <2>2. row[n].attempts > 0
    BY <1>1, <2>1 DEF Meant
  <2>3. OnlyJob(q, job'[n], id) /\ job'[n][id].st \in {"done", "wait", "dead"}
    <3>1. job'[n] = Ended(q, id, "done") \/ job'[n] = Retried(q, id)
      BY <1>1, <1>8 DEF Record, Fail
    <3> QED
      BY <3>1, <1>1, <1>3, EndedJob, AgainOrDead
  <2>4. /\ row'[n].kind = row[n].kind /\ row'[n].attempts = row[n].attempts
        /\ row'[n].says = row[n].says
        /\ \/ row'[n].status = row[n].status
           \/ row'[n].status \in {"SENT", "FAILED"}
    BY <1>1, <1>8 DEF Record, Fail, Row
  <2>5. Calmer(q, job'[n])
    BY <2>3, OneCalmer DEF Sending
  <2> QED
    BY <1>1, <2>2, <2>4, <2>5 DEF Meant, Calmer
<1> QED
  BY <1>5, <1>6, <1>7, <1>8

\* Faults only take runs away.
LEMMA FaultsMeant ==
  ASSUME RowsOK, MeantOK,
         \/ WorkerDies \/ RedisLosesJobs
         \/ \E n \in Notif, id \in JobId : DbError(n, id)
  PROVE  MeantOK'
<1>1. UNCHANGED <<row, booking>>
  BY DEF WorkerDies, RedisLosesJobs, DbError
<1>2. SUFFICES \A n \in Notif : Calmer(job[n], job'[n])
  BY <1>1, MeantKept DEF MeantOK, booking
<1>3. CASE WorkerDies
  <2> SUFFICES ASSUME NEW n \in Notif, NEW i \in JobId
               PROVE  job'[n][i] = job[n][i] \/ job'[n][i].st \in {"wait", "dead"}
    BY DEF Calmer, Sending
  <2> QED
    BY <1>3, OfRow, AgainOrDead DEF WorkerDies
<1>4. CASE RedisLosesJobs
  <2>1. \A n \in Notif, i \in JobId : job'[n][i].st = "absent"
    BY <1>4 DEF RedisLosesJobs, NoJob
  <2> QED
    BY <2>1 DEF Calmer, Sending
<1>5. ASSUME NEW n \in Notif, NEW id \in JobId, DbError(n, id)
      PROVE  \A m \in Notif : Calmer(job[m], job'[m])
  <2>1. job' = [job EXCEPT ![n] = Retried(@, id)] /\ job \in [Notif -> [JobId -> Job]]
    BY <1>5 DEF DbError, RowsOK
  <2>2. OnlyJob(job[n], Retried(job[n], id), id) /\ Retried(job[n], id)[id].st \in {"wait", "dead"}
    BY OfRow, AgainOrDead
  <2>3. Calmer(job[n], Retried(job[n], id))
    BY <2>2, OneCalmer DEF Sending
  <2>4. /\ job'[n] = Retried(job[n], id)
        /\ \A m \in Notif \ {n} : job'[m] = job[m]
    BY <2>1
  <2>5. \A m \in Notif : Calmer(job[m], job[m])
    BY DEF Calmer
  <2> QED
    BY <2>3, <2>4, <2>5
<1> QED
  BY <1>3, <1>4, <1>5

\* What a row says and why it may be dropped holds in every reachable state.
THEOREM MeantInvariant == SafeSpec => []MeantOK
<1>1. Init => MeantOK
  BY DEF Init, MeantOK, Meant, NoRow, NoJob, NoClosing, Sending
<1>2. DeliveryInv /\ MeantOK /\ [Next]_vars => MeantOK'
  <2> SUFFICES ASSUME DeliveryInv, MeantOK, [Next]_vars
               PROVE  MeantOK'
    OBVIOUS
  <2>1. RowsOK
    BY DEF DeliveryInv
  <2>2. CASE UNCHANGED vars
    BY <2>2 DEF vars, booking, MeantOK
  <2>3. CASE Ends \/ SetBranch \/ Consent
    <3>1. UNCHANGED <<row, job, version, closing>> /\ (appt = "off" => appt' = "off")
      BY <2>3 DEF Ends, SetBranch, Consent
    <3> QED
      BY <3>1 DEF MeantOK, Meant
  <2>4. ASSUME NEW n \in Notif, NEW id \in JobId, Run(n, id)
        PROVE  MeantOK'
    BY <2>1, <2>4, LookMeant, RunMeant DEF Run
  <2>5. ASSUME NEW n \in Notif, Sweep(n)
        PROVE  MeantOK'
    <3>1. Plain \in JobId
      BY DEF JobId
    <3> QED
      BY <2>1, <2>5, <3>1, QueueMeant
  <2> QED
    BY <2>1, <2>2, <2>3, <2>4, <2>5, HandlersMeant, TimeMeant, QueueMeant, FaultsMeant DEF Next
<1> QED
  BY <1>1, <1>2, DeliveryInvariant, PTL DEF SafeSpec

\* A confirmation or reminder that may still be sent and says an old time was
\* claimed before the reschedule, for any number of rows and reschedules.
THEOREM StaleWasTriedInvariant == SafeSpec => []StaleWasTried
<1>1. DeliveryInv /\ MeantOK => StaleWasTried
  BY DEF MeantOK, Meant, StaleWasTried, Sendable
<1> QED
  BY <1>1, DeliveryInvariant, MeantInvariant, PTL

\* A cancellation notice is never cancelled but by the clean-up of a staff status
\* change, whatever the send-time checks and the other handlers decide.
THEOREM NoticeStandsHolds == SafeSpec => NoticeStands
<1>1. ASSUME DeliveryInv, MeantOK, [Next]_vars, NEW m \in Notif,
             row[m].kind = "notice", row[m].status # "CANCELLED",
             row'[m].status = "CANCELLED"
      PROVE  closing.at = "rows"
  <2>1. /\ row \in [Notif -> Row] /\ row[m] \in Row /\ appt = "off"
        /\ \A i \in JobId : job[m][i].st # "veto"
    BY <1>1 DEF DeliveryInv, RowsOK, MeantOK, Meant
  <2>2. row' # row
    BY <1>1
  <2>3. ASSUME NEW n \in Notif, NEW t, row' = [row EXCEPT ![n] = t]
        PROVE  n = m /\ t.status = "CANCELLED"
    BY <1>1, <2>1, <2>3
  <2>4. CASE Handlers
    <3>1. CASE StaffDropRows
      BY <3>1 DEF StaffDropRows
    <3>2. ASSUME NEW n \in Notif, StaffNotice(n)
          PROVE  FALSE
      <4>1. row' = [row EXCEPT ![n] = NewRow("notice", closing.says)]
        BY <3>2 DEF StaffNotice
      <4>2. NewRow("notice", closing.says).status = "QUEUED"
        BY DEF NewRow, NoRow
      <4> QED
        BY <4>1, <4>2, <2>3
    <3> QED
      BY <2>1, <2>2, <2>4, <3>1, <3>2
         DEF Handlers, Book, Reschedule, CustomerCancel, StaffRead, StaffClose, StaffCrash,
             Enqueue, EnqueueLost
  <2>5. ASSUME NEW n \in Notif, DueComes(n) \/ LeaseLapses(n)
        PROVE  FALSE
    BY <1>1, <2>1, <2>5 DEF DueComes, LeaseLapses, Row
  <2>6. ASSUME NEW n \in Notif, NEW s \in {"DELIVERED", "READ", "FAILED"}, Callback(n, s)
        PROVE  FALSE
    BY <1>1, <2>1, <2>6 DEF Callback, Row
  <2>7. ASSUME NEW n \in Notif, NEW id \in JobId, Run(n, id)
        PROVE  FALSE
    <3>1. CASE Veto(n, id)
      <4>1. n = m /\ job[n][id].st = "veto"
        BY <2>1, <2>2, <2>3, <3>1 DEF Veto, At
      <4> QED
        BY <4>1, <2>1
    <3>2. CASE Claim(n, id) \/ Record(n, id) \/ Fail(n, id)
      BY <1>1, <2>1, <3>2 DEF Claim, Record, Fail, Row
    <3>3. CASE Look(n, id) \/ Send(n, id)
      BY <3>3, <2>2 DEF Look, Send
    <3> QED
      BY <2>7, <3>1, <3>2, <3>3 DEF Run
  <2> QED
    BY <1>1, <2>2, <2>4, <2>5, <2>6, <2>7
       DEF Next, Ends, SetBranch, Consent, WorkerDies, RedisLosesJobs, Sweep, Wake, DbError, vars
<1>2. DeliveryInv /\ MeantOK /\ [Next]_vars
        => [\A n \in Notif :
              row[n].kind = "notice" /\ row[n].status # "CANCELLED" /\ row'[n].status = "CANCELLED"
                => closing.at = "rows"]_vars
  BY <1>1
<1> QED
  BY <1>2, DeliveryInvariant, MeantInvariant, PTL DEF SafeSpec, NoticeStands
=============================================================================

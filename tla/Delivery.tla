------------------------------ MODULE Delivery ------------------------------
(***************************************************************************)
(* How the WhatsApp messages of one appointment are delivered: Notification*)
(* rows in PostgreSQL, written by the booking handlers; jobs in Redis      *)
(* (BullMQ), one of which is added after the handler's commit if Redis is  *)
(* up; worker runs that claim a row, hand it to Meta and write the result; *)
(* the sweep that adds jobs for rows nothing will send; Meta's callbacks.  *)
(*                                                                         *)
(* Time is abstract: a row's sendAfter is due or not, and pushed into the  *)
(* future by a claim (leased) until the lease lapses. A lease outlives any *)
(* send and its terminal write (10 minutes against seconds). The sweep's   *)
(* grace periods become: it may look at a due row at any moment.           *)
(***************************************************************************)
EXTENDS Naturals, FiniteSets

CONSTANTS
  Notif,         \* ids of notification rows
  MaxAttempts,   \* MAX_NOTIFICATION_ATTEMPTS: the sweep's cap
  JobAttempts,   \* attempts BullMQ gives a job
  MaxStalls,     \* stalls BullMQ forgives a job
  MaxClaims,     \* bound: claims of one row that are followed
  MaxMoves,      \* bound: reschedules of the appointment
  MaxTrouble     \* bound: database errors, send timeouts, worker deaths,
                 \* lost enqueues and losses of Redis, all together

ASSUME DeliveryConstants ==
  /\ MaxAttempts \in Nat
  /\ JobAttempts \in Nat \ {0}
  /\ MaxStalls \in Nat
  /\ MaxClaims \in Nat
  /\ MaxMoves \in Nat
  /\ MaxTrouble \in Nat

\* What decides whether a row may still go out: a cancellation notice always
\* may, a reminder needs the customer's consent, any other message does not.
Kind == {"message", "reminder", "notice"}

Status == {"NONE", "QUEUED", "SENT", "DELIVERED", "READ", "FAILED", "CANCELLED"}

\* Ids of a row's jobs: its own, one per revival, one per deferral.
Plain     == <<"send", 0>>
Revive(k) == <<"revive", k>>
Defer(k)  == <<"defer", k>>

JobId == {Plain} \union {Revive(k) : k \in 0..MaxClaims}
                 \union {Defer(k) : k \in 0..MaxClaims}

\* A finished job keeps its id: "done" (removeOnComplete), "dead" (removeOnFail).
Active   == {"veto", "claim", "send", "record", "fail"}
JobState == {"absent", "delayed", "wait", "done", "dead"} \union Active

Row == [status: Status, kind: Kind, says: 0..MaxMoves, attempts: 0..MaxClaims,
        due: BOOLEAN, leased: BOOLEAN, wamid: BOOLEAN]

\* A staff status change: the statement it is before, whether the customer is to
\* be told, and the time it read, which the notice will tell.
Closing == [at: {"no", "update", "rows", "notice"}, notify: BOOLEAN, says: 0..MaxMoves]

\* A job, and what its run read: tries and stalls so far, the row's attempts.
Job == [st: JobState, tries: 0..JobAttempts - 1, stalls: 0..MaxStalls,
        seen: 0..MaxClaims]

VARIABLES
  appt,      \* the appointment: "none", "live", "off" (cancelled, no-show), "over"
  version,   \* which of its times holds, counted by reschedules
  open,      \* the salon is ACTIVE
  optIn,     \* consent to reminders stands: waOptIn, or a public self-booking
  row,       \* row[n]: the Notification row
  job,       \* job[n][id]: its jobs in Redis, with the run of an active one
  pending,   \* rows committed whose first job is still to be added
  closing,   \* the staff status change in progress
  trouble,   \* faults so far
  sent,      \* history: sent[n], messages Meta accepted for row n
  unnoticed  \* history: of those, how many no terminal write ever recorded

booking == <<appt, version, open, optIn, closing>>
history == <<sent, unnoticed>>
vars    == <<booking, row, job, pending, trouble, history>>

NoRow == [status |-> "NONE", kind |-> "message", says |-> 0, attempts |-> 0,
          due |-> FALSE, leased |-> FALSE, wamid |-> FALSE]

NoClosing == [at |-> "no", notify |-> FALSE, says |-> 0]

NoJob == [st |-> "absent", tries |-> 0, stalls |-> 0, seen |-> 0]

\* Rows and jobs keep their types: a job is never tried more often than allowed.
TypeOK ==
  /\ appt \in {"none", "live", "off", "over"}
  /\ version \in 0..MaxMoves
  /\ open \in BOOLEAN
  /\ optIn \in BOOLEAN
  /\ row \in [Notif -> Row]
  /\ job \in [Notif -> [JobId -> Job]]
  /\ pending \subseteq Notif
  /\ closing \in Closing
  /\ trouble \in 0..MaxTrouble
  /\ sent \in [Notif -> Nat]
  /\ unnoticed \in [Notif -> Nat]

Init ==
  /\ appt = "none"
  /\ version = 0
  /\ open = TRUE
  /\ optIn = TRUE
  /\ row = [n \in Notif |-> NoRow]
  /\ job = [n \in Notif |-> [id \in JobId |-> NoJob]]
  /\ pending = {}
  /\ closing = NoClosing
  /\ trouble = 0
  /\ sent = [n \in Notif |-> 0]
  /\ unnoticed = [n \in Notif |-> 0]

Unused == {n \in Notif : row[n].status = "NONE"}

\* SENDABLE of the processor: statuses a row may still be sent from.
Sendable(n) == row[n].status \in {"QUEUED", "FAILED"}

-----------------------------------------------------------------------------
(* BullMQ, as the code uses it. q is the set of jobs of one row.           *)

\* add() with a custom id is ignored when any job, live or kept, has that id.
Added(q, id, st) ==
  IF q[id].st = "absent" THEN [q EXCEPT ![id] = [NoJob EXCEPT !.st = st]] ELSE q

\* The next step of a job. What its run has read is kept up to the claim only.
Stepped(q, id, st) == [q EXCEPT ![id].st = st, ![id].seen = 0]

\* A run is about to claim the row, whose attempts were k when it was read.
Begun(q, id, k) == [q EXCEPT ![id].st = "claim", ![id].seen = k]

\* What is left of a finished job is its id.
Ended(q, id, st) == [q EXCEPT ![id] = [NoJob EXCEPT !.st = st]]

\* Faulty variant: a failing job is tried again for ever.
RetriedForever(q, id) == [Stepped(q, id, "wait") EXCEPT ![id].tries = @ + 1]

\* The processor threw: another attempt after the backoff, or the failed set.
Retried(q, id) ==
  IF q[id].tries + 1 < JobAttempts
    THEN [Stepped(q, id, "wait") EXCEPT ![id].tries = @ + 1]
    ELSE Ended(q, id, "dead")

\* The worker died on an active job: it stalls and goes back, but not for ever.
Stalled(q, id) ==
  IF q[id].stalls < MaxStalls
    THEN [Stepped(q, id, "wait") EXCEPT ![id].stalls = @ + 1]
    ELSE Ended(q, id, "dead")

At(n, id, st) == job[n][id].st = st

\* Row n is between a claim and that run's terminal write.
Senders(n) == {id \in JobId : job[n][id].st \in {"send", "record", "fail"}}

Trouble == trouble < MaxTrouble /\ trouble' = trouble + 1

-----------------------------------------------------------------------------
(* The handlers that write rows                                            *)

NewRow(kind, says) ==
  [NoRow EXCEPT !.status = "QUEUED", !.kind = kind, !.says = says,
                !.due = (kind # "reminder")]

\* Faulty variant: a row that has not been due yet is left to its delayed job.
DroppedIfDue(r) ==
  IF r.status = "QUEUED" /\ r.due THEN [r EXCEPT !.status = "CANCELLED"] ELSE r

\* updateMany WHERE status = QUEUED.
Dropped(r) == IF r.status = "QUEUED" THEN [r EXCEPT !.status = "CANCELLED"] ELSE r

\* Rows of the given kinds are created, after the queued ones were cancelled.
Rewrite(new, says) ==
  row' = [n \in Notif |-> IF n \in DOMAIN new THEN NewRow(new[n], says)
                                               ELSE Dropped(row[n])]

\* createBooking: a confirmation, and a reminder when there is time for one.
Book(new) ==
  /\ appt = "none"
  /\ \A n \in DOMAIN new : new[n] = "reminder" => optIn
  /\ appt' = "live"
  /\ Rewrite(new, version)
  /\ pending' = DOMAIN new
  /\ UNCHANGED <<version, open, optIn, closing, job, trouble, history>>

\* A reschedule, by the customer or by staff, in one transaction.
Reschedule(new) ==
  /\ appt = "live"
  /\ version < MaxMoves
  /\ version' = version + 1
  /\ Rewrite(new, version + 1)
  /\ pending' = pending \union DOMAIN new
  /\ UNCHANGED <<appt, open, optIn, closing, job, trouble, history>>

\* Cancel by the manage link: one transaction, and a notice to the salon if that
\* has a phone. The notice tells the time k that the request loaded before.
CustomerCancel(new, k) ==
  /\ appt = "live"
  /\ k <= version
  /\ appt' = "off"
  /\ Rewrite(new, k)
  /\ pending' = pending \union DOMAIN new
  /\ UNCHANGED <<version, open, optIn, closing, job, trouble, history>>

\* setAppointmentStatus to CANCELLED or NO_SHOW: a read, and then statements one
\* by one that act on it. (COMPLETED touches no notification.) One that will write
\* a notice is followed while there is a row left to follow.
StaffRead(notify) ==
  /\ closing.at = "no"
  /\ appt # "none"
  /\ notify => appt = "live" /\ optIn /\ Unused # {}
  /\ closing' = [at |-> "update", notify |-> notify,
                 says |-> IF notify THEN version ELSE 0]
  /\ UNCHANGED <<appt, version, open, optIn, row, job, pending, trouble, history>>

\* The update filters by id only.
StaffClose ==
  /\ closing.at = "update"
  /\ appt' = "off"
  /\ closing' = [closing EXCEPT !.at = "rows"]
  /\ UNCHANGED <<version, open, optIn, row, job, pending, trouble, history>>

StaffDropRows ==
  /\ closing.at = "rows"
  /\ row' = [n \in Notif |-> Dropped(row[n])]
  /\ closing' = IF closing.notify THEN [closing EXCEPT !.at = "notice"] ELSE NoClosing
  /\ UNCHANGED <<appt, version, open, optIn, job, pending, trouble, history>>

StaffNotice(n) ==
  /\ closing.at = "notice"
  /\ n \in Unused
  /\ row' = [row EXCEPT ![n] = NewRow("notice", closing.says)]
  /\ pending' = pending \union {n}
  /\ closing' = NoClosing
  /\ UNCHANGED <<appt, version, open, optIn, job, trouble, history>>

StaffCrash ==
  /\ closing.at # "no"
  /\ closing' = NoClosing
  /\ UNCHANGED <<appt, version, open, optIn, row, job, pending, trouble, history>>

\* After the commit: enqueueNotification, best effort and time bounded.
Enqueue(n) ==
  /\ n \in pending
  /\ pending' = pending \ {n}
  /\ job' = [job EXCEPT ![n] = Added(@, Plain, IF row[n].due THEN "wait" ELSE "delayed")]
  /\ UNCHANGED <<booking, row, trouble, history>>

EnqueueLost(n) ==
  /\ n \in pending
  /\ Trouble
  /\ pending' = pending \ {n}
  /\ UNCHANGED <<booking, row, job, history>>

-----------------------------------------------------------------------------
(* The world: the visit ends, the branch is suspended and reopened, the    *)
(* customer writes STOP or opts in again                                   *)

Ends ==
  /\ appt = "live"
  /\ appt' = "over"
  /\ UNCHANGED <<version, open, optIn, closing, row, job, pending, trouble, history>>

SetBranch ==
  /\ open' = ~open
  /\ UNCHANGED <<appt, version, optIn, closing, row, job, pending, trouble, history>>

Consent ==
  /\ optIn' = ~optIn
  /\ UNCHANGED <<appt, version, open, closing, row, job, pending, trouble, history>>

DueComes(n) ==
  /\ n \notin Unused
  /\ ~row[n].due
  /\ row' = [row EXCEPT ![n].due = TRUE]
  /\ UNCHANGED <<booking, job, pending, trouble, history>>

\* CLAIM_LEASE_MS is over. No run is still sending by then.
LeaseLapses(n) ==
  /\ row[n].leased
  /\ Senders(n) = {}
  /\ row' = [row EXCEPT ![n].leased = FALSE]
  /\ UNCHANGED <<booking, job, pending, trouble, history>>

-----------------------------------------------------------------------------
(* A run of processNotification                                            *)

\* Faulty variant: a row that Meta reported undeliverable may go out again.
FinishedForgetsWamid(n) ==
  row[n].status \in {"NONE", "SENT", "DELIVERED", "READ", "CANCELLED"}

\* Nothing to do for this row any more.
Finished(n) ==
  \/ row[n].status \in {"NONE", "SENT", "DELIVERED", "READ", "CANCELLED"}
  \/ row[n].status = "FAILED" /\ row[n].wamid

\* Faulty variant: the visit must stand for every kind of message.
VetoedWhatever(n) ==
  (appt # "live" \/ ~open) \/ (row[n].kind = "reminder" /\ ~optIn)

\* The send-time checks: appointment, salon, consent.
Vetoed(n) ==
  \/ row[n].kind # "notice" /\ (appt # "live" \/ ~open)
  \/ row[n].kind = "reminder" /\ ~optIn

\* A delayed job's time has come: the row is due, or the lease it was deferred
\* for is over.
Wake(n, id) ==
  /\ At(n, id, "delayed")
  /\ row[n].due
  /\ id = Defer(row[n].attempts) => ~row[n].leased
  /\ job' = [job EXCEPT ![n] = Stepped(@, id, "wait")]
  /\ UNCHANGED <<booking, row, pending, trouble, history>>

\* Read the row, and decide.
Look(n, id) ==
  LET r == row[n] IN
  /\ At(n, id, "wait")
  /\ \/ /\ Finished(n)
        /\ job' = [job EXCEPT ![n] = Ended(@, id, "done")]
     \/ /\ ~Finished(n) /\ Vetoed(n)
        /\ job' = [job EXCEPT ![n] = Stepped(@, id, "veto")]
     \/ /\ ~Finished(n) /\ ~Vetoed(n) /\ (r.leased \/ ~r.due)
        /\ job' = [job EXCEPT ![n] =
                     Added(Ended(@, id, "done"), Defer(r.attempts), "delayed")]
     \/ /\ ~Finished(n) /\ ~Vetoed(n) /\ ~r.leased /\ r.due
        /\ job' = [job EXCEPT ![n] = Begun(@, id, r.attempts)]
  /\ UNCHANGED <<booking, row, pending, trouble, history>>

\* finalize(CANCELLED)
Veto(n, id) ==
  /\ At(n, id, "veto")
  /\ row' = IF Sendable(n) THEN [row EXCEPT ![n].status = "CANCELLED"] ELSE row
  /\ job' = [job EXCEPT ![n] = Ended(@, id, "done")]
  /\ UNCHANGED <<booking, pending, trouble, history>>

\* Faulty variant: the claim does not compare the attempts it read.
WonByStatus(n, id) == Sendable(n)

\* The compare-and-set of the claim.
Won(n, id) == Sendable(n) /\ row[n].attempts = job[n][id].seen

Claim(n, id) ==
  /\ At(n, id, "claim")
  /\ job[n][id].seen < MaxClaims
  /\ IF Won(n, id)
       THEN /\ row' = [row EXCEPT ![n].attempts = @ + 1, ![n].leased = TRUE]
            /\ job' = [job EXCEPT ![n] = Stepped(@, id, "send")]
       ELSE /\ job' = [job EXCEPT ![n] = Ended(@, id, "done")]
            /\ UNCHANGED row
  /\ UNCHANGED <<booking, pending, trouble, history>>

\* Meta takes the message; refuses it; or takes it and answers too late.
Send(n, id) ==
  /\ At(n, id, "send")
  /\ \/ /\ sent' = [sent EXCEPT ![n] = @ + 1]
        /\ job' = [job EXCEPT ![n] = Stepped(@, id, "record")]
        /\ UNCHANGED <<unnoticed, trouble>>
     \/ /\ job' = [job EXCEPT ![n] = Stepped(@, id, "fail")]
        /\ UNCHANGED <<sent, unnoticed, trouble>>
     \/ /\ Trouble
        /\ sent' = [sent EXCEPT ![n] = @ + 1]
        /\ unnoticed' = [unnoticed EXCEPT ![n] = @ + 1]
        /\ job' = [job EXCEPT ![n] = Stepped(@, id, "fail")]
  /\ UNCHANGED <<booking, row, pending>>

\* finalize(SENT), which gives sendAfter its old value back.
Record(n, id) ==
  /\ At(n, id, "record")
  /\ row' = IF Sendable(n)
              THEN [row EXCEPT ![n].status = "SENT", ![n].wamid = TRUE,
                               ![n].leased = FALSE]
              ELSE row
  /\ job' = [job EXCEPT ![n] = Ended(@, id, "done")]
  /\ UNCHANGED <<booking, pending, trouble, history>>

\* finalize(FAILED), and rethrow.
Fail(n, id) ==
  /\ At(n, id, "fail")
  /\ row' = IF Sendable(n)
              THEN [row EXCEPT ![n].status = "FAILED", ![n].leased = FALSE]
              ELSE row
  /\ job' = [job EXCEPT ![n] = Retried(@, id)]
  /\ UNCHANGED <<booking, pending, trouble, history>>

\* PostgreSQL does not answer, also not to finalize's retries: the run throws.
DbError(n, id) ==
  /\ job[n][id].st \in {"wait", "veto", "claim", "record", "fail"}
  /\ Trouble
  /\ unnoticed' = IF At(n, id, "record") THEN [unnoticed EXCEPT ![n] = @ + 1]
                                          ELSE unnoticed
  /\ job' = [job EXCEPT ![n] = Retried(@, id)]
  /\ UNCHANGED <<booking, row, pending, sent>>

\* The worker process dies, with every run in it.
WorkerDies ==
  /\ Trouble
  /\ \E n \in Notif, id \in JobId : job[n][id].st \in Active
  /\ job' = [n \in Notif |-> [id \in JobId |->
               IF job[n][id].st \in Active THEN Stalled(job[n], id)[id]
                                           ELSE job[n][id]]]
  /\ unnoticed' = [n \in Notif |->
                     unnoticed[n] + Cardinality({id \in JobId : At(n, id, "record")})]
  /\ UNCHANGED <<booking, row, pending, sent>>

\* Redis restarts without its data, between two runs.
RedisLosesJobs ==
  /\ Trouble
  /\ \A n \in Notif, id \in JobId : job[n][id].st \notin Active
  /\ job' = [n \in Notif |-> [id \in JobId |-> NoJob]]
  /\ UNCHANGED <<booking, row, pending, history>>

-----------------------------------------------------------------------------
(* The sweep, and Meta's callbacks                                         *)

\* Faulty variant: a FAILED row is re-added under its own job id.
RevivalPlain(n) == Plain

\* A revival's job id carries the attempts, to get past the dead job.
Revival(n) == Revive(row[n].attempts)

Sweep(n) ==
  LET r == row[n] IN
  /\ r.due
  /\ ~r.leased
  /\ r.attempts < MaxAttempts
  /\ \/ r.status = "QUEUED" /\ job' = [job EXCEPT ![n] = Added(@, Plain, "wait")]
     \/ /\ r.status = "FAILED" /\ ~r.wamid
        /\ job' = [job EXCEPT ![n] = Added(@, Revival(n), "wait")]
  /\ UNCHANGED <<booking, row, pending, trouble, history>>

\* Faulty variant: any callback is believed, in whatever order it comes.
AdvancesFromAny(s) == {"QUEUED", "SENT", "DELIVERED", "READ", "FAILED", "CANCELLED"}

\* STATUS_MAP: the statuses a callback may advance from.
AdvancesFrom(s) ==
  CASE s = "DELIVERED" -> {"QUEUED", "SENT"}
    [] s = "READ"      -> {"QUEUED", "SENT", "DELIVERED"}
    [] s = "FAILED"    -> {"QUEUED", "SENT"}

\* Callbacks find the row by wamid; they come in any order, and repeated.
Callback(n, s) ==
  /\ row[n].wamid
  /\ row[n].status \in AdvancesFrom(s)
  /\ row' = [row EXCEPT ![n].status = s]
  /\ UNCHANGED <<booking, job, pending, trouble, history>>

-----------------------------------------------------------------------------

\* The rows a booking or a reschedule writes: one that needs no consent, or a
\* reminder too; a customer's cancellation writes a notice or nothing.
BookingRows ==
  UNION {[ns -> {"message", "reminder"}] : ns \in SUBSET Unused}
CancelRows == UNION {[ns -> {"notice"}] : ns \in {s \in SUBSET Unused : Cardinality(s) <= 1}}

Handlers ==
  \/ \E new \in BookingRows : Book(new) \/ Reschedule(new)
  \/ \E new \in CancelRows, k \in 0..MaxMoves : CustomerCancel(new, k)
  \/ \E notify \in BOOLEAN : StaffRead(notify)
  \/ StaffClose \/ StaffDropRows \/ StaffCrash
  \/ \E n \in Notif : StaffNotice(n) \/ Enqueue(n) \/ EnqueueLost(n)

Run(n, id) ==
  Look(n, id) \/ Veto(n, id) \/ Claim(n, id) \/ Send(n, id) \/ Record(n, id) \/ Fail(n, id)

Next ==
  \/ Handlers
  \/ Ends \/ SetBranch \/ Consent
  \/ WorkerDies \/ RedisLosesJobs
  \/ \E n \in Notif :
       \/ DueComes(n) \/ LeaseLapses(n) \/ Sweep(n)
       \/ \E id \in JobId : Wake(n, id) \/ Run(n, id) \/ DbError(n, id)
       \/ \E s \in {"DELIVERED", "READ", "FAILED"} : Callback(n, s)

\* Time passes, BullMQ hands out waiting jobs, runs in progress run on, and the
\* sweep's timer fires for ever. Nothing else has to happen.
Fairness ==
  \A n \in Notif :
    /\ WF_vars(DueComes(n)) /\ WF_vars(LeaseLapses(n)) /\ WF_vars(Sweep(n))
    /\ \A id \in JobId : WF_vars(Wake(n, id)) /\ WF_vars(Run(n, id))

SafeSpec == Init /\ [][Next]_vars

Spec == SafeSpec /\ Fairness

-----------------------------------------------------------------------------
(* Properties                                                              *)

\* However many jobs and workers hold the same row, one run at most is between
\* a claim and its terminal write ("the same message can never be sent twice
\* concurrently", notifications.ts).
OneSender == \A n \in Notif : Cardinality(Senders(n)) <= 1

\* A message goes out again only when no terminal write recorded that it went
\* out: neither the sweep's second jobs nor late callbacks repeat one.
RepeatsExplained == \A n \in Notif : sent[n] <= 1 + unnoticed[n]

\* The status t may follow s, as far as reports and cancellations go.
Forward(s, t) ==
  /\ s = "READ" => t = "READ"
  /\ s = "DELIVERED" => t \in {"DELIVERED", "READ"}
  /\ s = "SENT" => t \in {"SENT", "DELIVERED", "READ", "FAILED"}
  /\ s = "CANCELLED" => t = "CANCELLED"

\* What Meta reported is never undone, whatever order callbacks and terminal
\* writes come in; a cancelled row stays cancelled (webhooks/whatsapp/route.ts).
NoStepBack == [][\A n \in Notif : Forward(row[n].status, row'[n].status)]_vars

\* DEAD_LETTER_WHERE: what the admin panel counts as a failure nothing retries.
DeadLetter(n) ==
  row[n].status = "FAILED" /\ (row[n].attempts >= MaxAttempts \/ row[n].wamid)

\* Every row ends sent, cancelled or counted as a dead letter: lost enqueues,
\* lost Redis data and dead workers included (notification-sweep.ts).
EveryRowSettles ==
  \A n \in Notif : row[n].status = "QUEUED" ~> Finished(n) \/ DeadLetter(n)

\* A confirmation or reminder that still says the old time after a reschedule, and
\* may yet be sent, had been tried before: what no run had claimed never goes out
\* stale ("Old reminder carries the old time - kill anything still queued",
\* manage/[token]/route.ts). A cancellation notice tells the time its handler read,
\* which a reschedule may have replaced since.
StaleWasTried ==
  \A n \in Notif :
    /\ Sendable(n) /\ row[n].kind # "notice"
    /\ row[n].says # version
    => row[n].attempts > 0

\* No send-time check, customer's handler or reschedule suppresses a cancellation
\* notice; only the clean-up of another staff status change does ("Every guard that stops a
\* message going out exempts them", notification-gate.ts).
NoticeStands ==
  [][\A n \in Notif :
       row[n].kind = "notice" /\ row[n].status # "CANCELLED" /\ row'[n].status = "CANCELLED"
         => closing.at = "rows"]_vars
=============================================================================

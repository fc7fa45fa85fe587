-------------------------------- MODULE Push --------------------------------
(***************************************************************************)
(* The salon's push alert two hours before a visit: one BullMQ job per     *)
(* appointment under a fixed id, added when the visit is booked, and the   *)
(* pass of the worker that puts the jobs right after visits were moved or  *)
(* closed and after Redis lost some.                                       *)
(*                                                                         *)
(* A pass reads the appointments once and then works through them with     *)
(* several Redis calls each. Its timer does not wait for the pass before,  *)
(* so that passes overlap. Time is counted in half-hours or so; a drift    *)
(* within one reading of the clock is no drift.                            *)
(***************************************************************************)
EXTENDS Integers, FiniteSets

CONSTANTS
  Appt,       \* appointments
  Pass,       \* passes of push-sync that may be at work together
  NoAppt,     \* of a pass at rest
  Lead,       \* PUSH_REMINDER_LEAD_MS
  Near,       \* the guard of the processor: a visit at most this far away
  Horizon,    \* HORIZON_MS, on top of the lead
  Batch,      \* BATCH of push-sync
  MaxTime,    \* bound on the clock
  MaxMoves,   \* bound on the moves of one appointment
  MaxTrouble  \* bound on failed runs, calls and lost jobs

ASSUME PushConstants ==
  /\ NoAppt \notin Appt
  /\ {Lead, Near, Horizon, Batch, MaxTime, MaxMoves, MaxTrouble} \subseteq Nat
  /\ Lead <= Near

Time == 0..MaxTime
\* Faulty variant: the lead is on the wrong side of the visit.
FireAfter(s) == s + Lead
Fire(s) == s - Lead

Row == [status: {"NONE", "CONFIRMED", "CLOSED"}, start: Time]

\* "kept" is a completed or failed job, whose id still blocks an add.
JobState == {"none", "delayed", "active", "retry", "kept"}
Job      == [state: JobState, fire: -Lead..MaxTime]

\* A pass: the rows it read, those it still has to see to, the one it is at.
PassAt  == {"idle", "next", "remove", "add"}
Sweeper == [at: PassAt, read: [Appt -> Row], todo: SUBSET Appt,
            cur: Appt \union {NoAppt}]

VARIABLES
  appt,     \* appt[a]: the Appointment rows
  job,      \* job[a]: the reminder job in Redis
  adding,   \* <<a, s>>: bookings that are about to add their reminder
  pass,     \* pass[p]
  now,
  trouble,  \* failures so far
  moves,    \* history: moves of each appointment
  added,    \* history: appointments whose booking added the reminder
  sent,     \* history: reminders that went out for each appointment
  repeated  \* history: a run failed after it had sent

history == <<moves, added, sent, repeated>>
vars == <<appt, job, adding, pass, now, trouble, history>>

NoJob  == [state |-> "none", fire |-> 0]
AtRest(read) == [at |-> "idle", read |-> read, todo |-> {}, cur |-> NoAppt]
Blank  == [a \in Appt |-> [status |-> "NONE", start |-> 0]]

Init ==
  /\ appt = Blank
  /\ job = [a \in Appt |-> NoJob]
  /\ adding = {}
  /\ pass = [p \in Pass |-> AtRest(Blank)]
  /\ now = 0 /\ trouble = 0
  /\ moves = [a \in Appt |-> 0]
  /\ added = {}
  /\ sent = [a \in Appt |-> 0]
  /\ repeated = FALSE

Confirmed(a) == appt[a].status = "CONFIRMED"

\* add() under the reminder's id: ignored while any job has that id.
Added(a, fire) ==
  IF job[a].state = "none" THEN [job EXCEPT ![a] = [state |-> "delayed", fire |-> fire]]
  ELSE job

Fails == trouble < MaxTrouble /\ trouble' = trouble + 1

-----------------------------------------------------------------------------
(* Web service                                                             *)

\* createBooking commits; the queue calls come after it.
Book(a, s) ==
  /\ appt[a].status = "NONE"
  /\ s > now
  /\ appt' = [appt EXCEPT ![a] = [status |-> "CONFIRMED", start |-> s]]
  /\ adding' = adding \union {<<a, s>>}
  /\ UNCHANGED <<job, pass, now, trouble, history>>

\* enqueuePush with the start the booking had; none inside the lead. The call
\* may land long after the booking stopped waiting for it.
EnqueuePush(a, s) ==
  /\ <<a, s>> \in adding
  /\ adding' = adding \ {<<a, s>>}
  /\ IF Fire(s) > now
     THEN /\ job' = Added(a, Fire(s))
          /\ added' = added \union {a}
     ELSE UNCHANGED <<job, added>>
  /\ UNCHANGED <<appt, pass, now, trouble, moves, sent, repeated>>

LosePush(a, s) ==
  /\ <<a, s>> \in adding
  /\ Fails
  /\ adding' = adding \ {<<a, s>>}
  /\ UNCHANGED <<appt, job, pass, now, history>>

\* A customer or the staff moves the visit. Neither path calls the push queue.
Move(a, s) ==
  /\ Confirmed(a) /\ moves[a] < MaxMoves
  /\ s > now /\ s # appt[a].start
  /\ appt' = [appt EXCEPT ![a].start = s]
  /\ moves' = [moves EXCEPT ![a] = @ + 1]
  /\ UNCHANGED <<job, adding, pass, now, trouble, added, sent, repeated>>

\* Cancelled, completed or no-show: the job stays where it is.
Close(a) ==
  /\ Confirmed(a)
  /\ appt' = [appt EXCEPT ![a].status = "CLOSED"]
  /\ UNCHANGED <<job, adding, pass, now, trouble, history>>

-----------------------------------------------------------------------------
(* Worker: the reminder job                                                *)

StartRun(a) ==
  /\ \/ job[a].state = "delayed" /\ job[a].fire <= now
     \/ job[a].state = "retry"
  /\ job' = [job EXCEPT ![a].state = "active"]
  /\ UNCHANGED <<appt, adding, pass, now, trouble, history>>

\* processPush: only a visit that still stands and is near is announced.
Announces(a) == Confirmed(a) /\ appt[a].start > now /\ appt[a].start - now <= Near

EndRun(a) ==
  /\ job[a].state = "active"
  /\ job' = [job EXCEPT ![a].state = "kept"]
  /\ sent' = IF Announces(a) THEN [sent EXCEPT ![a] = @ + 1] ELSE sent
  /\ UNCHANGED <<appt, adding, pass, now, trouble, moves, added, repeated>>

\* The database fails the run, before it sent anything or when it prunes the
\* devices that are gone. It is retried, or failed for good. The time the job
\* then shows is that of the retry or still the old one: BullMQ's business.
FailRun(a, announced) ==
  /\ job[a].state = "active"
  /\ Fails
  /\ announced => Announces(a)
  /\ \E state \in {"retry", "kept"}, fire \in {job[a].fire, now} :
       job' = [job EXCEPT ![a] = [state |-> state, fire |-> fire]]
  /\ sent' = IF announced THEN [sent EXCEPT ![a] = @ + 1] ELSE sent
  /\ repeated' = (repeated \/ announced)
  /\ UNCHANGED <<appt, adding, pass, now, moves, added>>

\* Redis restarts or evicts: a job is gone, run or not.
LoseJob(a) ==
  /\ job[a].state \notin {"none", "active"}
  /\ Fails
  /\ job' = [job EXCEPT ![a] = NoJob]
  /\ UNCHANGED <<appt, adding, pass, now, history>>

-----------------------------------------------------------------------------
(* Worker: syncPushReminders                                               *)

InRange(a) ==
  appt[a].status # "NONE" /\ appt[a].start > now /\ appt[a].start <= now + Lead + Horizon

\* The rows of a pass: the first Batch by start among those in range.
FirstInRange(rows) ==
  LET due == {a \in Appt : InRange(a)} IN
  /\ rows \subseteq due
  /\ Cardinality(rows) = IF Cardinality(due) < Batch THEN Cardinality(due) ELSE Batch
  /\ \A a \in rows, b \in due \ rows : appt[a].start <= appt[b].start

StartPass(p) ==
  /\ pass[p].at = "idle"
  /\ \E rows \in SUBSET Appt :
       /\ FirstInRange(rows) /\ rows # {}
       /\ pass' = [pass EXCEPT ![p] = [at |-> "next", read |-> appt, todo |-> rows,
                                       cur |-> NoAppt]]
  /\ UNCHANGED <<appt, job, adding, now, trouble, history>>

\* The pass is through with the row it is at, and ends after the last one.
Through(p, a) ==
  LET rest == pass[p].todo \ {a} IN
  pass' = [pass EXCEPT ![p] = IF rest = {} THEN AtRest(Blank)
                              ELSE [@ EXCEPT !.at = "next", !.todo = rest, !.cur = NoAppt]]
GoOn(p, a, at) == pass' = [pass EXCEPT ![p].at = at, ![p].cur = a]

IsNext(p, a) ==
  /\ pass[p].at = "next" /\ a \in pass[p].todo
  /\ \A b \in pass[p].todo : pass[p].read[a].start <= pass[p].read[b].start

\* cancelPushReminder, for a visit that was closed when it was read.
Clear(p, a) ==
  /\ IsNext(p, a)
  /\ pass[p].read[a].status # "CONFIRMED"
  /\ job' = IF job[a].state = "active" THEN job ELSE [job EXCEPT ![a] = NoJob]
  /\ Through(p, a)
  /\ UNCHANGED <<appt, adding, now, trouble, history>>

\* Faulty variant: a job that is there is taken for the right one.
TakesAnyJob(p, a) ==
  /\ IsNext(p, a)
  /\ pass[p].read[a].status = "CONFIRMED"
  /\ IF job[a].state = "none" THEN GoOn(p, a, "add") ELSE Through(p, a)
  /\ UNCHANGED <<appt, job, adding, now, trouble, history>>
\* Faulty variant: every job is set up anew.
TakesNoJob(p, a) ==
  /\ IsNext(p, a)
  /\ pass[p].read[a].status = "CONFIRMED"
  /\ GoOn(p, a, IF job[a].state = "none" THEN "add" ELSE "remove")
  /\ UNCHANGED <<appt, job, adding, now, trouble, history>>
\* syncPushReminder, getJob: one for the right moment is left alone, another one
\* has to be removed first.
Compare(p, a) ==
  /\ IsNext(p, a)
  /\ pass[p].read[a].status = "CONFIRMED"
  /\ IF job[a].state = "none" THEN GoOn(p, a, "add")
     ELSE IF job[a].fire = Fire(pass[p].read[a].start) THEN Through(p, a)
     ELSE GoOn(p, a, "remove")
  /\ UNCHANGED <<appt, job, adding, now, trouble, history>>

\* remove: a job that is being run is locked and stays. What it answers for a
\* job that is gone by now is BullMQ's business.
RemoveStale(p) ==
  LET a == pass[p].cur IN
  /\ pass[p].at = "remove"
  /\ \/ /\ job[a].state \in {"active", "none"}
        /\ UNCHANGED job
        /\ Through(p, a)
     \/ /\ job[a].state # "active"
        /\ job' = [job EXCEPT ![a] = NoJob]
        /\ GoOn(p, a, "add")
  /\ UNCHANGED <<appt, adding, now, trouble, history>>

\* Faulty variant: a reminder whose time has passed goes out at once.
AddAnyway(p) ==
  LET a == pass[p].cur  fire == Fire(pass[p].read[a].start) IN
  /\ pass[p].at = "add"
  /\ job' = Added(a, fire)
  /\ Through(p, a)
  /\ UNCHANGED <<appt, adding, now, trouble, history>>
\* The add, unless the new time is less than the lead away.
AddReminder(p) ==
  LET a == pass[p].cur  fire == Fire(pass[p].read[a].start) IN
  /\ pass[p].at = "add"
  /\ job' = IF fire > now THEN Added(a, fire) ELSE job
  /\ Through(p, a)
  /\ UNCHANGED <<appt, adding, now, trouble, history>>

\* A call takes too long. The pass is given up; the call may land all the same.
TimeOut(p) ==
  /\ pass[p].at \in {"remove", "add"}
  /\ Fails
  /\ pass' = [pass EXCEPT ![p].todo = {pass[p].cur}]
  /\ UNCHANGED <<appt, job, adding, now, history>>

\* A call fails, or the worker dies: the rest of the pass is lost.
Abort(p) ==
  /\ pass[p].at # "idle"
  /\ Fails
  /\ pass' = [pass EXCEPT ![p] = AtRest(Blank)]
  /\ UNCHANGED <<appt, job, adding, now, history>>

Tick ==
  /\ now < MaxTime
  /\ now' = now + 1
  /\ UNCHANGED <<appt, job, adding, pass, trouble, history>>

-----------------------------------------------------------------------------

Sync(p) ==
  \/ \E a \in Appt : Clear(p, a) \/ Compare(p, a)
  \/ RemoveStale(p) \/ AddReminder(p)

Run(a) == StartRun(a) \/ EndRun(a)

Next ==
  \/ \E a \in Appt, s \in Time :
       Book(a, s) \/ EnqueuePush(a, s) \/ LosePush(a, s) \/ Move(a, s)
  \/ \E a \in Appt : Close(a) \/ Run(a) \/ LoseJob(a)
  \/ \E a \in Appt, announced \in BOOLEAN : FailRun(a, announced)
  \/ \E p \in Pass : StartPass(p) \/ Sync(p) \/ TimeOut(p) \/ Abort(p)
  \/ Tick

\* The timer starts passes for as long as the worker lives, calls return, and
\* BullMQ runs what is due. Nothing has to fail, and time need not pass.
Fairness ==
  /\ \A p \in Pass : WF_vars(StartPass(p)) /\ WF_vars(Sync(p))
  /\ \A a \in Appt : WF_vars(Run(a))

Spec == Init /\ [][Next]_vars /\ Fairness

-----------------------------------------------------------------------------
(* Properties                                                              *)

\* Rows, jobs, passes and clocks keep their types: no job is set up for a moment
\* that is not a time.
TypeOK ==
  /\ appt \in [Appt -> Row]
  /\ job \in [Appt -> Job]
  /\ adding \subseteq Appt \X Time
  /\ pass \in [Pass -> Sweeper]
  /\ now \in Time /\ trouble \in 0..MaxTrouble
  /\ moves \in [Appt -> 0..MaxMoves]
  /\ added \subseteq Appt
  /\ sent \in [Appt -> Nat]
  /\ repeated \in BOOLEAN

\* A visit that was never moved is announced at most once, whatever passes,
\* lost jobs and late calls set up again ("safe to call repeatedly", queue.ts);
\* only a run that fails after it sent repeats itself.
OneReminder ==
  \A a \in Appt : moves[a] = 0 /\ ~repeated => sent[a] <= 1

\* Passes never take a reminder away that nothing was wrong with: while nothing
\* failed, a visit that stands where it was booked has its job until it begins
\* ("a job already scheduled for the right moment is left alone", queue.ts).
RemindersStay ==
  \A a \in Appt :
    trouble = 0 /\ moves[a] = 0 /\ a \in added /\ Confirmed(a) /\ appt[a].start > now
      => job[a].state # "none"

\* The visit stands at s, its alert is ahead, and the passes see it; its job is
\* the right one.
Ahead(a, s) == Confirmed(a) /\ appt[a].start = s /\ InRange(a) /\ Fire(s) > now
Scheduled(a, s) == job[a] = [state |-> "delayed", fire |-> Fire(s)]

\* A visit whose alert is still ahead, and close enough for the passes to see,
\* comes to have its job at the right time, after moves, lost jobs, passes that
\* were given up and passes that undid each other, unless it is moved or closed
\* or the time has come first ("makes the database the source of truth
\* regardless", push-sync.ts).
RemindersComeRight ==
  \A a \in Appt, s \in Time : Ahead(a, s) ~> (Scheduled(a, s) \/ ~Ahead(a, s))
=============================================================================

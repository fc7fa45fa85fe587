----------------------------- MODULE PushProofs -----------------------------
(***************************************************************************)
(* For any number of visits and overlapping passes, and any lead, horizon  *)
(* and batch: a visit that was never moved is announced once, and while    *)
(* nothing fails no pass takes its alert away.                             *)
(*                                                                         *)
(* Two facts carry it: what a pass has read of an unmoved visit is still   *)
(* so, and the alert of an unmoved visit is due once its job has run.      *)
(***************************************************************************)
EXTENDS Push, TLAPS

\* What a pass works on: visits that exist, whose start and end it knows.
PassOK(p) ==
  /\ pass[p].at \in {"remove", "add"} => pass[p].cur \in pass[p].todo
  /\ pass[p].at = "remove" => trouble > 0 \/ moves[pass[p].cur] > 0
  /\ \A a \in pass[p].todo :
       /\ appt[a].status # "NONE"
       /\ pass[p].read[a].status # "CONFIRMED" => appt[a].status = "CLOSED"
       /\ moves[a] = 0 => pass[p].read[a].start = appt[a].start

\* The job of an unmoved visit is set for its alert, and runs after it.
OnTime(a) ==
  /\ job[a].state = "delayed" => job[a].fire = Fire(appt[a].start)
  /\ job[a].state \in {"active", "retry", "kept"} => Fire(appt[a].start) <= now
  /\ trouble = 0 /\ job[a].state # "none" => job[a].fire = Fire(appt[a].start)
  /\ sent[a] > 0 => Fire(appt[a].start) <= now
  /\ sent[a] > 0 /\ ~repeated => sent[a] = 1 /\ job[a].state \in {"none", "kept"}
  /\ trouble = 0 /\ a \in added /\ Confirmed(a) /\ appt[a].start > now
       => job[a].state # "none"

VisitOK(a) ==
  /\ appt[a].status = "NONE" => job[a].state = "none" /\ sent[a] = 0 /\ a \notin added
  /\ \A s \in Time : <<a, s>> \in adding =>
       appt[a].status # "NONE" /\ (moves[a] = 0 => s = appt[a].start)
  /\ moves[a] = 0 => OnTime(a)

PushInv ==
  /\ TypeOK
  /\ \A p \in Pass : PassOK(p)
  /\ \A a \in Appt : VisitOK(a)

-----------------------------------------------------------------------------
(* Types                                                                   *)

LEMMA Numbers ==
  /\ {Lead, Near, Horizon, Batch, MaxTime, MaxMoves, MaxTrouble} \subseteq Nat
  /\ Time \subseteq Nat
  /\ \A s \in Time : Fire(s) \in -Lead..MaxTime /\ s \in -Lead..MaxTime
BY PushConstants DEF PushConstants, Time, Fire

\* A pass that is through with a row keeps what it read, or is at rest.
LEMMA ThroughPass ==
  ASSUME TypeOK, NEW p \in Pass, NEW a, Through(p, a)
  PROVE  /\ pass' \in [Pass -> Sweeper]
         /\ pass'[p].at \in {"idle", "next"}
         /\ pass'[p].todo \subseteq pass[p].todo
         /\ pass'[p].todo # {} => pass'[p].read = pass[p].read
         /\ \A q \in Pass \ {p} : pass'[q] = pass[q]
<1> DEFINE rest == pass[p].todo \ {a}
           w == IF rest = {} THEN AtRest(Blank)
                ELSE [pass[p] EXCEPT !.at = "next", !.todo = rest, !.cur = NoAppt]
<1>1. pass \in [Pass -> Sweeper] /\ pass[p] \in Sweeper
  BY DEF TypeOK
<1>2. Blank \in [Appt -> Row]
  BY Numbers, PushConstants DEF Blank, Row, Time, PushConstants
<1>3. AtRest(Blank) \in Sweeper
  BY <1>2 DEF AtRest, Sweeper, PassAt
<1>4. w \in Sweeper
  BY <1>1, <1>3 DEF Sweeper, PassAt
<1>5. /\ w.at \in {"idle", "next"} /\ w.todo \subseteq pass[p].todo
      /\ w.todo # {} => w.read = pass[p].read
  BY <1>1 DEF AtRest, Sweeper
<1>6. pass' = [pass EXCEPT ![p] = w]
  BY DEF Through
<1> HIDE DEF w
<1> QED
  BY <1>1, <1>4, <1>5, <1>6

\* A pass that goes on with a row changes nothing else.
LEMMA GoOnPass ==
  ASSUME TypeOK, NEW p \in Pass, NEW a \in Appt, NEW at \in PassAt, GoOn(p, a, at)
  PROVE  /\ pass' \in [Pass -> Sweeper]
         /\ pass'[p].at = at /\ pass'[p].cur = a
         /\ pass'[p].todo = pass[p].todo /\ pass'[p].read = pass[p].read
         /\ \A q \in Pass \ {p} : pass'[q] = pass[q]
<1>1. pass \in [Pass -> Sweeper] /\ pass[p] \in Sweeper
  BY DEF TypeOK
<1>2. pass' = [pass EXCEPT ![p] = [pass[p] EXCEPT !.at = at, !.cur = a]]
  BY <1>1 DEF GoOn
<1>3. /\ [pass[p] EXCEPT !.at = at, !.cur = a] \in Sweeper
      /\ [pass[p] EXCEPT !.at = at, !.cur = a].at = at
      /\ [pass[p] EXCEPT !.at = at, !.cur = a].cur = a
      /\ [pass[p] EXCEPT !.at = at, !.cur = a].todo = pass[p].todo
      /\ [pass[p] EXCEPT !.at = at, !.cur = a].read = pass[p].read
  BY <1>1 DEF Sweeper
<1> QED
  BY <1>1, <1>2, <1>3

\* An added job is one, and touches nothing when there is a job already.
LEMMA AddedJob ==
  ASSUME TypeOK, NEW a \in Appt, NEW fire \in -Lead..MaxTime
  PROVE  /\ Added(a, fire) \in [Appt -> Job]
         /\ \A b \in Appt \ {a} : Added(a, fire)[b] = job[b]
         /\ IF job[a].state = "none"
              THEN Added(a, fire)[a] = [state |-> "delayed", fire |-> fire]
              ELSE Added(a, fire)[a] = job[a]
<1>1. job \in [Appt -> Job]
  BY DEF TypeOK
<1>2. [state |-> "delayed", fire |-> fire] \in Job
  BY DEF Job, JobState
<1> QED
  BY <1>1, <1>2 DEF Added

LEMMA NoJobType == NoJob \in Job /\ NoJob.state = "none"
BY Numbers DEF NoJob, Job, JobState

-----------------------------------------------------------------------------
(* What does not disturb a visit or a pass                                 *)

\* What the invariant says of one visit.
LEMMA OfVisit ==
  ASSUME TypeOK, NEW a \in Appt
  PROVE  /\ appt \in [Appt -> Row] /\ appt[a] \in Row
         /\ job \in [Appt -> Job] /\ job[a] \in Job
         /\ appt[a].start \in Time /\ appt[a].start \in Nat
         /\ Fire(appt[a].start) \in Int /\ Fire(appt[a].start) \in -Lead..MaxTime
         /\ now \in Nat /\ now \in Time /\ trouble \in Nat
         /\ sent \in [Appt -> Nat] /\ sent[a] \in Nat
         /\ moves \in [Appt -> 0..MaxMoves] /\ moves[a] \in Nat
<1>1. appt \in [Appt -> Row] /\ job \in [Appt -> Job] /\ sent \in [Appt -> Nat]
      /\ moves \in [Appt -> 0..MaxMoves] /\ now \in Time /\ trouble \in Nat
  BY DEF TypeOK
<1>2. appt[a] \in Row /\ appt[a].start \in Time
  BY <1>1 DEF Row
<1>3. appt[a].start \in Nat /\ now \in Nat /\ Fire(appt[a].start) \in -Lead..MaxTime
  BY <1>1, <1>2, Numbers
<1>4. Fire(appt[a].start) \in Int
  BY <1>3
<1> QED
  BY <1>1, <1>2, <1>3, <1>4

\* A visit nobody touches: time passes, faults happen, calls land or are lost.
LEMMA VisitKept ==
  ASSUME TypeOK, NEW a \in Appt, VisitOK(a),
         appt'[a] = appt[a], job'[a] = job[a], sent'[a] = sent[a],
         moves'[a] = moves[a], repeated => repeated',
         a \in added' => a \in added, adding' \subseteq adding,
         trouble' \in Nat, trouble' >= trouble, now' \in Nat, now' >= now
  PROVE  VisitOK(a)'
<1>1. trouble' = 0 => trouble = 0
  BY OfVisit
<1>2. OnTime(a) => OnTime(a)'
  <2>1. Fire(appt[a].start) <= now => Fire(appt[a].start) <= now'
    BY OfVisit
  <2>2. appt[a].start > now' => appt[a].start > now
    BY OfVisit
  <2>3. ~repeated' => ~repeated
    OBVIOUS
  <2> QED
    BY <1>1, <2>1, <2>2, <2>3 DEF OnTime, Confirmed, Fire
<1> QED
  BY <1>2 DEF VisitOK

\* Passes are right about the visits as long as these change as visits do.
LEMMA PassKept ==
  ASSUME TypeOK, NEW p \in Pass, PassOK(p), pass'[p] = pass[p],
         trouble > 0 => trouble' > 0,
         \A a \in Appt :
           /\ appt[a].status # "NONE" => appt'[a].status # "NONE"
           /\ appt[a].status = "CLOSED" => appt'[a].status = "CLOSED"
           /\ moves[a] > 0 => moves'[a] > 0
           /\ moves'[a] = 0 /\ appt[a].status # "NONE" => appt'[a].start = appt[a].start,
         \A a \in Appt : moves'[a] = 0 => moves[a] = 0
  PROVE  PassOK(p)'
<1>1. pass[p].todo \subseteq Appt
  BY DEF TypeOK, Sweeper
<1> QED
  BY <1>1 DEF PassOK

\* The same, while nothing of the visits changes.
LEMMA PassesKept ==
  ASSUME TypeOK, NEW p \in Pass, PassOK(p), pass'[p] = pass[p],
         trouble' \in Nat, trouble' >= trouble, UNCHANGED <<appt, moves>>
  PROVE  PassOK(p)'
<1>1. trouble > 0 => trouble' > 0
  BY DEF TypeOK
<1> QED
  BY <1>1, PassKept

\* A pass that is through with a row is right about the rest.
LEMMA ThroughKept ==
  ASSUME TypeOK, NEW p \in Pass, PassOK(p), NEW a, Through(p, a),
         UNCHANGED <<appt, moves>>
  PROVE  PassOK(p)'
BY ThroughPass DEF PassOK

-----------------------------------------------------------------------------
(* The actions                                                             *)

LEMMA BookStep ==
  ASSUME PushInv, NEW a \in Appt, NEW s \in Time, Book(a, s)
  PROVE  PushInv'
<1>1. /\ TypeOK /\ appt[a].status = "NONE"
      /\ appt' = [appt EXCEPT ![a] = [status |-> "CONFIRMED", start |-> s]]
      /\ adding' = adding \union {<<a, s>>}
      /\ UNCHANGED <<job, pass, now, trouble, moves, added, sent, repeated>>
  BY DEF PushInv, Book, history
<1>2. TypeOK'
  BY <1>1 DEF TypeOK, Row
<1>3. /\ appt'[a] = [status |-> "CONFIRMED", start |-> s]
      /\ \A b \in Appt \ {a} : appt'[b] = appt[b]
  BY <1>1 DEF TypeOK
<1>4. ASSUME NEW p \in Pass PROVE PassOK(p)'
  <2>1. PassOK(p)
    BY DEF PushInv
  <2> QED
    BY <1>1, <1>3, <2>1, PassKept
<1>5. VisitOK(a)'
  <2>1. /\ job[a].state = "none" /\ sent[a] = 0 /\ a \notin added
        /\ \A t \in Time : <<a, t>> \notin adding
    BY <1>1 DEF PushInv, VisitOK
  <2>2. OnTime(a)'
    BY <1>1, <2>1 DEF OnTime
  <2> QED
    BY <1>1, <1>3, <2>1, <2>2 DEF VisitOK
<1>6. ASSUME NEW b \in Appt \ {a} PROVE VisitOK(b)'
  <2>1. VisitOK(b) /\ appt'[b] = appt[b]
    BY <1>3 DEF PushInv
  <2>2. OnTime(b) => OnTime(b)'
    BY <1>1, <2>1 DEF OnTime, Confirmed
  <2> QED
    BY <1>1, <2>1, <2>2 DEF VisitOK
<1> QED
  BY <1>2, <1>4, <1>5, <1>6 DEF PushInv

\* The call that a booking left behind adds the alert, or comes too late.
LEMMA EnqueueStep ==
  ASSUME PushInv, NEW a \in Appt, NEW s \in Time, EnqueuePush(a, s)
  PROVE  PushInv'
<1>1. /\ TypeOK /\ VisitOK(a) /\ <<a, s>> \in adding /\ adding' = adding \ {<<a, s>>}
      /\ IF Fire(s) > now THEN job' = Added(a, Fire(s)) /\ added' = added \union {a}
                          ELSE UNCHANGED <<job, added>>
      /\ UNCHANGED <<appt, pass, now, trouble, moves, sent, repeated>>
  BY DEF PushInv, EnqueuePush
<1>2. Fire(s) \in -Lead..MaxTime
  BY Numbers
<1>3. /\ job' \in [Appt -> Job]
      /\ \A b \in Appt \ {a} : job'[b] = job[b] /\ (b \in added' => b \in added)
      /\ IF Fire(s) > now /\ job[a].state = "none"
           THEN job'[a] = [state |-> "delayed", fire |-> Fire(s)]
           ELSE job'[a] = job[a]
      /\ a \in added' => a \in added \/ job'[a].state # "none"
  BY <1>1, <1>2, AddedJob DEF TypeOK
<1>4. TypeOK'
  BY <1>1, <1>3 DEF TypeOK
<1>5. ASSUME NEW p \in Pass PROVE PassOK(p)'
  BY <1>1, <1>5, PassesKept, OfVisit DEF PushInv
<1>6. VisitOK(a)'
  <2>1. appt[a].status # "NONE" /\ (moves[a] = 0 => s = appt[a].start)
    BY <1>1 DEF VisitOK
  <2>2. ASSUME moves[a] = 0 PROVE OnTime(a)'
    <3>1. OnTime(a) /\ s = appt[a].start
      BY <1>1, <2>1, <2>2 DEF VisitOK
    <3>2. CASE Fire(s) > now /\ job[a].state = "none"
      <4>1. ~(Fire(appt[a].start) <= now)
        BY <3>1, <3>2, OfVisit, <1>1
      <4> QED
        BY <1>1, <1>3, <3>1, <3>2, <4>1, OfVisit DEF OnTime
    <3>3. CASE ~(Fire(s) > now /\ job[a].state = "none")
      BY <1>1, <1>3, <3>1, <3>3 DEF OnTime, Confirmed
    <3> QED
      BY <3>2, <3>3
  <2> QED
    BY <1>1, <2>1, <2>2 DEF VisitOK
<1>7. ASSUME NEW b \in Appt \ {a} PROVE VisitOK(b)'
  BY <1>1, <1>3, VisitKept, OfVisit DEF PushInv
<1> QED
  BY <1>4, <1>5, <1>6, <1>7 DEF PushInv

\* A visit that moves keeps its job; nothing is claimed of it any more.
LEMMA MoveStep ==
  ASSUME PushInv, NEW a \in Appt, NEW s \in Time, Move(a, s)
  PROVE  PushInv'
<1>1. /\ TypeOK /\ Confirmed(a) /\ moves[a] < MaxMoves
      /\ appt' = [appt EXCEPT ![a].start = s] /\ moves' = [moves EXCEPT ![a] = @ + 1]
      /\ UNCHANGED <<job, adding, pass, now, trouble, added, sent, repeated>>
  BY DEF PushInv, Move
<1>2. /\ appt' \in [Appt -> Row] /\ moves' \in [Appt -> 0..MaxMoves]
      /\ appt'[a].status = "CONFIRMED" /\ moves'[a] > 0
      /\ \A b \in Appt \ {a} : appt'[b] = appt[b] /\ moves'[b] = moves[b]
  BY <1>1, Numbers DEF TypeOK, Row, Confirmed
<1>3. TypeOK'
  BY <1>1, <1>2 DEF TypeOK
<1>4. ASSUME NEW p \in Pass PROVE PassOK(p)'
  <2>1. PassOK(p)
    BY DEF PushInv
  <2>2. moves'[a] # 0 /\ appt[a].status = "CONFIRMED"
    BY <1>1, <1>2 DEF Confirmed
  <2> QED
    BY <1>1, <1>2, <2>1, <2>2, PassKept
<1>5. VisitOK(a)'
  BY <1>2 DEF VisitOK
<1>6. ASSUME NEW b \in Appt \ {a} PROVE VisitOK(b)'
  BY <1>1, <1>2, VisitKept, OfVisit DEF PushInv
<1> QED
  BY <1>3, <1>4, <1>5, <1>6 DEF PushInv

LEMMA CloseStep ==
  ASSUME PushInv, NEW a \in Appt, Close(a)
  PROVE  PushInv'
<1>1. /\ TypeOK /\ Confirmed(a) /\ appt' = [appt EXCEPT ![a].status = "CLOSED"]
      /\ UNCHANGED <<job, adding, pass, now, trouble, moves, added, sent, repeated>>
  BY DEF PushInv, Close, history
<1>2. /\ appt' \in [Appt -> Row]
      /\ appt'[a].status = "CLOSED" /\ appt'[a].start = appt[a].start
      /\ \A b \in Appt \ {a} : appt'[b] = appt[b]
  BY <1>1 DEF TypeOK, Row
<1>3. TypeOK'
  BY <1>1, <1>2 DEF TypeOK
<1>4. ASSUME NEW p \in Pass PROVE PassOK(p)'
  <2>1. PassOK(p) /\ appt[a].status = "CONFIRMED"
    BY <1>1 DEF PushInv, Confirmed
  <2> QED
    BY <1>1, <1>2, <2>1, PassKept
<1>5. VisitOK(a)'
  <2>1. VisitOK(a) /\ appt[a].status = "CONFIRMED"
    BY <1>1 DEF PushInv, Confirmed
  <2>2. OnTime(a) => OnTime(a)'
    BY <1>1, <1>2 DEF OnTime, Confirmed
  <2> QED
    BY <1>1, <1>2, <2>1, <2>2 DEF VisitOK
<1>6. ASSUME NEW b \in Appt \ {a} PROVE VisitOK(b)'
  BY <1>1, <1>2, VisitKept, OfVisit DEF PushInv
<1> QED
  BY <1>3, <1>4, <1>5, <1>6 DEF PushInv

\* A job of visit a starts, runs or is lost; the other visits do not notice.
LEMMA JobStep ==
  ASSUME PushInv, NEW a \in Appt, NEW j \in Job, job' = [job EXCEPT ![a] = j],
         NEW k \in Nat, sent' \in {sent, [sent EXCEPT ![a] = k]},
         repeated' \in BOOLEAN, repeated => repeated',
         trouble' \in 0..MaxTrouble, trouble' >= trouble,
         UNCHANGED <<appt, adding, pass, now, moves, added>>,
         VisitOK(a) => VisitOK(a)'
  PROVE  PushInv'
<1>1. /\ TypeOK /\ job'[a] = j /\ \A b \in Appt \ {a} : job'[b] = job[b]
      /\ sent' \in [Appt -> Nat] /\ \A b \in Appt \ {a} : sent'[b] = sent[b]
      /\ trouble' \in Nat
  BY Numbers DEF PushInv, TypeOK
<1>2. TypeOK'
  BY <1>1 DEF TypeOK
<1>3. ASSUME NEW p \in Pass PROVE PassOK(p)'
  BY <1>1, PassesKept DEF PushInv
<1>4. ASSUME NEW b \in Appt \ {a} PROVE VisitOK(b)'
  BY <1>1, VisitKept, OfVisit DEF PushInv
<1> QED
  BY <1>2, <1>3, <1>4 DEF PushInv

LEMMA RunStep ==
  ASSUME PushInv, NEW a \in Appt, Run(a)
  PROVE  PushInv'
<1>1. /\ TypeOK /\ job \in [Appt -> Job] /\ job[a] \in Job /\ sent \in [Appt -> Nat]
      /\ appt[a].status = "NONE" => job[a].state = "none"
  BY OfVisit DEF PushInv, VisitOK
<1>2. CASE StartRun(a)
  <2> DEFINE j == [job[a] EXCEPT !.state = "active"]
  <2>1. /\ j \in Job /\ j.state = "active" /\ j.fire = job[a].fire
        /\ job' = [job EXCEPT ![a] = j]
        /\ (job[a].state = "delayed" /\ job[a].fire <= now) \/ job[a].state = "retry"
        /\ UNCHANGED <<appt, adding, pass, now, trouble, moves, added, sent, repeated>>
    BY <1>1, <1>2 DEF StartRun, Job, JobState, history
  <2> HIDE DEF j
  <2>2. job'[a] = j
    BY <1>1, <2>1
  <2>3. VisitOK(a) => VisitOK(a)'
    <3>1. OnTime(a) => OnTime(a)'
      BY <2>1, <2>2 DEF OnTime, Confirmed
    <3> QED
      BY <1>1, <2>1, <2>2, <3>1 DEF VisitOK
  <2>4. trouble' \in 0..MaxTrouble /\ trouble' >= trouble /\ sent[a] \in Nat /\ repeated' \in BOOLEAN
    BY <1>1, <2>1, OfVisit DEF TypeOK
  <2> QED
    BY <2>1, <2>3, <2>4, JobStep
<1>3. CASE EndRun(a)
  <2> DEFINE j == [job[a] EXCEPT !.state = "kept"]
  <2>1. /\ j \in Job /\ j.state = "kept" /\ j.fire = job[a].fire
        /\ job' = [job EXCEPT ![a] = j] /\ job[a].state = "active"
        /\ sent' \in {sent, [sent EXCEPT ![a] = sent[a] + 1]}
        /\ UNCHANGED <<appt, adding, pass, now, trouble, moves, added, repeated>>
    BY <1>1, <1>3 DEF EndRun, Job, JobState
  <2> HIDE DEF j
  <2>2. job'[a] = j /\ sent[a] \in Nat /\ sent'[a] \in {sent[a], sent[a] + 1}
    BY <1>1, <2>1
  <2>3. VisitOK(a) => VisitOK(a)'
    <3>1. ASSUME OnTime(a) PROVE OnTime(a)'
      <4>1. Fire(appt[a].start) <= now /\ (sent[a] > 0 => repeated)
        BY <2>1, <3>1 DEF OnTime
      <4>2. sent'[a] > 0 /\ ~repeated => sent'[a] = 1
        BY <2>2, <4>1
      <4> QED
        BY <2>1, <2>2, <3>1, <4>1, <4>2 DEF OnTime, Confirmed
    <3> QED
      BY <1>1, <2>1, <2>2, <3>1 DEF VisitOK
  <2>4. /\ trouble' \in 0..MaxTrouble /\ trouble' >= trouble
        /\ sent[a] + 1 \in Nat /\ repeated' \in BOOLEAN
    BY <1>1, <2>1, OfVisit DEF TypeOK
  <2> QED
    BY <2>1, <2>3, <2>4, JobStep
<1> QED
  BY <1>2, <1>3 DEF Run

\* A run that fails after it sent is what "repeated" says.
LEMMA FailRunStep ==
  ASSUME PushInv, NEW a \in Appt, NEW announced \in BOOLEAN, FailRun(a, announced)
  PROVE  PushInv'
<1>1. /\ TypeOK /\ job \in [Appt -> Job] /\ job[a] \in Job /\ sent \in [Appt -> Nat]
      /\ now \in -Lead..MaxTime /\ sent[a] \in Nat /\ trouble \in 0..MaxTrouble
      /\ repeated \in BOOLEAN
  BY OfVisit, Numbers DEF PushInv, TypeOK
<1>2. PICK j \in Job : /\ j.state \in {"retry", "kept"} /\ job' = [job EXCEPT ![a] = j]
  <2>1. PICK state \in {"retry", "kept"}, fire \in {job[a].fire, now} :
          job' = [job EXCEPT ![a] = [state |-> state, fire |-> fire]]
    BY DEF FailRun
  <2>2. [state |-> state, fire |-> fire] \in Job
    BY <1>1 DEF Job, JobState
  <2> QED
    BY <2>1, <2>2
<1>3. /\ job[a].state = "active" /\ trouble' = trouble + 1 /\ trouble < MaxTrouble
      /\ sent' \in {sent, [sent EXCEPT ![a] = sent[a] + 1]}
      /\ ~announced => sent' = sent
      /\ repeated' = (repeated \/ announced)
      /\ UNCHANGED <<appt, adding, pass, now, moves, added>>
  BY DEF FailRun, Fails
<1>4. job'[a] = j /\ sent'[a] \in {sent[a], sent[a] + 1} /\ (~announced => sent'[a] = sent[a])
  BY <1>1, <1>2, <1>3
<1>5. /\ trouble' \in 0..MaxTrouble /\ trouble' >= trouble /\ trouble' > 0
      /\ sent[a] + 1 \in Nat /\ repeated' \in BOOLEAN /\ (repeated => repeated')
  BY <1>1, <1>3, Numbers
<1>6. ASSUME OnTime(a) PROVE OnTime(a)'
  <2>1. Fire(appt[a].start) <= now /\ (sent[a] > 0 => repeated)
    BY <1>3, <1>6 DEF OnTime
  <2>2. sent'[a] > 0 => repeated'
    BY <1>1, <1>3, <1>4, <2>1
  <2> QED
    BY <1>2, <1>3, <1>4, <1>5, <2>1, <2>2 DEF OnTime, Confirmed
<1>7. VisitOK(a) => VisitOK(a)'
  BY <1>3, <1>4, <1>6 DEF VisitOK
<1> QED
  BY <1>2, <1>3, <1>5, <1>7, JobStep

\* A job that is lost or removed, where that is allowed.
LEMMA GoneOK ==
  ASSUME TypeOK, NEW a \in Appt, VisitOK(a), job'[a] = NoJob,
         \/ trouble' > 0 \/ moves[a] > 0 \/ appt[a].status = "CLOSED",
         trouble' \in Nat, trouble' >= trouble,
         UNCHANGED <<appt, adding, now, moves, added, sent, repeated>>
  PROVE  VisitOK(a)'
<1>1. job'[a].state = "none" /\ moves[a] \in Nat
  BY NoJobType, OfVisit
<1>2. ASSUME moves[a] = 0, OnTime(a) PROVE OnTime(a)'
  <2>1. trouble' = 0 => ~Confirmed(a)
    BY <1>1, <1>2 DEF Confirmed
  <2> QED
    BY <1>1, <1>2, <2>1 DEF OnTime, Confirmed
<1> QED
  BY <1>1, <1>2 DEF VisitOK

LEMMA LoseJobStep ==
  ASSUME PushInv, NEW a \in Appt, LoseJob(a)
  PROVE  PushInv'
<1>1. /\ TypeOK /\ job \in [Appt -> Job] /\ trouble \in 0..MaxTrouble
      /\ trouble' = trouble + 1 /\ trouble < MaxTrouble
      /\ job' = [job EXCEPT ![a] = NoJob]
      /\ UNCHANGED <<appt, adding, pass, now, moves, added, sent, repeated>>
  BY OfVisit DEF PushInv, TypeOK, LoseJob, Fails, history
<1>2. /\ job'[a] = NoJob /\ trouble' \in 0..MaxTrouble /\ trouble' \in Nat
      /\ trouble' >= trouble /\ trouble' > 0
  BY <1>1, Numbers
<1>3. VisitOK(a) => VisitOK(a)'
  BY <1>1, <1>2, GoneOK
<1>4. sent[a] \in Nat /\ repeated' \in BOOLEAN
  BY <1>1 DEF TypeOK
<1> QED
  BY <1>1, <1>2, <1>3, <1>4, NoJobType, JobStep

\* A pass begins with rows that are there, and what it read is so.
LEMMA StartPassStep ==
  ASSUME PushInv, NEW p \in Pass, StartPass(p)
  PROVE  PushInv'
<1>1. PICK rows \in SUBSET Appt :
        /\ FirstInRange(rows)
        /\ pass' = [pass EXCEPT ![p] = [at |-> "next", read |-> appt, todo |-> rows,
                                        cur |-> NoAppt]]
  BY DEF StartPass
<1>2. TypeOK /\ UNCHANGED <<appt, job, adding, now, trouble, moves, added, sent, repeated>>
  BY DEF PushInv, StartPass, history
<1> DEFINE w == [at |-> "next", read |-> appt, todo |-> rows, cur |-> NoAppt]
<1>3. w \in Sweeper
  BY <1>2 DEF TypeOK, Sweeper, PassAt
<1>4. pass'[p] = w /\ pass' \in [Pass -> Sweeper] /\ \A q \in Pass \ {p} : pass'[q] = pass[q]
  BY <1>1, <1>2, <1>3 DEF TypeOK
<1>5. TypeOK'
  BY <1>2, <1>4 DEF TypeOK
<1>6. \A a \in rows : appt[a].status # "NONE"
  BY <1>1 DEF FirstInRange, InRange
<1>7. PassOK(p)'
  <2>1. \A a \in rows : appt[a].status # "CONFIRMED" => appt[a].status = "CLOSED"
    BY <1>2, <1>6 DEF TypeOK, Row
  <2> QED
    BY <1>2, <1>4, <1>6, <2>1 DEF PassOK
<1>8. ASSUME NEW q \in Pass \ {p} PROVE PassOK(q)'
  BY <1>2, <1>4, PassesKept, OfVisit DEF PushInv, PassOK
<1>9. ASSUME NEW a \in Appt PROVE VisitOK(a)'
  BY <1>2, VisitKept, OfVisit DEF PushInv
<1> QED
  BY <1>5, <1>7, <1>8, <1>9 DEF PushInv

\* A pass does one call for visit a; the other visits and passes do not notice.
LEMMA PassStep ==
  ASSUME PushInv, NEW p \in Pass, NEW a \in Appt,
         pass' \in [Pass -> Sweeper], \A q \in Pass \ {p} : pass'[q] = pass[q],
         PassOK(p)',
         job' \in [Appt -> Job], \A b \in Appt \ {a} : job'[b] = job[b],
         job'[a] = job[a] \/ VisitOK(a)',
         trouble' \in 0..MaxTrouble, trouble' >= trouble,
         UNCHANGED <<appt, adding, now, moves, added, sent, repeated>>
  PROVE  PushInv'
<1>1. TypeOK /\ trouble' \in Nat /\ now \in Nat
  BY Numbers, OfVisit DEF PushInv
<1>2. TypeOK'
  BY <1>1 DEF TypeOK
<1>3. ASSUME NEW q \in Pass PROVE PassOK(q)'
  BY <1>1, PassesKept DEF PushInv
<1>4. ASSUME NEW b \in Appt, job'[b] = job[b] PROVE VisitOK(b)'
  BY <1>1, <1>4, VisitKept DEF PushInv
<1> QED
  BY <1>2, <1>3, <1>4 DEF PushInv

\* The visit a pass is about to see to.
LEMMA NextVisit ==
  ASSUME PushInv, NEW p \in Pass, NEW a \in Appt, a \in pass[p].todo
  PROVE  /\ appt[a].status # "NONE"
         /\ pass[p].read[a].status # "CONFIRMED" => appt[a].status = "CLOSED"
         /\ moves[a] = 0 => pass[p].read[a].start = appt[a].start
         /\ Fire(pass[p].read[a].start) \in -Lead..MaxTime
         /\ trouble \in Nat /\ trouble \in 0..MaxTrouble /\ now \in Nat
         /\ moves[a] \in Nat
<1>1. pass[p].read[a].start \in Time
  BY DEF PushInv, TypeOK, Sweeper, Row
<1> QED
  BY <1>1, Numbers, OfVisit DEF PushInv, PassOK, TypeOK

\* The visit whose call a pass has in hand.
LEMMA CurrentVisit ==
  ASSUME PushInv, NEW p \in Pass, pass[p].at \in {"remove", "add"}
  PROVE  pass[p].cur \in Appt /\ pass[p].cur \in pass[p].todo
BY DEF PushInv, PassOK, TypeOK, Sweeper

\* The job of a closed visit is cleared away.
LEMMA ClearStep ==
  ASSUME PushInv, NEW p \in Pass, NEW a \in Appt, Clear(p, a)
  PROVE  PushInv'
<1>1. /\ TypeOK /\ a \in pass[p].todo /\ pass[p].read[a].status # "CONFIRMED"
      /\ job' \in {job, [job EXCEPT ![a] = NoJob]} /\ Through(p, a)
      /\ UNCHANGED <<appt, adding, now, trouble, moves, added, sent, repeated>>
      /\ job \in [Appt -> Job]
  BY DEF PushInv, Clear, IsNext, history, TypeOK
<1>2. appt[a].status = "CLOSED" /\ trouble \in Nat /\ trouble \in 0..MaxTrouble
  BY <1>1, NextVisit
<1>3. /\ job' \in [Appt -> Job] /\ \A b \in Appt \ {a} : job'[b] = job[b]
      /\ job'[a] = job[a] \/ job'[a] = NoJob
  BY <1>1, NoJobType
<1>4. job'[a] = job[a] \/ VisitOK(a)'
  BY <1>1, <1>2, <1>3, GoneOK DEF PushInv
<1>5. PassOK(p)'
  BY <1>1, ThroughKept DEF PushInv
<1>6. trouble' \in 0..MaxTrouble /\ trouble' >= trouble
  BY <1>1, <1>2
<1> QED
  BY <1>1, <1>3, <1>4, <1>5, <1>6, ThroughPass, PassStep

\* A job is only removed when it is not at the time that was read.
LEMMA CompareStep ==
  ASSUME PushInv, NEW p \in Pass, NEW a \in Appt, Compare(p, a)
  PROVE  PushInv'
<1>1. /\ TypeOK /\ a \in pass[p].todo /\ job \in [Appt -> Job]
      /\ UNCHANGED <<appt, job, adding, now, trouble, moves, added, sent, repeated>>
  BY DEF PushInv, Compare, IsNext, history, TypeOK
<1>2. trouble' \in 0..MaxTrouble /\ trouble' >= trouble
  BY <1>1, NextVisit
<1>3. SUFFICES /\ pass' \in [Pass -> Sweeper] /\ \A q \in Pass \ {p} : pass'[q] = pass[q]
               /\ PassOK(p)'
  BY <1>1, <1>2, PassStep
<1>4. CASE Through(p, a)
  BY <1>1, <1>4, ThroughPass, ThroughKept DEF PushInv
<1>5. ASSUME NEW at \in {"remove", "add"}, GoOn(p, a, at),
             at = "remove" => job[a].state # "none" /\ job[a].fire # Fire(pass[p].read[a].start)
      PROVE  /\ pass' \in [Pass -> Sweeper] /\ \A q \in Pass \ {p} : pass'[q] = pass[q]
             /\ PassOK(p)'
  <2>1. /\ pass' \in [Pass -> Sweeper] /\ pass'[p].at = at /\ pass'[p].cur = a
        /\ pass'[p].todo = pass[p].todo /\ pass'[p].read = pass[p].read
        /\ \A q \in Pass \ {p} : pass'[q] = pass[q]
    BY <1>1, <1>5, GoOnPass DEF PassAt
  <2>2. at = "remove" => trouble > 0 \/ moves[a] > 0
    <3>1. moves[a] = 0 => OnTime(a) /\ pass[p].read[a].start = appt[a].start
      BY <1>1, NextVisit DEF PushInv, VisitOK
    <3> QED
      BY <1>1, <1>5, <3>1, NextVisit DEF OnTime
  <2> QED
    BY <1>1, <2>1, <2>2 DEF PushInv, PassOK
<1> QED
  BY <1>4, <1>5 DEF Compare

\* What is removed is not the right job of an unmoved visit.
LEMMA RemoveStep ==
  ASSUME PushInv, NEW p \in Pass, RemoveStale(p)
  PROVE  PushInv'
<1>cur. PICK a \in Appt : a = pass[p].cur
  BY CurrentVisit DEF RemoveStale
<1>1. /\ TypeOK /\ a \in pass[p].todo /\ job \in [Appt -> Job]
      /\ pass[p].at = "remove" /\ (trouble > 0 \/ moves[a] > 0)
      /\ UNCHANGED <<appt, adding, now, trouble, moves, added, sent, repeated>>
  BY <1>cur, CurrentVisit DEF PushInv, PassOK, RemoveStale, history, TypeOK
<1>2. trouble' \in 0..MaxTrouble /\ trouble' >= trouble /\ trouble' \in Nat
  BY <1>1, NextVisit
<1>3. CASE Through(p, a) /\ UNCHANGED job
  <2>1. PassOK(p)'
    BY <1>1, <1>3, ThroughKept DEF PushInv
  <2> QED
    BY <1>1, <1>2, <1>3, <2>1, ThroughPass, PassStep
<1>4. CASE job' = [job EXCEPT ![a] = NoJob] /\ GoOn(p, a, "add")
  <2>1. /\ pass' \in [Pass -> Sweeper] /\ pass'[p].at = "add" /\ pass'[p].cur = a
        /\ pass'[p].todo = pass[p].todo /\ pass'[p].read = pass[p].read
        /\ \A q \in Pass \ {p} : pass'[q] = pass[q]
    BY <1>1, <1>4, GoOnPass DEF PassAt
  <2>2. PassOK(p)'
    BY <1>1, <2>1 DEF PushInv, PassOK
  <2>3. /\ job' \in [Appt -> Job] /\ job'[a] = NoJob
        /\ \A b \in Appt \ {a} : job'[b] = job[b]
    BY <1>1, <1>4, NoJobType
  <2>4. VisitOK(a)'
    BY <1>1, <1>2, <2>3, GoneOK DEF PushInv
  <2> QED
    BY <1>1, <1>2, <2>1, <2>2, <2>3, <2>4, PassStep
<1> QED
  BY <1>cur, <1>3, <1>4 DEF RemoveStale

\* What is added is at the time that was read, and that time is to come.
LEMMA AddStep ==
  ASSUME PushInv, NEW p \in Pass, AddReminder(p)
  PROVE  PushInv'
<1>cur. PICK a \in Appt : a = pass[p].cur
  BY CurrentVisit DEF AddReminder
<1>fire. PICK fire \in -Lead..MaxTime : fire = Fire(pass[p].read[a].start)
  BY <1>cur, CurrentVisit, NextVisit DEF AddReminder
<1>1. /\ TypeOK /\ a \in pass[p].todo /\ job \in [Appt -> Job]
      /\ job' = IF fire > now THEN Added(a, fire) ELSE job
      /\ Through(p, a)
      /\ UNCHANGED <<appt, adding, now, trouble, moves, added, sent, repeated>>
  BY <1>cur, <1>fire, CurrentVisit DEF PushInv, AddReminder, history, TypeOK
<1>2. /\ appt[a].status # "NONE" /\ trouble' \in 0..MaxTrouble /\ trouble' >= trouble
      /\ fire \in -Lead..MaxTime /\ (moves[a] = 0 => fire = Fire(appt[a].start))
  BY <1>fire, <1>1, NextVisit
<1>3. /\ job' \in [Appt -> Job]
      /\ \A b \in Appt \ {a} : job'[b] = job[b]
      /\ IF fire > now /\ job[a].state = "none"
           THEN job'[a] = [state |-> "delayed", fire |-> fire]
           ELSE job'[a] = job[a]
  BY <1>1, <1>2, AddedJob
<1>4. job'[a] = job[a] \/ VisitOK(a)'
  <2>1. SUFFICES ASSUME fire > now, job'[a] = [state |-> "delayed", fire |-> fire]
                 PROVE  VisitOK(a)'
    BY <1>3
  <2>2. ASSUME moves[a] = 0 PROVE OnTime(a)'
    <3>1. OnTime(a) /\ fire = Fire(appt[a].start)
      BY <1>1, <1>2, <2>2 DEF PushInv, VisitOK
    <3>2. ~(Fire(appt[a].start) <= now)
      BY <1>1, <2>1, <3>1, OfVisit
    <3> QED
      BY <1>1, <2>1, <3>1, <3>2, OfVisit DEF OnTime
  <2> QED
    BY <1>1, <1>2, <2>1, <2>2 DEF PushInv, VisitOK
<1>5. PassOK(p)'
  BY <1>1, ThroughKept DEF PushInv
<1> QED
  BY <1>1, <1>2, <1>3, <1>4, <1>5, ThroughPass, PassStep

\* A pass that is given up keeps the call it has in hand, or nothing.
LEMMA GiveUpStep ==
  ASSUME PushInv, NEW p \in Pass, TimeOut(p) \/ Abort(p)
  PROVE  PushInv'
<1>1. /\ TypeOK /\ pass \in [Pass -> Sweeper] /\ pass[p] \in Sweeper
      /\ trouble' = trouble + 1 /\ trouble < MaxTrouble /\ trouble \in 0..MaxTrouble
      /\ UNCHANGED <<appt, job, adding, now, moves, added, sent, repeated>>
  BY DEF PushInv, TimeOut, Abort, Fails, history, TypeOK
<1>2. trouble' \in 0..MaxTrouble /\ trouble' \in Nat /\ trouble' >= trouble /\ trouble' > 0
  BY <1>1, Numbers
<1>3. /\ pass' \in [Pass -> Sweeper] /\ \A q \in Pass \ {p} : pass'[q] = pass[q]
      /\ PassOK(p)'
  <2>1. CASE TimeOut(p)
    <3>1. pass[p].cur \in Appt /\ pass[p].cur \in pass[p].todo
      BY <2>1, CurrentVisit DEF TimeOut
    <3>2. pass' = [pass EXCEPT ![p] = [pass[p] EXCEPT !.todo = {pass[p].cur}]]
      BY <1>1, <2>1 DEF TimeOut
    <3>3. /\ [pass[p] EXCEPT !.todo = {pass[p].cur}] \in Sweeper
          /\ pass'[p] = [pass[p] EXCEPT !.todo = {pass[p].cur}]
      BY <1>1, <3>1, <3>2 DEF Sweeper
    <3>4. /\ pass'[p].at = pass[p].at /\ pass'[p].cur = pass[p].cur
          /\ pass'[p].read = pass[p].read /\ pass'[p].todo = {pass[p].cur}
      BY <1>1, <3>3 DEF Sweeper
    <3>5. PassOK(p)'
      BY <1>1, <1>2, <3>1, <3>4 DEF PushInv, PassOK
    <3> QED
      BY <1>1, <3>2, <3>3, <3>5
  <2>2. CASE Abort(p)
    <3>1. AtRest(Blank) \in Sweeper
      BY Numbers, PushConstants DEF AtRest, Blank, Row, Time, PushConstants, Sweeper, PassAt
    <3>2. pass' = [pass EXCEPT ![p] = AtRest(Blank)] /\ pass'[p] = AtRest(Blank)
      BY <1>1, <2>2 DEF Abort
    <3>3. pass'[p].at = "idle" /\ pass'[p].todo = {}
      BY <3>2 DEF AtRest
    <3> QED
      BY <1>1, <3>1, <3>2, <3>3 DEF PassOK
  <2> QED
    BY <2>1, <2>2
<1>4. TypeOK'
  BY <1>1, <1>2, <1>3 DEF TypeOK
<1>5. ASSUME NEW q \in Pass \ {p} PROVE PassOK(q)'
  BY <1>1, <1>2, <1>3, PassesKept DEF PushInv
<1>6. ASSUME NEW a \in Appt PROVE VisitOK(a)'
  BY <1>1, <1>2, VisitKept, OfVisit DEF PushInv
<1> QED
  BY <1>3, <1>4, <1>5, <1>6 DEF PushInv

\* Time passes, or the call of a booking is lost.
LEMMA OutsideStep ==
  ASSUME PushInv, Tick \/ \E a \in Appt, s \in Time : LosePush(a, s)
  PROVE  PushInv'
<1>1. /\ TypeOK /\ adding' \subseteq adding
      /\ now' \in Time /\ now' >= now /\ trouble' \in 0..MaxTrouble /\ trouble' >= trouble
      /\ UNCHANGED <<appt, job, pass, moves, added, sent, repeated>>
  <2>1. TypeOK /\ now \in Time /\ now \in Nat /\ trouble \in 0..MaxTrouble
    BY Numbers DEF PushInv, TypeOK
  <2>2. CASE Tick
    BY <2>1, <2>2, Numbers DEF Tick, Time, history
  <2>3. CASE \E a \in Appt, s \in Time : LosePush(a, s)
    BY <2>1, <2>3, Numbers DEF LosePush, Fails, history
  <2> QED
    BY <2>2, <2>3
<1>2. trouble' \in Nat /\ now' \in Nat
  BY <1>1, Numbers
<1>3. TypeOK'
  BY <1>1 DEF TypeOK
<1>4. ASSUME NEW p \in Pass PROVE PassOK(p)'
  BY <1>1, <1>2, PassesKept DEF PushInv
<1>5. ASSUME NEW a \in Appt PROVE VisitOK(a)'
  BY <1>1, <1>2, VisitKept DEF PushInv
<1> QED
  BY <1>3, <1>4, <1>5 DEF PushInv

-----------------------------------------------------------------------------
(* The invariant, and what follows from it                                 *)

\* The invariant holds in every reachable state.
THEOREM PushInvariant == Spec => []PushInv
<1>1. Init => PushInv
  <2> SUFFICES ASSUME Init PROVE PushInv
    OBVIOUS
  <2>1. Blank \in [Appt -> Row] /\ \A a \in Appt : Blank[a].status = "NONE"
    BY Numbers, PushConstants DEF Blank, Row, Time, PushConstants
  <2>2. /\ AtRest(Blank) \in Sweeper
        /\ AtRest(Blank).at = "idle" /\ AtRest(Blank).todo = {}
    BY <2>1 DEF AtRest, Sweeper, PassAt
  <2>3. TypeOK
    <3>1. now \in Time /\ trouble \in 0..MaxTrouble /\ 0 \in 0..MaxMoves
      BY Numbers DEF Init, Time
    <3> QED
      BY <2>1, <2>2, <3>1, NoJobType DEF Init, TypeOK
  <2>4. \A p \in Pass : PassOK(p)
    BY <2>2 DEF Init, PassOK
  <2>5. \A a \in Appt : VisitOK(a)
    BY NoJobType DEF Init, VisitOK, OnTime
  <2> QED
    BY <2>3, <2>4, <2>5 DEF PushInv
<1>2. PushInv /\ [Next]_vars => PushInv'
  <2> SUFFICES ASSUME PushInv, [Next]_vars PROVE PushInv'
    OBVIOUS
  <2>1. CASE UNCHANGED vars
    BY <2>1 DEF vars, history, PushInv, TypeOK, PassOK, VisitOK, OnTime, Confirmed
  <2>2. ASSUME NEW p \in Pass, StartPass(p) \/ Sync(p) \/ TimeOut(p) \/ Abort(p)
        PROVE  PushInv'
    BY <2>2, StartPassStep, ClearStep, CompareStep, RemoveStep, AddStep, GiveUpStep DEF Sync
  <2> QED
    BY <2>1, <2>2, BookStep, EnqueueStep, MoveStep, CloseStep, RunStep, FailRunStep,
       LoseJobStep, OutsideStep DEF Next
<1> QED
  BY <1>1, <1>2, PTL DEF Spec

\* Rows, jobs and passes keep their types, for any number of them.
THEOREM TypeCorrect == Spec => []TypeOK
<1>1. PushInv => TypeOK
  BY DEF PushInv
<1> QED
  BY <1>1, PushInvariant, PTL

\* A visit that was never moved is announced once at most, however many passes
\* and late calls set its job up again (syncPushReminder, queue.ts).
THEOREM AnnouncedOnce == Spec => []OneReminder
<1>1. PushInv => OneReminder
  BY OfVisit DEF PushInv, VisitOK, OnTime, OneReminder
<1> QED
  BY <1>1, PushInvariant, PTL

\* While nothing fails no pass takes away the job of a visit that was never moved,
\* however the calls of overlapping passes interleave (push-sync.ts).
THEOREM PassesTakeNothing == Spec => []RemindersStay
<1>1. PushInv => RemindersStay
  BY DEF PushInv, VisitOK, OnTime, RemindersStay
<1> QED
  BY <1>1, PushInvariant, PTL
=============================================================================

---------------------------- MODULE InboxProofs -----------------------------
(***************************************************************************)
(* The summary of a conversation, proved for any messages, stamps and      *)
(* number of deliveries and imports at work.                               *)
(***************************************************************************)
EXTENDS Inbox, TLAPS

\* A process at work has a message, one that is to advance the summary has
\* stored it, and one at its second attempt at the thread will find it.
InCall ==
  \A p \in Recorder :
    /\ call[p].at # "idle" => call[p].mid \in Mid
    /\ call[p].at = "advance" => message[call[p].mid].stored
    /\ call[p].attempt = 1 => thread.exists /\ call[p].at # "create"

IInv == TypeOK /\ InCall /\ HandledCounts /\ SummaryBacked /\ NobodyLosesTwice

-----------------------------------------------------------------------------

LEMMA StampTime ==
  ASSUME NEW source \in Source, NEW m \in Mid
  PROVE  /\ Stamp(source, m) \in Stamps(m)
         /\ Stamp(source, m) \in Time
         /\ Stamp(source, m) \in Nat
<1>1. Stamp(source, m) \in Stamps(m)
  BY DEF Stamps
<1>2. Stamp(source, m) \in Nat
  BY InboxConstants DEF Stamp, Source
<1> QED BY <1>1, <1>2 DEF Time

LEMMA TimeOrder == \A t \in Time : t \in Int
BY StampTime DEF Time, Stamps, NoTime

\* Moving a process on changes nobody else.
LEMMA GotoType ==
  ASSUME TypeOK, NEW p \in Recorder, NEW at \in At, Goto(p, at)
  PROVE  /\ call' \in [Recorder -> Call]
         /\ call'[p].at = at /\ call'[p].mid = call[p].mid
         /\ call'[p].attempt = call[p].attempt
         /\ \A q \in Recorder : q # p => call'[q] = call[q]
<1>1. call \in [Recorder -> Call] /\ call[p] \in Call
  BY DEF TypeOK
<1>2. call'[p] = [call[p] EXCEPT !.at = at] /\ \A q \in Recorder : q # p => call'[q] = call[q]
  BY <1>1 DEF Goto
<1>3. call'[p] \in Call /\ call'[p].at = at /\ call'[p].mid = call[p].mid
        /\ call'[p].attempt = call[p].attempt
  BY <1>1, <1>2 DEF Call
<1>4. call' \in [Recorder -> Call]
  BY <1>1, <1>2, <1>3 DEF Goto
<1> QED BY <1>2, <1>3, <1>4

LEMMA LeaveType ==
  ASSUME TypeOK, NEW p \in Recorder, Leave(p)
  PROVE  /\ call' \in [Recorder -> Call]
         /\ call'[p].at = "idle" /\ call'[p].attempt = 0
         /\ \A q \in Recorder : q # p => call'[q] = call[q]
<1>1. call \in [Recorder -> Call]
  BY DEF TypeOK
<1>2. call'[p] = Resting /\ \A q \in Recorder : q # p => call'[q] = call[q]
  BY <1>1 DEF Leave
<1>3. Resting \in Call
  BY DEF Resting, Call, At, Source
<1>4. call' \in [Recorder -> Call]
  BY <1>1, <1>3 DEF Leave
<1> QED BY <1>2, <1>4 DEF Resting

\* What a step must give for the invariants of processes and summary to go on
\* when it leaves the summary fields of the thread alone.
LEMMA SummarySame ==
  ASSUME HandledCounts, SummaryBacked, UNCHANGED handled,
         thread'.lastMessageAt = thread.lastMessageAt,
         thread'.lastSender = thread.lastSender,
         \A m \in Mid : message[m].stored => message'[m].stored
  PROVE  HandledCounts' /\ SummaryBacked'
BY DEF HandledCounts, SummaryBacked

LEMMA FillType ==
  ASSUME TypeOK, NEW f \in Profile, Fill(f)
  PROVE  /\ thread' \in Thread
         /\ thread'.exists = thread.exists
         /\ thread'.lastMessageAt = thread.lastMessageAt
         /\ thread'.lastSender = thread.lastSender
<1>1. thread \in Thread
  BY DEF TypeOK
<1>2. CASE thread' = thread
  BY <1>1, <1>2
<1>3. CASE thread' = [thread EXCEPT !.profile = f]
  BY <1>1, <1>3 DEF Thread
<1> QED BY <1>2, <1>3 DEF Fill

-----------------------------------------------------------------------------
(* Initially                                                               *)

LEMMA InitInv == Init => IInv
<1> SUFFICES ASSUME Init PROVE IInv
  OBVIOUS
<1>1. Resting \in Call /\ Unknown \in Profile
  BY DEF Resting, Call, At, Source, Unknown, Profile, Label
<1>2. NoTime \in Time
  BY DEF Time
<1>3. thread \in Thread
  BY <1>1, <1>2 DEF Init, Thread
<1>4. message \in [Mid -> Message]
  BY <1>2 DEF Init, Message
<1>5. call \in [Recorder -> Call]
  BY <1>1 DEF Init
<1>6. TypeOK
  <2>1. 0 \in 0..MaxRuns
    BY InboxConstants
  <2>2. job \in {"none", "wait", "fetch"} /\ fetched \in Profile /\ clashed \in BOOLEAN
    BY <1>1 DEF Init
  <2>3. runs \in 0..MaxRuns /\ handled \subseteq Source \X Mid
    BY <2>1 DEF Init
  <2> QED BY <1>3, <1>4, <1>5, <2>2, <2>3 DEF TypeOK
<1>7. InCall
  <2>1. ASSUME NEW p \in Recorder
        PROVE  call[p].at = "idle" /\ call[p].attempt = 0
    <3>1. call[p] = Resting
      BY <2>1 DEF Init
    <3> QED BY <3>1 DEF Resting
  <2> QED BY <2>1 DEF InCall
<1>8. HandledCounts /\ SummaryBacked /\ NobodyLosesTwice
  <2>1. handled = {} /\ thread.lastMessageAt = NoTime /\ clashed = FALSE
    BY DEF Init
  <2> QED BY <2>1 DEF HandledCounts, SummaryBacked, NobodyLosesTwice
<1> QED BY <1>6, <1>7, <1>8 DEF IInv

-----------------------------------------------------------------------------
(* The steps of recordIgMessage                                            *)

LEMMA ReceiveStep ==
  ASSUME IInv, NEW p \in Recorder, NEW source \in Source, NEW m \in Mid,
         Receive(p, source, m)
  PROVE  IInv'
<1>1. TypeOK /\ InCall /\ HandledCounts /\ SummaryBacked /\ NobodyLosesTwice
  BY DEF IInv
<1> DEFINE new == [at |-> "ensure", source |-> source, mid |-> m, attempt |-> 0]
<1>2. new \in Call
  BY DEF Call, At
<1>3. /\ call' \in [Recorder -> Call]
      /\ call'[p] = new
      /\ \A q \in Recorder : q # p => call'[q] = call[q]
  BY <1>1, <1>2 DEF Receive, TypeOK
<1>4. TypeOK'
  BY <1>1, <1>3 DEF Receive, TypeOK
<1>5. InCall'
  BY <1>1, <1>3 DEF Receive, InCall
<1>6. (HandledCounts /\ SummaryBacked /\ NobodyLosesTwice)'
  BY <1>1 DEF Receive, HandledCounts, SummaryBacked, NobodyLosesTwice
<1> QED BY <1>4, <1>5, <1>6 DEF IInv

\* A step that moves p on and writes nothing that the others rely on.
LEMMA QuietGoto ==
  ASSUME IInv, NEW p \in Recorder, NEW at \in At \ {"advance"}, Goto(p, at),
         call[p].at # "idle",
         at = "create" => ~thread.exists,
         UNCHANGED <<thread, message, job, fetched, runs, handled, clashed>>
  PROVE  IInv'
<1>1. TypeOK /\ InCall /\ HandledCounts /\ SummaryBacked /\ NobodyLosesTwice
  BY DEF IInv
<1>2. TypeOK'
  BY <1>1, GotoType DEF TypeOK
<1>3. InCall'
  BY <1>1, GotoType DEF InCall
<1>4. (HandledCounts /\ SummaryBacked /\ NobodyLosesTwice)'
  BY <1>1 DEF HandledCounts, SummaryBacked, NobodyLosesTwice
<1> QED BY <1>2, <1>3, <1>4 DEF IInv

LEMMA QuietLeave ==
  ASSUME IInv, NEW p \in Recorder, Leave(p),
         UNCHANGED <<thread, message, fetched, runs, handled, clashed>>,
         job' \in {"none", "wait", "fetch"}
  PROVE  IInv'
<1>1. TypeOK /\ InCall /\ HandledCounts /\ SummaryBacked /\ NobodyLosesTwice
  BY DEF IInv
<1>2. TypeOK'
  BY <1>1, LeaveType DEF TypeOK
<1>3. InCall'
  BY <1>1, LeaveType DEF InCall
<1>4. (HandledCounts /\ SummaryBacked /\ NobodyLosesTwice)'
  BY <1>1 DEF HandledCounts, SummaryBacked, NobodyLosesTwice
<1> QED BY <1>2, <1>3, <1>4 DEF IInv

LEMMA LookUpStep ==
  ASSUME IInv, NEW p \in Recorder, LookUpThread(p)
  PROVE  IInv'
<1>1. CASE thread.exists
  BY <1>1, QuietGoto DEF LookUpThread, At
<1>2. CASE ~thread.exists
  BY <1>2, QuietGoto DEF LookUpThread, At
<1> QED BY <1>1, <1>2

LEMMA InsertStep ==
  ASSUME IInv, NEW p \in Recorder, InsertThread(p)
  PROVE  IInv'
<1>1. TypeOK /\ InCall /\ HandledCounts /\ SummaryBacked /\ NobodyLosesTwice
  BY DEF IInv
<1>2. Goto(p, "store") /\ "store" \in At
  BY DEF InsertThread, At
<1>3. /\ call' \in [Recorder -> Call]
      /\ call'[p].at = "store" /\ call'[p].mid = call[p].mid
      /\ \A q \in Recorder : q # p => call'[q] = call[q]
  BY <1>1, <1>2, GotoType
<1>4. /\ thread' \in Thread /\ thread'.exists
      /\ thread'.lastMessageAt = thread.lastMessageAt
      /\ thread'.lastSender = thread.lastSender
  BY <1>1 DEF InsertThread, TypeOK, Thread
<1>5. TypeOK'
  BY <1>1, <1>3, <1>4 DEF InsertThread, TypeOK
<1>6. InCall'
  BY <1>1, <1>3, <1>4 DEF InsertThread, InCall
<1>7. (HandledCounts /\ SummaryBacked)'
  BY <1>1, <1>4, SummarySame DEF InsertThread
<1> QED BY <1>1, <1>5, <1>6, <1>7 DEF InsertThread, IInv, NobodyLosesTwice

\* The thread is there at a second attempt, so that only a first one can lose.
LEMMA LoseStep ==
  ASSUME IInv, NEW p \in Recorder, LoseThreadRace(p)
  PROVE  IInv'
<1>1. TypeOK /\ InCall /\ HandledCounts /\ SummaryBacked /\ NobodyLosesTwice
  BY DEF IInv
<1>2. CASE call[p].attempt = 0
  <2>1. /\ call' = [call EXCEPT ![p] = [@ EXCEPT !.at = "ensure", !.attempt = 1]]
        /\ UNCHANGED <<thread, message, job, fetched, runs, handled, clashed>>
        /\ thread.exists /\ call[p].at = "create"
    BY <1>2 DEF LoseThreadRace
  <2>2. call \in [Recorder -> Call] /\ call[p] \in Call
    BY <1>1 DEF TypeOK
  <2>3. /\ call'[p] \in Call /\ call'[p].at = "ensure" /\ call'[p].mid = call[p].mid
        /\ \A q \in Recorder : q # p => call'[q] = call[q]
    BY <2>1, <2>2 DEF Call, At
  <2>4. call' \in [Recorder -> Call]
    BY <2>1, <2>2, <2>3
  <2>5. TypeOK'
    BY <1>1, <2>1, <2>4 DEF TypeOK
  <2>6. InCall'
    BY <1>1, <2>1, <2>3 DEF InCall
  <2>7. (HandledCounts /\ SummaryBacked /\ NobodyLosesTwice)'
    BY <1>1, <2>1 DEF HandledCounts, SummaryBacked, NobodyLosesTwice
  <2> QED BY <2>5, <2>6, <2>7 DEF IInv
<1>3. CASE call[p].attempt # 0
  <2>1. call[p] \in Call
    BY <1>1 DEF TypeOK
  <2>2. call[p].attempt = 1
    BY <1>3, <2>1 DEF Call
  <2> QED BY <1>1, <2>2 DEF LoseThreadRace, InCall
<1> QED BY <1>2, <1>3

LEMMA StoreStep ==
  ASSUME IInv, NEW p \in Recorder, StoreMessage(p)
  PROVE  IInv'
<1>1. TypeOK /\ InCall /\ HandledCounts /\ SummaryBacked /\ NobodyLosesTwice
  BY DEF IInv
<1> DEFINE m == call[p].mid
           source == call[p].source
           row == [stored |-> TRUE, sentAt |-> Stamp(source, m),
                   attach |-> source = "webhook" /\ m \in WithMedia]
<1>2. m \in Mid /\ source \in Source /\ message' = [message EXCEPT ![m] = row]
  <2>1. call[p] \in Call /\ call[p].at = "store"
    BY <1>1 DEF TypeOK, StoreMessage
  <2>2. source \in Source
    BY <2>1 DEF Call
  <2>3. m \in Mid
    BY <1>1, <2>1 DEF InCall
  <2> QED BY <2>2, <2>3 DEF StoreMessage
<1> HIDE DEF m, source
<1>3. row \in Message
  BY <1>2, StampTime DEF Message
<1>4. /\ message' \in [Mid -> Message]
      /\ message'[m].stored
      /\ \A n \in Mid : n # m => message'[n] = message[n]
  BY <1>1, <1>2, <1>3 DEF TypeOK
<1>5. \A n \in Mid : message[n].stored => message'[n].stored
  BY <1>4
<1>6. Goto(p, "advance") /\ "advance" \in At
  BY DEF StoreMessage, At
<1>7. /\ call' \in [Recorder -> Call]
      /\ call'[p].at = "advance" /\ call'[p].mid = m
      /\ call'[p].attempt = call[p].attempt
      /\ \A q \in Recorder : q # p => call'[q] = call[q]
  BY <1>1, <1>6, GotoType DEF m
<1>8. TypeOK'
  BY <1>1, <1>4, <1>7 DEF StoreMessage, TypeOK
<1>9. InCall'
  <2>1. UNCHANGED thread
    BY DEF StoreMessage
  <2>2. ASSUME NEW q \in Recorder, q # p
        PROVE  /\ call'[q].at # "idle" => call'[q].mid \in Mid
               /\ call'[q].at = "advance" => message'[call'[q].mid].stored
               /\ call'[q].attempt = 1 => thread'.exists /\ call'[q].at # "create"
    BY <1>1, <1>5, <1>7, <2>1, <2>2 DEF InCall
  <2>3. /\ call'[p].at # "idle" => call'[p].mid \in Mid
        /\ call'[p].at = "advance" => message'[call'[p].mid].stored
        /\ call'[p].attempt = 1 => thread'.exists /\ call'[p].at # "create"
    BY <1>1, <1>2, <1>4, <1>7, <2>1 DEF InCall
  <2> QED BY <2>2, <2>3 DEF InCall
<1>10. (HandledCounts /\ SummaryBacked)'
  BY <1>1, <1>5, SummarySame DEF StoreMessage
<1> QED BY <1>1, <1>8, <1>9, <1>10 DEF StoreMessage, IInv, NobodyLosesTwice

\* The summary only moves forward, onto a message that is stored.
LEMMA AdvanceStep ==
  ASSUME IInv, NEW p \in Recorder, AdvanceThread(p)
  PROVE  IInv'
<1>1. TypeOK /\ InCall /\ HandledCounts /\ SummaryBacked /\ NobodyLosesTwice
  BY DEF IInv
<1> DEFINE m == call[p].mid
           source == call[p].source
           stamp == Stamp(source, m)
<1>2. /\ m \in Mid /\ source \in Source /\ message[m].stored
      /\ thread' = IF thread.lastMessageAt <= stamp
                   THEN [thread EXCEPT !.lastMessageAt = stamp, !.lastSender = Sender(m)]
                   ELSE thread
      /\ handled' = handled \union {<<source, m>>}
  <2>1. call[p] \in Call /\ call[p].at = "advance"
    BY <1>1 DEF TypeOK, AdvanceThread
  <2>2. source \in Source
    BY <2>1 DEF Call
  <2>3. m \in Mid /\ message[m].stored
    BY <1>1, <2>1 DEF InCall
  <2> QED BY <2>2, <2>3 DEF AdvanceThread, SummaryAdvanced
<1> HIDE DEF m, source
<1>3. stamp \in Time /\ stamp \in Nat /\ stamp \in Stamps(m)
  BY <1>2, StampTime
<1> HIDE DEF stamp
<1>4. thread \in Thread /\ thread.lastMessageAt \in Int
  <2>1. thread \in Thread
    BY <1>1 DEF TypeOK
  <2> QED BY <2>1, TimeOrder DEF Thread
<1>5. Sender(m) \in {"ME", "LEAD"}
  BY DEF Sender
<1>6. /\ thread' \in Thread
      /\ thread'.exists = thread.exists
      /\ \/ /\ thread.lastMessageAt <= stamp
            /\ thread'.lastMessageAt = stamp
            /\ thread'.lastSender = Sender(m)
         \/ /\ ~(thread.lastMessageAt <= stamp)
            /\ thread' = thread
  BY <1>2, <1>3, <1>4, <1>5 DEF Thread
<1>7. /\ call' \in [Recorder -> Call]
      /\ call'[p].at # "advance"
      /\ call'[p].at # "idle" => call'[p].mid = m /\ call'[p].attempt = call[p].attempt
      /\ call'[p].at # "create"
      /\ call'[p].at = "idle" => call'[p].attempt = 0
      /\ \A q \in Recorder : q # p => call'[q] = call[q]
  <2>1. CASE Goto(p, "profile")
    BY <1>1, <2>1, GotoType DEF At, m
  <2>2. CASE Leave(p)
    BY <1>1, <2>2, LeaveType
  <2> QED BY <2>1, <2>2 DEF AdvanceThread
<1>8. TypeOK'
  <2>1. handled' \subseteq Source \X Mid
    BY <1>1, <1>2 DEF TypeOK
  <2> QED BY <1>1, <1>6, <1>7, <2>1 DEF AdvanceThread, TypeOK
<1>9. InCall'
  BY <1>1, <1>2, <1>6, <1>7 DEF AdvanceThread, InCall
<1>10. HandledCounts'
  <2>1. stamp <= thread'.lastMessageAt /\ thread.lastMessageAt <= thread'.lastMessageAt
    BY <1>3, <1>4, <1>6
  <2>2. thread'.lastMessageAt \in Int
    BY <1>3, <1>4, <1>6
  <2>3. ASSUME NEW h \in handled
        PROVE  Stamp(h[1], h[2]) <= thread'.lastMessageAt
    <3>1. h[1] \in Source /\ h[2] \in Mid
      BY <1>1 DEF TypeOK
    <3>2. Stamp(h[1], h[2]) \in Nat /\ Stamp(h[1], h[2]) <= thread.lastMessageAt
      BY <1>1, <3>1, StampTime DEF HandledCounts
    <3> QED BY <1>4, <2>1, <2>2, <3>2
  <2>4. Stamp(source, m) <= thread'.lastMessageAt
    BY <2>1 DEF stamp
  <2> QED BY <1>2, <2>3, <2>4 DEF HandledCounts
<1>11. SummaryBacked'
  <2>1. UNCHANGED message
    BY DEF AdvanceThread
  <2> QED BY <1>1, <1>2, <1>3, <1>6, <2>1 DEF SummaryBacked
<1> QED BY <1>1, <1>8, <1>9, <1>10, <1>11 DEF AdvanceThread, IInv, NobodyLosesTwice

-----------------------------------------------------------------------------
(* The profile                                                             *)

\* A step that writes the profile only.
LEMMA ProfileOnly ==
  ASSUME IInv, thread' \in Thread, thread'.exists = thread.exists,
         thread'.lastMessageAt = thread.lastMessageAt,
         thread'.lastSender = thread.lastSender,
         UNCHANGED <<message, handled, clashed>>
  PROVE  (HandledCounts /\ SummaryBacked /\ NobodyLosesTwice)'
BY SummarySame DEF IInv, NobodyLosesTwice

LEMMA ImportStep ==
  ASSUME IInv, NEW p \in Recorder, NEW handle \in Found, ImportHandle(p, handle)
  PROVE  IInv'
<1>1. TypeOK /\ InCall
  BY DEF IInv
<1>2. [username |-> handle, name |-> "none"] \in Profile
  BY DEF Profile, Label, Found
<1>3. /\ thread' \in Thread /\ thread'.exists = thread.exists
      /\ thread'.lastMessageAt = thread.lastMessageAt
      /\ thread'.lastSender = thread.lastSender
  BY <1>1, <1>2, FillType DEF ImportHandle
<1>4. /\ call' \in [Recorder -> Call]
      /\ call'[p].at = "idle" /\ call'[p].attempt = 0
      /\ \A q \in Recorder : q # p => call'[q] = call[q]
  BY <1>1, LeaveType DEF ImportHandle
<1>5. TypeOK'
  BY <1>1, <1>3, <1>4 DEF ImportHandle, TypeOK
<1>6. InCall'
  BY <1>1, <1>3, <1>4 DEF ImportHandle, InCall
<1> QED BY <1>3, <1>5, <1>6, ProfileOnly DEF ImportHandle, IInv

LEMMA WorkerStep ==
  ASSUME IInv,
         \/ \E username, name \in Found : StartProfileJob(username, name)
         \/ EndProfileJob
         \/ FailProfileJob
         \/ \E p \in Profile : CorrectByHand(p)
  PROVE  IInv'
<1>1. TypeOK /\ InCall
  BY DEF IInv
<1>2. /\ thread' \in Thread /\ thread'.exists = thread.exists
      /\ thread'.lastMessageAt = thread.lastMessageAt
      /\ thread'.lastSender = thread.lastSender
  <2>1. thread \in Thread /\ fetched \in Profile
    BY <1>1 DEF TypeOK
  <2>2. CASE UNCHANGED thread
    BY <2>1, <2>2
  <2>3. CASE EndProfileJob
    BY <1>1, <2>1, <2>3, FillType DEF EndProfileJob
  <2>4. CASE \E p \in Profile : CorrectByHand(p)
    <3>1. PICK p \in Profile : CorrectByHand(p)
      BY <2>4
    <3> QED BY <2>1, <3>1 DEF CorrectByHand, Thread
  <2> QED BY <2>2, <2>3, <2>4 DEF StartProfileJob, FailProfileJob
<1>3. UNCHANGED <<message, call, handled, clashed>>
  BY DEF StartProfileJob, EndProfileJob, FailProfileJob, CorrectByHand
<1>4. job' \in {"none", "wait", "fetch"} /\ fetched' \in Profile
  <2>1. Unknown \in Profile
    BY DEF Unknown, Profile, Label
  <2>2. CASE \E username, name \in Found : StartProfileJob(username, name)
    BY <1>1, <2>2 DEF StartProfileJob, TypeOK, Profile, Found, Label
  <2>3. CASE EndProfileJob \/ FailProfileJob
    BY <2>1, <2>3 DEF EndProfileJob, FailProfileJob
  <2>4. CASE \E p \in Profile : CorrectByHand(p)
    BY <1>1, <2>4 DEF CorrectByHand, TypeOK
  <2> QED BY <2>2, <2>3, <2>4
<1>5. runs' \in 0..MaxRuns
  <2>1. CASE \E username, name \in Found : StartProfileJob(username, name)
    BY <1>1, <2>1, InboxConstants DEF StartProfileJob, TypeOK
  <2>2. CASE UNCHANGED runs
    BY <1>1, <2>2 DEF TypeOK
  <2> QED BY <2>1, <2>2 DEF EndProfileJob, FailProfileJob, CorrectByHand
<1>6. TypeOK'
  BY <1>1, <1>2, <1>3, <1>4, <1>5 DEF TypeOK
<1>7. InCall'
  BY <1>1, <1>2, <1>3 DEF InCall
<1> QED BY <1>2, <1>3, <1>6, <1>7, ProfileOnly DEF IInv

-----------------------------------------------------------------------------

LEMMA NextInv == IInv /\ [Next]_vars => IInv'
<1> SUFFICES ASSUME IInv, [Next]_vars PROVE IInv'
  OBVIOUS
<1>1. CASE UNCHANGED vars
  BY <1>1 DEF vars, IInv, TypeOK, InCall, HandledCounts, SummaryBacked, NobodyLosesTwice
<1>2. ASSUME NEW p \in Recorder, Record(p) PROVE IInv'
  <2>1. CASE \E source \in Source, m \in Mid : Receive(p, source, m)
    BY <2>1, ReceiveStep
  <2>2. CASE LookUpThread(p)
    BY <2>2, LookUpStep
  <2>3. CASE InsertThread(p)
    BY <2>3, InsertStep
  <2>4. CASE LoseThreadRace(p)
    BY <2>4, LoseStep
  <2>5. CASE StoreMessage(p)
    BY <2>5, StoreStep
  <2>6. CASE AdvanceThread(p)
    BY <2>6, AdvanceStep
  <2>7. CASE Fail(p)
    <3>1. job' \in {"none", "wait", "fetch"}
      BY <2>7 DEF Fail, IInv, TypeOK
    <3> QED BY <2>7, <3>1, QuietLeave DEF Fail
  <2>8. CASE EnqueueProfile(p)
    <3>1. job' \in {"none", "wait", "fetch"}
      BY <2>8 DEF EnqueueProfile, IInv, TypeOK
    <3> QED BY <2>8, <3>1, QuietLeave DEF EnqueueProfile
  <2>9. CASE \E handle \in Found : ImportHandle(p, handle)
    BY <2>9, ImportStep
  <2> QED BY <1>2, <2>1, <2>2, <2>3, <2>4, <2>5, <2>6, <2>7, <2>8, <2>9 DEF Record
<1>3. CASE \E username, name \in {thread.profile.username, thread.profile.name, "hand"} :
             CorrectByHand([username |-> username, name |-> name])
  <2>1. thread.profile.username \in Label /\ thread.profile.name \in Label
    BY DEF IInv, TypeOK, Thread, Profile
  <2>2. \E p \in Profile : CorrectByHand(p)
    <3>1. PICK username \in {thread.profile.username, thread.profile.name, "hand"},
               name \in {thread.profile.username, thread.profile.name, "hand"} :
                 CorrectByHand([username |-> username, name |-> name])
      BY <1>3
    <3>2. username \in Label /\ name \in Label
      BY <2>1 DEF Label
    <3>3. [username |-> username, name |-> name] \in Profile
      BY <3>2 DEF Profile
    <3> QED BY <3>1, <3>3
  <2> QED BY <2>2, WorkerStep
<1> QED BY <1>1, <1>2, <1>3, WorkerStep DEF Next

LEMMA Inductive == Spec => []IInv
<1> QED BY InitInv, NextInv, PTL DEF Spec

\* The state of a conversation keeps its types (ig-store.ts, worker/ig.ts).
THEOREM TypeCorrect == Spec => []TypeOK
<1>1. IInv => TypeOK
  BY DEF IInv
<1> QED BY <1>1, Inductive, PTL

\* The monotonic guard keeps the summary at or past every message that was
\* handed in to the end, in any order and with any number of repeats.
THEOREM SummaryKeepsUp == Spec => []HandledCounts
<1>1. IInv => HandledCounts
  BY DEF IInv
<1> QED BY <1>1, Inductive, PTL

\* A summary never stands without its message, whatever step a call died at.
THEOREM SummaryHasMessage == Spec => []SummaryBacked
<1>1. IInv => SummaryBacked
  BY DEF IInv
<1> QED BY <1>1, Inductive, PTL

\* One retry of the thread's upsert is enough for any number of deliveries.
THEOREM OneRetryIsEnough == Spec => []NobodyLosesTwice
<1>1. IInv => NobodyLosesTwice
  BY DEF IInv
<1> QED BY <1>1, Inductive, PTL

\* A known handle is safe from the worker and the import, whatever they read.
THEOREM FirstHandleWins == Spec => HandleKept
<1>1. [Next]_vars => [KeepsHandle]_vars
  <2> SUFFICES ASSUME Next PROVE KeepsHandle
    BY DEF vars, KeepsHandle
  <2>1. CASE \E p \in Recorder, handle \in Found : ImportHandle(p, handle)
    BY <2>1 DEF ImportHandle, Fill, KeepsHandle
  <2>2. CASE EndProfileJob
    BY <2>2 DEF EndProfileJob, Fill, KeepsHandle
  <2>3. CASE \E p \in Recorder : InsertThread(p)
    BY <2>3 DEF InsertThread, KeepsHandle
  <2>4. CASE \E p \in Recorder : AdvanceThread(p)
    BY <2>4 DEF AdvanceThread, SummaryAdvanced, KeepsHandle
  <2>5. CASE UNCHANGED thread
    BY <2>5 DEF KeepsHandle
  <2>6. CASE \E username, name \in {thread.profile.username, thread.profile.name, "hand"} :
               CorrectByHand([username |-> username, name |-> name])
    BY <2>6 DEF CorrectByHand, KeepsHandle
  <2> QED
    BY <2>1, <2>2, <2>3, <2>4, <2>5, <2>6
       DEF Next, Record, Receive, LookUpThread, LoseThreadRace, StoreMessage, Fail,
           EnqueueProfile, StartProfileJob, FailProfileJob
<1> QED BY <1>1, PTL DEF Spec, HandleKept
=============================================================================

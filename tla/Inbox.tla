------------------------------- MODULE Inbox --------------------------------
(***************************************************************************)
(* One Instagram Direct conversation: its thread row, its messages and the *)
(* lead's profile.                                                         *)
(*                                                                         *)
(* The webhook and the history import both store messages with             *)
(* recordIgMessage, one database statement per step; Meta delivers in      *)
(* parallel, late, out of order and more than once. The webhook answers    *)
(* 200 whatever happens, so a step that fails loses its event until        *)
(* something hands the message in again. Nothing of a thread is ever       *)
(* deleted. Every message carries a stamp of its own (an event without one *)
(* is dated at its receipt by the code; that is left out).                 *)
(***************************************************************************)
EXTENDS Integers, FiniteSets

CONSTANTS
  Recorder,  \* processes in recordIgMessage: deliveries and imports
  Mid,       \* Instagram message ids
  NoMessage, \* of a process at rest
  SentAt,    \* SentAt[m]: when m was sent, as the webhook stamps it
  CutAt,     \* CutAt[m]: the same in whole seconds, as Graph's REST API has it
  FromMe,    \* the messages the salon sent
  WithMedia, \* the messages that carry attachments
  MaxRuns    \* bound: runs of the profile job (one job id per lead and day)

ASSUME InboxConstants ==
  /\ NoMessage \notin Mid
  /\ SentAt \in [Mid -> Nat]
  /\ CutAt \in [Mid -> Nat]
  /\ FromMe \subseteq Mid
  /\ WithMedia \subseteq Mid
  /\ MaxRuns \in Nat

Source == {"webhook", "import"}

\* Graph's created_time is in whole seconds, the webhook's timestamp is not.
Stamp(source, m) == IF source = "import" THEN CutAt[m] ELSE SentAt[m]
Stamps(m)        == {Stamp(source, m) : source \in Source}
Sender(m)        == IF m \in FromMe THEN "ME" ELSE "LEAD"

NoTime  == -1
Time    == {NoTime} \union UNION {Stamps(m) : m \in Mid}

\* A name or @handle: not known, as Graph has it, or corrected by hand.
Label   == {"none", "graph", "hand"}
Profile == [username: Label, name: Label]

Thread  == [exists: BOOLEAN, lastMessageAt: Time, lastSender: {"none", "ME", "LEAD"},
            profile: Profile]
Message == [stored: BOOLEAN, sentAt: Time, attach: BOOLEAN]

\* "ensure" looks the thread up, "create" has missed it, "store" and "advance"
\* write the message and the summary, "profile" is what follows in the caller.
At   == {"idle", "ensure", "create", "store", "advance", "profile"}
Call == [at: At, source: Source, mid: Mid \union {NoMessage}, attempt: {0, 1}]

VARIABLES
  thread,   \* the IgThread row
  message,  \* message[m]: the IgMessage rows
  call,     \* call[p]: the processes
  job,      \* the profile job of the day: "none", "wait", or "fetch"
  fetched,  \* what a run of it got from Graph
  runs,     \* runs of it so far
  handled,  \* history: <<source, mid>> whose recordIgMessage returned
  clashed   \* history: a call gave up on the thread because another made it

store == <<thread, message>>
vars  == <<thread, message, call, job, fetched, runs, handled, clashed>>

Resting == [at |-> "idle", source |-> "webhook", mid |-> NoMessage, attempt |-> 0]
Unknown == [username |-> "none", name |-> "none"]

Init ==
  /\ thread  = [exists |-> FALSE, lastMessageAt |-> NoTime, lastSender |-> "none",
                profile |-> Unknown]
  /\ message = [m \in Mid |-> [stored |-> FALSE, sentAt |-> NoTime, attach |-> FALSE]]
  /\ call    = [p \in Recorder |-> Resting]
  /\ job     = "none"
  /\ fetched = Unknown
  /\ runs    = 0
  /\ handled = {}
  /\ clashed = FALSE

Leave(p)    == call' = [call EXCEPT ![p] = Resting]
Goto(p, at) == call' = [call EXCEPT ![p] = [@ EXCEPT !.at = at]]

-----------------------------------------------------------------------------
(* recordIgMessage                                                         *)

\* A delivery or an import hands in m: new, repeated, or an old one late.
Receive(p, source, m) ==
  /\ call[p].at = "idle"
  /\ call' = [call EXCEPT ![p] = [at |-> "ensure", source |-> source, mid |-> m,
                                  attempt |-> 0]]
  /\ UNCHANGED <<thread, message, job, fetched, runs, handled, clashed>>

\* Faulty variant: whatever comes last becomes the summary.
SummaryOverwritten(p) ==
  thread' = [thread EXCEPT !.lastMessageAt = Stamp(call[p].source, call[p].mid),
                           !.lastSender    = Sender(call[p].mid)]
\* Faulty variant: the thread is dated at the tick after its message.
SummaryRoundedUp(p) ==
  thread' = [thread EXCEPT !.lastMessageAt = Stamp(call[p].source, call[p].mid) + 1]
\* The monotonic guard, in the WHERE of the update: NoTime is the null.
SummaryAdvanced(p) ==
  LET stamp == Stamp(call[p].source, call[p].mid) IN
  thread' = IF thread.lastMessageAt <= stamp
            THEN [thread EXCEPT !.lastMessageAt = stamp, !.lastSender = Sender(call[p].mid)]
            ELSE thread

\* Faulty variant: the upsert of the thread carries the summary along.
SummaryInUpsert(p) ==
  /\ call[p].at = "ensure"
  /\ SummaryAdvanced(p)
  /\ Goto(p, IF thread.exists THEN "store" ELSE "create")
  /\ UNCHANGED <<message, job, fetched, runs, handled, clashed>>
\* ensureThread: the upsert finds the row or goes on to insert it.
LookUpThread(p) ==
  /\ call[p].at = "ensure"
  /\ Goto(p, IF thread.exists THEN "store" ELSE "create")
  /\ UNCHANGED <<thread, message, job, fetched, runs, handled, clashed>>

InsertThread(p) ==
  /\ call[p].at = "create"
  /\ ~thread.exists
  /\ thread' = [thread EXCEPT !.exists = TRUE]
  /\ Goto(p, "store")
  /\ UNCHANGED <<message, job, fetched, runs, handled, clashed>>

\* Faulty variant: a P2002 is an error like any other.
NoSecondAttempt(p) ==
  /\ call[p].at = "create"
  /\ thread.exists
  /\ Leave(p)
  /\ clashed' = TRUE
  /\ UNCHANGED <<thread, message, job, fetched, runs, handled>>
\* P2002: another call inserted it in between. One more attempt, then an error.
LoseThreadRace(p) ==
  /\ call[p].at = "create"
  /\ thread.exists
  /\ IF call[p].attempt = 0
     THEN /\ call' = [call EXCEPT ![p] = [@ EXCEPT !.at = "ensure", !.attempt = 1]]
          /\ UNCHANGED clashed
     ELSE /\ Leave(p)
          /\ clashed' = TRUE
  /\ UNCHANGED <<thread, message, job, fetched, runs, handled>>

\* The message upsert, by mid: a repeat rewrites attachments and stamp. The
\* import never asks Graph for attachments and hands in none.
StoreMessage(p) ==
  LET m == call[p].mid  source == call[p].source IN
  /\ call[p].at = "store"
  /\ message' = [message EXCEPT ![m] = [stored |-> TRUE, sentAt |-> Stamp(source, m),
                                        attach |-> source = "webhook" /\ m \in WithMedia]]
  /\ Goto(p, "advance")
  /\ UNCHANGED <<thread, job, fetched, runs, handled, clashed>>

AdvanceThread(p) ==
  /\ call[p].at = "advance"
  /\ SummaryAdvanced(p)
  /\ handled' = handled \union {<<call[p].source, call[p].mid>>}
  /\ IF call[p].source = "import" \/ call[p].mid \notin FromMe
     THEN Goto(p, "profile") ELSE Leave(p)
  /\ UNCHANGED <<message, job, fetched, runs, clashed>>

\* The database is down, or the process dies: what was written stays, and the
\* webhook has answered 200 all the same.
Fail(p) ==
  /\ call[p].at # "idle"
  /\ Leave(p)
  /\ UNCHANGED <<thread, message, job, fetched, runs, handled, clashed>>

-----------------------------------------------------------------------------
(* The lead's name                                                         *)

\* Faulty variant: the fields at hand are written whatever the row has.
FillAnyway(p) ==
  thread' = IF p = Unknown THEN thread ELSE [thread EXCEPT !.profile = p]
\* fillIgThreadProfile: nothing useful is a no-op, a known handle stays.
Fill(p) ==
  thread' = IF p = Unknown \/ ~thread.exists \/ thread.profile.username # "none"
            THEN thread ELSE [thread EXCEPT !.profile = p]

\* The webhook enqueues a lookup after an inbound message. The job id is that of
\* the day: an add while the job is there is ignored, and the best-effort add may
\* fail. Once a job has run, its id is free again on a later day.
EnqueueProfile(p) ==
  /\ call[p].at = "profile" /\ call[p].source = "webhook"
  /\ job' \in {job, IF job = "none" THEN "wait" ELSE job}
  /\ Leave(p)
  /\ UNCHANGED <<thread, message, fetched, runs, handled, clashed>>

\* The import has the @handle from the participants list, or has none; the name
\* it leaves out.
ImportHandle(p, handle) ==
  /\ call[p].at = "profile" /\ call[p].source = "import"
  /\ Fill([username |-> handle, name |-> "none"])
  /\ Leave(p)
  /\ UNCHANGED <<message, job, fetched, runs, handled, clashed>>

\* fillProfile: the worker reads the thread and is done when a handle is known;
\* otherwise it asks Graph, which may leave out either field.
StartProfileJob(username, name) ==
  /\ job = "wait"
  /\ runs < MaxRuns
  /\ runs' = runs + 1
  /\ IF ~thread.exists \/ thread.profile.username # "none"
     THEN /\ job' = "none"
          /\ UNCHANGED fetched
     ELSE /\ job' = "fetch"
          /\ fetched' = [username |-> username, name |-> name]
  /\ UNCHANGED <<thread, message, call, handled, clashed>>

EndProfileJob ==
  /\ job = "fetch"
  /\ Fill(fetched)
  /\ job' = "none"
  /\ fetched' = Unknown
  /\ UNCHANGED <<message, call, runs, handled, clashed>>

\* A run that fails is retried, and is forgotten after its last attempt.
FailProfileJob ==
  /\ job = "fetch"
  /\ job' \in {"none", "wait"}
  /\ fetched' = Unknown
  /\ UNCHANGED <<thread, message, call, runs, handled, clashed>>

\* Somebody corrects the row by hand; no code does.
CorrectByHand(p) ==
  /\ thread.exists
  /\ thread' = [thread EXCEPT !.profile = p]
  /\ UNCHANGED <<message, call, job, fetched, runs, handled, clashed>>

-----------------------------------------------------------------------------

Found == {"none", "graph"}

Record(p) ==
  \/ \E source \in Source, m \in Mid : Receive(p, source, m)
  \/ LookUpThread(p) \/ InsertThread(p) \/ LoseThreadRace(p)
  \/ StoreMessage(p) \/ AdvanceThread(p) \/ Fail(p)
  \/ EnqueueProfile(p)
  \/ \E handle \in Found : ImportHandle(p, handle)

Next ==
  \/ \E p \in Recorder : Record(p)
  \/ \E username, name \in Found : StartProfileJob(username, name)
  \/ EndProfileJob \/ FailProfileJob
  \/ \E username, name \in {thread.profile.username, thread.profile.name, "hand"} :
       CorrectByHand([username |-> username, name |-> name])

Spec == Init /\ [][Next]_vars

-----------------------------------------------------------------------------
(* Properties                                                              *)

\* The thread, its messages and calls keep their types: a stored time is one that
\* a webhook or an import stamps.
TypeOK ==
  /\ thread  \in Thread
  /\ message \in [Mid -> Message]
  /\ call    \in [Recorder -> Call]
  /\ job     \in {"none", "wait", "fetch"}
  /\ fetched \in Profile
  /\ runs    \in 0..MaxRuns
  /\ handled \subseteq Source \X Mid
  /\ clashed \in BOOLEAN

\* The summary the inbox is ordered by never falls behind a message that was
\* handed in to the end, in whatever order deliveries and imports arrive ("an
\* unconditional write would drag a thread's lastMessageAt into the past",
\* ig-store.ts).
HandledCounts ==
  \A h \in handled : Stamp(h[1], h[2]) <= thread.lastMessageAt

\* The summary speaks of a message that is in the table, from that sender: a
\* call that dies half-way never leaves a summary without its message.
SummaryBacked ==
  thread.lastMessageAt # NoTime =>
    \E m \in Mid : /\ message[m].stored
                   /\ thread.lastSender = Sender(m)
                   /\ thread.lastMessageAt \in Stamps(m)

\* Deliveries that both miss a new conversation never fail each other ("the
\* loser gets P2002; retry once and the second pass finds what the winner
\* wrote"): a thread never disappears, so the second attempt cannot lose too.
NobodyLosesTwice == ~clashed

KeepsHandle ==
  thread.profile.username # "none" /\ thread'.profile # thread.profile
    => UNCHANGED <<call, job>>

\* Once the handle is known only a correction by hand changes the profile, also
\* when it became known between the read and the write of the worker or of an
\* import ("first value wins, and a later pass never clobbers it").
HandleKept == [][KeepsHandle]_vars

\* Handing a message in again loses nothing of it ("letting the later read fill
\* in the blanks is strictly better than pinning whatever landed first").
MediaKept == [][\A m \in Mid : message[m].attach => message'[m].attach]_vars
=============================================================================

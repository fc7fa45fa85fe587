------------------------------- MODULE Widget -------------------------------
(***************************************************************************)
(* The booking widget of a salon page: a customer walks through the steps, *)
(* may re-open any completed one, and submits; the free times come from a  *)
(* fetch that a React effect starts whenever what it depends on changes    *)
(* while the time step is open.  Answers arrive late, in any order, or     *)
(* never.  The contact form is taken as filled in, and the salon as one    *)
(* that does not ask who the visit is for (no gender step).  An effect is  *)
(* part of the step that makes its dependencies change.                    *)
(***************************************************************************)
EXTENDS Naturals, Sequences, FiniteSets, SequencesExt

CONSTANTS Service,     \* what the salon sells
          WithAddons,  \* the services that have add-ons
          Employee, Day,
          Time,        \* the times of a day that may be offered
          MaxPeople,   \* MAX_PEOPLE_PER_BOOKING
          MaxFetches,  \* bound on the availability fetches in flight
          MaxLost,     \* bound on the answers to a submission that are lost
          None

ASSUME Catalog ==
  /\ WithAddons \subseteq Service
  /\ MaxPeople \in Nat \ {0}
  /\ MaxLost \in Nat

VARIABLES ui,          \* the customer's choices and the index of the open step
          slots,       \* the choice the listed times were fetched for, or None
          loading,     \* slotsLoading
          failed,      \* slotsError: the choice whose times did not load, or None
          fetches,     \* availability fetches in flight
          submitting,  \* the submit button is off
          posts,       \* POSTs to /book in flight
          done,        \* what the success screen says of the day and the time
          booked,      \* the server's appointments for this customer
          lost,        \* answers lost so far
          strayed      \* history: a 409 met choices changed since the submission

server == <<booked, lost>>
vars == <<ui, slots, loading, failed, fetches, submitting, posts, done, server, strayed>>

\* stepsFor.
Steps(svc) ==
  <<"service">> \o (IF svc \in WithAddons THEN <<"addons">> ELSE <<>>)
    \o <<"employee", "date", "time", "contact">>

\* indexOf: 0 when the list has no such step.
Index(svc, key) ==
  IF Contains(Steps(svc), key) THEN CHOOSE i \in 1..Len(Steps(svc)) : Steps(svc)[i] = key
  ELSE 0

\* The open step; an index beside the list opens nothing.
Open(u) == IF u.current \in 1..Len(Steps(u.svc)) THEN Steps(u.svc)[u.current] ELSE "nothing"

\* What a list of free times depends on: the effect's query parameters.
Choice(u) == [svc |-> u.svc, extra |-> u.extra, emp |-> u.emp, day |-> u.day,
              people |-> u.people]

Chosen == [svc : Service \union {None}, extra : BOOLEAN, emp : Employee \union {None},
           day : Day \union {None}, people : 1..MaxPeople]
Slot   == [of : Chosen, time : Time]
UI     == [svc : Service \union {None}, extra : BOOLEAN, emp : Employee \union {None},
           day : Day \union {None}, people : 1..MaxPeople, slot : Slot \union {None},
           current : 1..6]
Appointment == [emp : Employee, day : Day, time : Time]
Post   == [choice : Chosen, slot : Slot, at : {"sent", "booked"}]
Shown  == [day : Day \union {None}, slot : Slot]

ASSUME NoneIsNoValue == None \notin Service \union Employee \union Day \union Chosen \union Shown

\* The form keeps its types, and some step is open whatever service is picked:
\* the index lies within the list of steps of the service as it now is.
TypeOK ==
  /\ ui \in UI /\ Open(ui) # "nothing"
  /\ slots \in Chosen \union {None}
  /\ loading \in BOOLEAN
  /\ failed \in Chosen \union {None}
  /\ fetches \subseteq [of : Chosen, live : BOOLEAN]
  /\ submitting \in BOOLEAN
  /\ posts \subseteq Post
  /\ done \in Shown \union {None}
  /\ booked \subseteq Appointment
  /\ lost \in 0..MaxLost
  /\ strayed \in BOOLEAN

Blank == [svc |-> None, extra |-> FALSE, emp |-> None, day |-> None, people |-> 1,
          slot |-> None, current |-> 1]

\* "Book again" opens on the service of the last visit, and on its master.
Preset(svc, emp) ==
  [Blank EXCEPT !.svc = svc, !.emp = emp,
                !.current = IF svc \in WithAddons THEN Index(svc, "addons")
                            ELSE IF emp = None THEN Index(svc, "employee")
                            ELSE Index(svc, "date")]

Init ==
  /\ ui \in {Blank} \union {Preset(svc, emp) : svc \in Service, emp \in Employee \union {None}}
  /\ slots = None /\ loading = FALSE /\ failed = None
  /\ fetches = {}
  /\ submitting = FALSE /\ posts = {}
  /\ done = None
  /\ booked = {} /\ lost = 0
  /\ strayed = FALSE

-----------------------------------------------------------------------------
(* The effect that loads the times. *)

Loads(u) == Open(u) = "time" /\ u.svc # None /\ u.emp # None /\ u.day # None

Cancelled == {[f EXCEPT !.live = FALSE] : f \in fetches}

\* The state moves to u.  If a dependency changed, or a reload is forced, the
\* old fetch is cancelled, and a new one is made when the time step is open on a
\* complete choice; otherwise the list stays what it was.
Render(u, reload) ==
  /\ ui' = u
  /\ IF ~reload /\ Open(u) = Open(ui) /\ Choice(u) = Choice(ui)
     THEN UNCHANGED <<slots, loading, failed, fetches>>
     ELSE IF Loads(u)
     THEN /\ fetches' = Cancelled \union {[of |-> Choice(u), live |-> TRUE]}
          /\ slots' = None /\ loading' = TRUE /\ failed' = None
     ELSE fetches' = Cancelled /\ UNCHANGED <<slots, loading, failed>>
  /\ Cardinality(fetches') <= MaxFetches

\* Faulty variant: the answer to a cancelled fetch counts too.
HeardAlways(f) == TRUE

\* Only the fetch that was not cancelled may touch the state.
Heard(f) == f.live

TimesArrive(f) ==
  /\ f \in fetches
  /\ fetches' = fetches \ {f}
  /\ IF Heard(f) THEN slots' = f.of /\ loading' = FALSE ELSE UNCHANGED <<slots, loading>>
  /\ UNCHANGED <<ui, failed, submitting, posts, done, server, strayed>>

TimesFail(f) ==
  /\ f \in fetches
  /\ fetches' = fetches \ {f}
  /\ IF Heard(f) THEN slots' = None /\ failed' = f.of /\ loading' = FALSE
     ELSE UNCHANGED <<slots, failed, loading>>
  /\ UNCHANGED <<ui, submitting, posts, done, server, strayed>>

-----------------------------------------------------------------------------
(* The customer. *)

Acts(u, reload) ==
  /\ done = None
  /\ Render(u, reload)
  /\ UNCHANGED <<submitting, posts, done, server, strayed>>

EditStep(i) == i < ui.current /\ Acts([ui EXCEPT !.current = i], FALSE)

ExtrasOrMaster(svc) == IF svc \in WithAddons THEN "addons" ELSE "employee"

\* Faulty variant: the index is read from the steps of this render.
AfterServiceStale(svc) == Index(ui.svc, ExtrasOrMaster(svc))

\* The next index is read from the new service's steps, not this render's.
AfterService(svc) == Index(svc, ExtrasOrMaster(svc))

PickService(svc) ==
  /\ Open(ui) = "service"
  /\ Acts([ui EXCEPT !.svc = svc, !.extra = FALSE, !.emp = None, !.day = None, !.slot = None,
                     !.current = AfterService(svc)], FALSE)

ToggleAddon ==
  /\ Open(ui) = "addons"
  /\ Acts([ui EXCEPT !.extra = ~@, !.day = None, !.slot = None], FALSE)

ConfirmAddons ==
  /\ Open(ui) = "addons"
  /\ Acts([ui EXCEPT !.current = Index(ui.svc, "employee")], FALSE)

PickEmployee(emp) ==
  /\ Open(ui) = "employee"
  /\ Acts([ui EXCEPT !.emp = emp, !.day = None, !.slot = None,
                     !.current = Index(ui.svc, "date")], FALSE)

ChangePeople(n) ==
  /\ Open(ui) = "date"
  /\ n \in 1..MaxPeople /\ n # ui.people
  /\ Acts([ui EXCEPT !.people = n, !.slot = None], FALSE)

PickDate(day) ==
  /\ Open(ui) = "date"
  /\ Acts([ui EXCEPT !.day = day, !.slot = None, !.current = Index(ui.svc, "time")], FALSE)

PickTime(time) ==
  /\ Open(ui) = "time"
  /\ ~loading /\ slots # None
  /\ Acts([ui EXCEPT !.slot = [of |-> slots, time |-> time],
                     !.current = Index(ui.svc, "contact")], FALSE)

\* The retry button under "could not load".
Retry == Open(ui) = "time" /\ ~loading /\ failed # None /\ Acts(ui, TRUE)

\* Faulty variant: the button stays on.
MaySubmitAgain == TRUE

\* The button is off while a submission is under way.
MaySubmit == ~submitting

Submit ==
  /\ done = None /\ Open(ui) = "contact" /\ MaySubmit
  /\ ui.slot # None /\ ui.svc # None /\ ui.emp # None
  /\ Cardinality(posts) < 2
  /\ submitting' = TRUE
  /\ posts' = posts \union {[choice |-> Choice(ui), slot |-> ui.slot, at |-> "sent"]}
  /\ UNCHANGED <<ui, slots, loading, failed, fetches, done, server, strayed>>

-----------------------------------------------------------------------------
(* The server.  A refusal changes nothing there, so only a booking is a step: *)
(* a 409, for an appointment of this customer or of anyone, or another error  *)
(* is taken as given when it arrives.                                         *)

\* The request names the master and the moment, the chosen slot's own day and time.
Asked(p) == [emp |-> p.choice.emp, day |-> p.slot.of.day, time |-> p.slot.time]

ServerBooks(p) ==
  /\ p \in posts /\ p.at = "sent"
  /\ Asked(p) \notin booked
  /\ booked' = booked \union {Asked(p)}
  /\ posts' = (posts \ {p}) \union {[p EXCEPT !.at = "booked"]}
  /\ UNCHANGED <<ui, slots, loading, failed, fetches, submitting, done, lost, strayed>>

-----------------------------------------------------------------------------
(* The rest of submit(), run when its answer arrives.  It works with the     *)
(* step list and the labels of the render it was started from.               *)

Accepted(p) ==
  /\ p \in posts /\ p.at = "booked"
  /\ posts' = posts \ {p}
  /\ submitting' = FALSE
  /\ done' = [day |-> p.choice.day, slot |-> p.slot]
  /\ UNCHANGED <<ui, slots, loading, failed, fetches, server, strayed>>

\* 409: back to the time step with a forced reload.
BackToTime(p) == [ui EXCEPT !.slot = None, !.current = Index(p.choice.svc, "time")]

SlotTaken(p) ==
  /\ p \in posts /\ p.at = "sent"
  /\ posts' = posts \ {p}
  /\ submitting' = FALSE
  /\ Render(BackToTime(p), TRUE)
  /\ strayed' = (strayed \/ Choice(ui) # p.choice)
  /\ UNCHANGED <<done, server>>

\* Any other refusal shows a message and leaves the form as it is.
Refused(p) ==
  /\ p \in posts /\ p.at = "sent"
  /\ posts' = posts \ {p}
  /\ submitting' = FALSE
  /\ UNCHANGED <<ui, slots, loading, failed, fetches, done, server, strayed>>

\* The connection breaks before the server has seen the request, or after.
NetworkFails(p) ==
  /\ p \in posts /\ lost < MaxLost
  /\ posts' = posts \ {p}
  /\ lost' = lost + 1
  /\ submitting' = FALSE
  /\ UNCHANGED <<ui, slots, loading, failed, fetches, done, booked, strayed>>

Customer ==
  \/ \E i \in 1..5 : EditStep(i)
  \/ \E svc \in Service : PickService(svc)
  \/ ToggleAddon \/ ConfirmAddons
  \/ \E emp \in Employee : PickEmployee(emp)
  \/ \E n \in 1..MaxPeople : ChangePeople(n)
  \/ \E day \in Day : PickDate(day)
  \/ \E time \in Time : PickTime(time)
  \/ Retry \/ Submit

Arrival ==
  \/ \E f \in fetches : TimesArrive(f) \/ TimesFail(f)
  \/ \E p \in posts : Accepted(p) \/ SlotTaken(p) \/ Refused(p) \/ NetworkFails(p)

Server == \E p \in posts : ServerBooks(p)

Next == Customer \/ Arrival \/ Server

Spec == Init /\ [][Next]_vars

-----------------------------------------------------------------------------
(* Properties. *)

\* What the time step shows is about the present choice: a spinner with a fetch
\* for it behind, or its times, or the failure to load them and no times beside.
TellsTheTruth ==
  Open(ui) = "time" =>
    IF loading THEN \E f \in fetches : f.live /\ f.of = Choice(ui)
    ELSE IF failed # None THEN failed = Choice(ui) /\ slots = None
    ELSE slots = Choice(ui)

\* So it is however slow and disordered the fetches are, unless a 409 came in
\* for a choice the customer had meanwhile changed.
TimesAreCurrent == ~strayed => TellsTheTruth

\* The chosen time was offered for exactly the service, add-ons, master, day and
\* party now chosen, and for exactly what a submission in flight asks for.
SlotFitsChoice ==
  ~strayed => /\ ui.slot # None => ui.slot.of = Choice(ui)
              /\ \A p \in posts : p.slot.of = p.choice

\* One visit books one appointment, and one more for each answer the customer
\* never saw: nothing else makes the server take the same customer twice.
OneBookingPerAnswer == Cardinality(booked) <= 1 + lost
=============================================================================

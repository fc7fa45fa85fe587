---------------------------- MODULE WidgetProofs -----------------------------
(***************************************************************************)
(* What the booking widget keeps to for any catalog, any number of people, *)
(* and however many fetches and answers are late, lost or out of order.    *)
(***************************************************************************)
EXTENDS Widget, FiniteSetTheorems, SequenceTheorems, TLAPS

\* A choice that a list of times can be asked for.
Complete(c) == c.svc # None /\ c.emp # None /\ c.day # None

\* What lies before the open step has been chosen.
Filled(u) ==
  /\ u.current > 1 => u.svc # None
  /\ u.current > Index(u.svc, "employee") => u.emp # None
  /\ u.current > Index(u.svc, "date") => u.day # None

\* A fetch that still counts is for the present choice, and the list is waiting
\* for it.
Fetching ==
  /\ failed # None => slots = None
  /\ \A f \in fetches : f.live =>
       Open(ui) = "time" /\ f.of = Choice(ui) /\ loading /\ failed = None

\* No list of times was ever asked for an incomplete choice.
Listed ==
  /\ \A f \in fetches : Complete(f.of)
  /\ slots # None => Complete(slots)
  /\ ui.slot # None => Complete(ui.slot.of)
  /\ \A p \in posts : Complete(p.slot.of) /\ p.choice.emp # None

FormFits ==
  ~strayed => /\ Filled(ui)
              /\ ui.slot # None => ui.slot.of = Choice(ui)
              /\ TellsTheTruth

PostsFit == ~strayed => \A p \in posts : p.slot.of = p.choice /\ Complete(p.choice)

\* One submission at a time, and none after a success.
Alone ==
  /\ posts # {} => submitting /\ done = None
  /\ \A p, q \in posts : p = q

\* The answer to the last booking is on its way, has been seen, or was lost.
Answered == done # None \/ \E p \in posts : p.at = "booked"
Counted ==
  /\ IsFiniteSet(booked)
  /\ Cardinality(booked) <= IF Answered THEN lost + 1 ELSE lost

WidgetInv == TypeOK /\ Fetching /\ Listed /\ FormFits /\ PostsFit /\ Alone /\ Counted

-----------------------------------------------------------------------------
(* The list of steps.                                                      *)

Key == {"service", "addons", "employee", "date", "time", "contact"}

LEMMA Joined ==
  ASSUME NEW s \in Seq(Key), NEW t \in Seq(Key), NEW v \in Seq(Key),
         Len(v) = Len(s) + Len(t),
         \A i \in 1..Len(v) : v[i] = IF i <= Len(s) THEN s[i] ELSE t[i - Len(s)]
  PROVE  s \o t = v
BY ConcatProperties, SeqEqual

LEMMA StepsOfService ==
  ASSUME NEW svc
  PROVE  /\ svc \in WithAddons => Steps(svc) =
              <<"service", "addons", "employee", "date", "time", "contact">>
         /\ svc \notin WithAddons => Steps(svc) =
              <<"service", "employee", "date", "time", "contact">>
<1> USE DEF Key
<1>1. PICK rest : rest = <<"employee", "date", "time", "contact">>
  OBVIOUS
<1>2. rest \in Seq(Key) /\ Len(rest) = 4
  BY <1>1
<1>3. PICK one, two : one = <<"service">> /\ two = <<"service", "addons">>
  OBVIOUS
<1>4. one \in Seq(Key) /\ Len(one) = 1 /\ two \in Seq(Key) /\ Len(two) = 2
  BY <1>3
<1>5. CASE svc \in WithAddons
  <2>1. PICK extra, all :
          /\ extra = <<"addons">>
          /\ all = <<"service", "addons", "employee", "date", "time", "contact">>
    OBVIOUS
  <2>2. extra \in Seq(Key) /\ Len(extra) = 1 /\ all \in Seq(Key) /\ Len(all) = 6
    BY <2>1
  <2>3. one \o extra = two
    <3>1. \A i \in 1..2 : two[i] = IF i <= 1 THEN one[i] ELSE extra[i - 1]
      BY <1>3, <2>1
    <3>2. \A i \in 1..Len(two) : two[i] = IF i <= Len(one) THEN one[i] ELSE extra[i - Len(one)]
      BY <1>4, <2>2, <3>1
    <3>3. Len(two) = Len(one) + Len(extra)
      BY <1>2, <1>4, <2>2
    <3> HIDE DEF Key
    <3> QED BY <1>4, <2>2, <3>2, <3>3, Joined, Zenon
  <2>4. two \o rest = all
    <3>1. \A i \in 1..6 : all[i] = IF i <= 2 THEN two[i] ELSE rest[i - 2]
      BY <1>1, <1>3, <2>1
    <3>2. \A i \in 1..Len(all) : all[i] = IF i <= Len(two) THEN two[i] ELSE rest[i - Len(two)]
      BY <1>4, <2>2, <3>1
    <3>3. Len(all) = Len(two) + Len(rest)
      BY <1>2, <1>4, <2>2
    <3> HIDE DEF Key
    <3> QED BY <1>2, <1>4, <2>2, <3>2, <3>3, Joined, Zenon
  <2> QED BY <1>1, <1>3, <1>5, <2>1, <2>3, <2>4 DEF Steps
<1>6. CASE svc \notin WithAddons
  <2>1. PICK all : all = <<"service", "employee", "date", "time", "contact">>
    OBVIOUS
  <2>2. all \in Seq(Key) /\ Len(all) = 5
    BY <2>1
  <2>3. one \o << >> = one
    BY <1>4, ConcatEmptySeq
  <2>4. one \o rest = all
    <3>1. \A i \in 1..5 : all[i] = IF i <= 1 THEN one[i] ELSE rest[i - 1]
      BY <1>1, <1>3, <2>1
    <3>2. \A i \in 1..Len(all) : all[i] = IF i <= Len(one) THEN one[i] ELSE rest[i - Len(one)]
      BY <1>4, <2>2, <3>1
    <3>3. Len(all) = Len(one) + Len(rest)
      BY <1>2, <1>4, <2>2
    <3> HIDE DEF Key
    <3> QED BY <1>2, <1>4, <2>2, <3>2, <3>3, Joined, Zenon
  <2> QED BY <1>1, <1>3, <1>6, <2>1, <2>3, <2>4 DEF Steps
<1> QED BY <1>5, <1>6

\* Where each step stands, with and without add-ons.
LEMMA StepTable ==
  ASSUME NEW svc
  PROVE  /\ svc \in WithAddons =>
              /\ Index(svc, "service") = 1 /\ Index(svc, "addons") = 2
              /\ Index(svc, "employee") = 3 /\ Index(svc, "date") = 4
              /\ Index(svc, "time") = 5 /\ Index(svc, "contact") = 6
         /\ svc \notin WithAddons =>
              /\ Index(svc, "service") = 1
              /\ Index(svc, "employee") = 2 /\ Index(svc, "date") = 3
              /\ Index(svc, "time") = 4 /\ Index(svc, "contact") = 5
<1>1. CASE svc \in WithAddons
  BY <1>1, StepsOfService DEF Index, Contains
<1>2. CASE svc \notin WithAddons
  BY <1>2, StepsOfService DEF Index, Contains
<1> QED BY <1>1, <1>2

\* And which one a form has open.
LEMMA OpenTable ==
  ASSUME NEW u, u.current \in Nat
  PROVE  /\ Open(u) = "service"  <=> u.current = 1
         /\ Open(u) = "addons"   <=> u.svc \in WithAddons /\ u.current = 2
         /\ Open(u) = "employee" <=> u.current = Index(u.svc, "employee")
         /\ Open(u) = "date"     <=> u.current = Index(u.svc, "date")
         /\ Open(u) = "time"     <=> u.current = Index(u.svc, "time")
         /\ Open(u) = "contact"  <=> u.current = Index(u.svc, "contact")
<1>1. CASE u.svc \in WithAddons
  BY <1>1, StepsOfService, StepTable DEF Open
<1>2. CASE u.svc \notin WithAddons
  <2>1. PICK s : s = Steps(u.svc) /\ s = <<"service", "employee", "date", "time", "contact">>
    BY <1>2, StepsOfService
  <2>2. Len(s) = 5 /\ s[1] = "service" /\ s[2] = "employee" /\ s[3] = "date" /\ s[4] = "time"
        /\ s[5] = "contact"
    BY <2>1
  <2>3. Open(u) = IF u.current \in 1..5 THEN s[u.current] ELSE "nothing"
    BY <2>1, <2>2 DEF Open
  <2> QED BY <1>2, <2>2, <2>3, StepTable
<1> QED BY <1>1, <1>2

\* Some step is open as long as the index is within the list.
LEMMA SomeStepOpen ==
  ASSUME NEW u, u.current \in Nat
  PROVE  Open(u) # "nothing" <=> u.current \in 1..Index(u.svc, "contact")
<1>1. CASE u.svc \in WithAddons
  <2>1. PICK s : /\ s = Steps(u.svc)
                 /\ s = <<"service", "addons", "employee", "date", "time", "contact">>
    BY <1>1, StepsOfService
  <2>2. Len(s) = 6 /\ \A i \in 1..6 : s[i] # "nothing"
    BY <2>1
  <2> QED BY <1>1, <2>1, <2>2, StepTable DEF Open
<1>2. CASE u.svc \notin WithAddons
  <2>1. PICK s : s = Steps(u.svc) /\ s = <<"service", "employee", "date", "time", "contact">>
    BY <1>2, StepsOfService
  <2>2. Len(s) = 5 /\ \A i \in 1..5 : s[i] # "nothing"
    BY <2>1
  <2> QED BY <1>2, <2>1, <2>2, StepTable DEF Open
<1> QED BY <1>1, <1>2

\* The table in one line: where the steps stand relative to each other.
LEMMA StepOrder ==
  ASSUME NEW svc
  PROVE  \E n \in {1, 2} :
           /\ n = IF svc \in WithAddons THEN 2 ELSE 1
           /\ Index(svc, "employee") = n + 1 /\ Index(svc, "date") = n + 2
           /\ Index(svc, "time") = n + 3 /\ Index(svc, "contact") = n + 4
<1>1. CASE svc \in WithAddons  BY <1>1, StepTable
<1>2. CASE svc \notin WithAddons  BY <1>2, StepTable
<1> QED BY <1>1, <1>2

LEMMA CurrentIsNat ==
  ASSUME NEW u \in UI
  PROVE  u.current \in Nat /\ u.current >= 1
BY DEF UI

\* The time step opens, and the contact step stays open, on complete choices only.
LEMMA FilledIsComplete ==
  ASSUME NEW u \in UI, Filled(u), Open(u) \in {"time", "contact"}
  PROVE  Complete(Choice(u))
<1>1. u.current > 1 /\ u.current > Index(u.svc, "employee") /\ u.current > Index(u.svc, "date")
  BY CurrentIsNat, OpenTable, StepOrder
<1> QED BY <1>1 DEF Filled, Complete, Choice

\* A form that is filled in completely may stand at any step.
LEMMA CompleteIsFilled ==
  ASSUME NEW u, Complete(Choice(u))
  PROVE  Filled(u)
BY DEF Filled, Complete, Choice

-----------------------------------------------------------------------------
(* The effect.                                                             *)

\* However the form moves, the list of times follows it.
LEMMA RenderFollows ==
  ASSUME TypeOK, Fetching, NEW u \in UI, NEW reload \in BOOLEAN, Render(u, reload)
  PROVE  /\ slots' \in Chosen \union {None} /\ loading' \in BOOLEAN
         /\ failed' \in Chosen \union {None}
         /\ fetches' \subseteq [of : Chosen, live : BOOLEAN]
         /\ Fetching'
         /\ TellsTheTruth /\ (Open(u) = "time" => Complete(Choice(u))) => TellsTheTruth'
<1>1. /\ ui' = u /\ Open(ui)' = Open(u) /\ Choice(ui)' = Choice(u) /\ Choice(u) \in Chosen
      /\ Loads(u) <=> Open(u) = "time" /\ Complete(Choice(u))
  BY DEF Render, Open, Choice, Loads, Complete, UI, Chosen
<1>2. PICK c : c = Choice(u) /\ c \in Chosen
  BY <1>1
<1>3. CASE ~reload /\ Open(u) = Open(ui) /\ Choice(u) = Choice(ui)
  <2>1. UNCHANGED <<slots, loading, failed, fetches>>
    BY <1>3 DEF Render
  <2> QED BY <1>1, <1>3, <2>1 DEF TypeOK, Fetching, TellsTheTruth
<1>4. /\ Cancelled \subseteq [of : Chosen, live : BOOLEAN]
      /\ \A f \in Cancelled : f.live = FALSE
  BY DEF Cancelled, TypeOK
<1>5. CASE ~(~reload /\ Open(u) = Open(ui) /\ Choice(u) = Choice(ui)) /\ Loads(u)
  <2>1. /\ fetches' = Cancelled \union {[of |-> c, live |-> TRUE]}
        /\ slots' = None /\ loading' = TRUE /\ failed' = None
    BY <1>2, <1>5 DEF Render
  <2>2. [of |-> c, live |-> TRUE] \in [of : Chosen, live : BOOLEAN]
    BY <1>2
  <2>3. Fetching'
    BY <1>1, <1>2, <1>4, <1>5, <2>1 DEF Fetching
  <2>4. TellsTheTruth'
    <3>1. PICK f : f = [of |-> c, live |-> TRUE]
      OBVIOUS
    <3>2. f \in fetches' /\ f.live /\ f.of = c
      BY <2>1, <3>1
    <3> QED BY <1>1, <1>2, <2>1, <3>2 DEF TellsTheTruth
  <2> QED BY <1>4, <2>1, <2>2, <2>3, <2>4
<1>6. CASE ~(~reload /\ Open(u) = Open(ui) /\ Choice(u) = Choice(ui)) /\ ~Loads(u)
  <2>1. fetches' = Cancelled /\ UNCHANGED <<slots, loading, failed>>
    BY <1>6 DEF Render
  <2> QED BY <1>1, <1>4, <1>6, <2>1 DEF TypeOK, Fetching, TellsTheTruth
<1> QED BY <1>3, <1>5, <1>6

LEMMA RenderLists ==
  ASSUME Listed, NEW u, NEW reload \in BOOLEAN, Render(u, reload)
  PROVE  /\ \A f \in fetches' : Complete(f.of)
         /\ slots' # None => Complete(slots')
<1>1. \A f \in Cancelled : Complete(f.of)
  <2>1. ASSUME NEW g \in fetches PROVE Complete([g EXCEPT !.live = FALSE].of)
    <3>1. PICK c : c = g.of
      OBVIOUS
    <3>2. Complete(c)
      BY <3>1 DEF Listed
    <3>3. [g EXCEPT !.live = FALSE].of = c
      BY <3>1
    <3> QED BY <3>2, <3>3
  <2> QED BY <2>1 DEF Cancelled
<1>2. CASE ~(~reload /\ Open(u) = Open(ui) /\ Choice(u) = Choice(ui)) /\ Loads(u)
  <2>1. PICK c : c = Choice(u)
    OBVIOUS
  <2>2. Complete(c)
    BY <1>2, <2>1 DEF Loads, Complete, Choice
  <2>3. fetches' = Cancelled \union {[of |-> c, live |-> TRUE]} /\ slots' = None
    BY <1>2, <2>1 DEF Render
  <2> QED BY <1>1, <2>2, <2>3
<1>3. CASE ~(~reload /\ Open(u) = Open(ui) /\ Choice(u) = Choice(ui)) /\ ~Loads(u)
  <2>1. fetches' = Cancelled /\ UNCHANGED slots
    BY <1>3 DEF Render
  <2> QED BY <1>1, <2>1 DEF Listed, Complete
<1>4. CASE ~reload /\ Open(u) = Open(ui) /\ Choice(u) = Choice(ui)
  <2>1. UNCHANGED <<slots, fetches>>
    BY <1>4 DEF Render
  <2> QED BY <2>1 DEF Listed, Complete
<1> QED BY <1>2, <1>3, <1>4

\* A form that fits, or a customer who has strayed.
LEMMA FormMoves ==
  ASSUME TypeOK, Fetching, FormFits, NEW u \in UI, NEW reload \in BOOLEAN, Render(u, reload),
         strayed' \in BOOLEAN, strayed => strayed',
         ~strayed' => Filled(u) /\ (u.slot # None => u.slot.of = Choice(u))
  PROVE  Fetching' /\ FormFits'
<1>1. ui' = u /\ Filled(ui)' = Filled(u) /\ Choice(ui)' = Choice(u)
  BY DEF Render, Filled, Choice, Index, Steps
<1>2. ASSUME ~strayed' PROVE TellsTheTruth'
  <2>1. TellsTheTruth /\ Filled(u)
    BY <1>2 DEF FormFits
  <2>2. Open(u) = "time" => Complete(Choice(u))
    BY <2>1, FilledIsComplete
  <2> QED BY <2>1, <2>2, RenderFollows
<1> QED BY <1>1, <1>2, RenderFollows DEF FormFits

-----------------------------------------------------------------------------
(* The customer.                                                           *)

\* One move of the form, all else being left alone.
LEMMA MoveKeeps ==
  ASSUME WidgetInv, NEW u \in UI, NEW reload \in BOOLEAN, Acts(u, reload),
         Open(u) # "nothing", u.slot # None => Complete(u.slot.of),
         ~strayed => Filled(u) /\ (u.slot # None => u.slot.of = Choice(u))
  PROVE  WidgetInv'
<1>1. /\ Render(u, reload) /\ ui' = u
      /\ UNCHANGED <<submitting, posts, done, booked, lost, strayed>>
  BY DEF Acts, Render, server
<1>2. TypeOK'
  <2>1. Open(ui)' = Open(u)
    BY <1>1 DEF Open, Steps
  <2> QED BY <1>1, <2>1, RenderFollows DEF WidgetInv, TypeOK
<1>3. Fetching' /\ FormFits'
  BY <1>1, FormMoves DEF WidgetInv, TypeOK
<1>4. PostsFit' /\ Alone' /\ Counted'
  BY <1>1 DEF WidgetInv, PostsFit, Complete, Alone, Counted, Answered
<1>5. Listed'
  BY <1>1, RenderLists DEF WidgetInv, Listed, Complete
<1> QED BY <1>2, <1>3, <1>4, <1>5 DEF WidgetInv

LEMMA EditStepKeeps ==
  ASSUME WidgetInv, NEW i \in 1..5, EditStep(i)
  PROVE  WidgetInv'
<1>1. PICK u : u = [ui EXCEPT !.current = i]
  OBVIOUS
<1>2. Acts(u, FALSE) /\ i < ui.current
  BY <1>1 DEF EditStep
<1>3. /\ ui \in UI /\ u \in UI /\ u.current = i
      /\ u.svc = ui.svc /\ u.emp = ui.emp /\ u.day = ui.day /\ u.slot = ui.slot
      /\ Choice(u) = Choice(ui)
  BY <1>1 DEF WidgetInv, TypeOK, UI, Choice
<1>4. Filled(ui) => Filled(u)
  <2>1. ui.current \in Nat
    BY <1>3, CurrentIsNat
  <2> QED BY <1>2, <1>3, <2>1, StepOrder DEF Filled
<1>5. Open(u) # "nothing"
  <2>1. ui.current \in Nat /\ ui.current <= Index(ui.svc, "contact")
    BY <1>3, CurrentIsNat, SomeStepOpen, StepOrder DEF WidgetInv, TypeOK
  <2> QED BY <1>2, <1>3, <2>1, SomeStepOpen, StepOrder
<1> QED BY <1>2, <1>3, <1>4, <1>5, MoveKeeps DEF WidgetInv, Listed, FormFits

LEMMA PickServiceKeeps ==
  ASSUME Catalog, NoneIsNoValue, WidgetInv, NEW svc \in Service, PickService(svc)
  PROVE  WidgetInv'
<1>1. PICK i : i = AfterService(svc)
  OBVIOUS
<1>2. i \in 1..6 /\ i <= Index(svc, "employee")
  BY <1>1, StepTable DEF AfterService, ExtrasOrMaster
<1>3. PICK u : u = [ui EXCEPT !.svc = svc, !.extra = FALSE, !.emp = None, !.day = None,
                              !.slot = None, !.current = i]
  OBVIOUS
<1>4. Acts(u, FALSE)
  BY <1>1, <1>3 DEF PickService
<1>5. u \in UI /\ u.current = i /\ u.svc = svc /\ svc # None /\ u.slot = None
  BY <1>2, <1>3 DEF WidgetInv, TypeOK, UI, NoneIsNoValue
<1>6. Filled(u) /\ Open(u) # "nothing"
  BY <1>2, <1>5, StepOrder, SomeStepOpen DEF Filled
<1> QED BY <1>4, <1>5, <1>6, MoveKeeps

LEMMA AddonsKeep ==
  ASSUME WidgetInv, ToggleAddon \/ ConfirmAddons
  PROVE  WidgetInv'
<1>1. ui \in UI /\ ui.svc \in WithAddons /\ ui.current = 2
  BY CurrentIsNat, OpenTable DEF WidgetInv, TypeOK, ToggleAddon, ConfirmAddons
<1>2. CASE ToggleAddon
  <2>1. PICK u : u = [ui EXCEPT !.extra = ~@, !.day = None, !.slot = None]
    OBVIOUS
  <2>2. /\ u \in UI /\ u.current = 2 /\ u.svc = ui.svc /\ u.emp = ui.emp /\ u.slot = None
    BY <1>1, <2>1 DEF UI
  <2>3. Open(u) # "nothing" /\ (Filled(ui) => Filled(u))
    BY <1>1, <2>2, StepTable, SomeStepOpen DEF Filled
  <2> QED BY <1>2, <2>1, <2>2, <2>3, MoveKeeps DEF ToggleAddon, WidgetInv, FormFits
<1>3. CASE ConfirmAddons
  <2>1. PICK i : i = Index(ui.svc, "employee")
    OBVIOUS
  <2>2. PICK u : u = [ui EXCEPT !.current = i]
    OBVIOUS
  <2>3. i = 3
    BY <1>1, <2>1, StepTable
  <2>4. /\ u \in UI /\ u.current = 3 /\ u.svc = ui.svc /\ u.slot = ui.slot
        /\ Choice(u) = Choice(ui)
    BY <1>1, <2>2, <2>3 DEF UI, Choice
  <2>5. Open(u) # "nothing" /\ (Filled(ui) => Filled(u))
    BY <1>1, <2>4, StepTable, SomeStepOpen DEF Filled
  <2> QED BY <1>3, <2>1, <2>2, <2>4, <2>5, MoveKeeps DEF ConfirmAddons, WidgetInv, Listed, FormFits
<1> QED BY <1>2, <1>3

LEMMA PickEmployeeKeeps ==
  ASSUME NoneIsNoValue, WidgetInv, NEW emp \in Employee, PickEmployee(emp)
  PROVE  WidgetInv'
<1>1. PICK i : i = Index(ui.svc, "date")
  OBVIOUS
<1>2. PICK u : u = [ui EXCEPT !.emp = emp, !.day = None, !.slot = None, !.current = i]
  OBVIOUS
<1>3. ui \in UI /\ i \in 1..6 /\ ui.current = Index(ui.svc, "employee")
  BY <1>1, CurrentIsNat, OpenTable, StepOrder DEF WidgetInv, TypeOK, PickEmployee
<1>4. u \in UI /\ u.current = i /\ u.svc = ui.svc /\ u.emp = emp /\ emp # None /\ u.slot = None
  BY <1>2, <1>3 DEF UI, NoneIsNoValue
<1>5. Open(u) # "nothing" /\ (Filled(ui) => Filled(u))
  BY <1>1, <1>3, <1>4, StepOrder, SomeStepOpen DEF Filled
<1> QED BY <1>1, <1>2, <1>4, <1>5, MoveKeeps DEF PickEmployee, WidgetInv, FormFits

LEMMA ChangePeopleKeeps ==
  ASSUME WidgetInv, NEW n \in 1..MaxPeople, ChangePeople(n)
  PROVE  WidgetInv'
<1>1. PICK u : u = [ui EXCEPT !.people = n, !.slot = None]
  OBVIOUS
<1>2. /\ u \in UI /\ u.current = ui.current /\ u.svc = ui.svc /\ u.emp = ui.emp
      /\ u.day = ui.day /\ u.slot = None
  BY <1>1 DEF WidgetInv, TypeOK, UI
<1>3. Open(u) # "nothing" /\ (Filled(ui) => Filled(u))
  <2>1. Open(u) = Open(ui)
    BY <1>2 DEF Open
  <2> QED BY <1>2, <2>1 DEF Filled, WidgetInv, TypeOK
<1> QED BY <1>1, <1>2, <1>3, MoveKeeps DEF ChangePeople, WidgetInv, FormFits

LEMMA PickDateKeeps ==
  ASSUME NoneIsNoValue, WidgetInv, NEW day \in Day, PickDate(day)
  PROVE  WidgetInv'
<1>1. PICK i : i = Index(ui.svc, "time")
  OBVIOUS
<1>2. PICK u : u = [ui EXCEPT !.day = day, !.slot = None, !.current = i]
  OBVIOUS
<1>3. ui \in UI /\ i \in 1..6 /\ ui.current = Index(ui.svc, "date")
  BY <1>1, CurrentIsNat, OpenTable, StepOrder DEF WidgetInv, TypeOK, PickDate
<1>4. /\ u \in UI /\ u.current = i /\ u.svc = ui.svc /\ u.emp = ui.emp /\ u.day = day
      /\ day # None /\ u.slot = None
  BY <1>2, <1>3 DEF UI, NoneIsNoValue
<1>5. Open(u) # "nothing" /\ (Filled(ui) => Filled(u))
  BY <1>1, <1>3, <1>4, StepOrder, SomeStepOpen DEF Filled
<1> QED BY <1>1, <1>2, <1>4, <1>5, MoveKeeps DEF PickDate, WidgetInv, FormFits

\* The time that is picked was listed for the choice as it stands.
LEMMA PickTimeKeeps ==
  ASSUME WidgetInv, NEW time \in Time, PickTime(time)
  PROVE  WidgetInv'
<1>1. PICK i : i = Index(ui.svc, "contact")
  OBVIOUS
<1>2. PICK u : u = [ui EXCEPT !.slot = [of |-> slots, time |-> time], !.current = i]
  OBVIOUS
<1>3. /\ ui \in UI /\ slots \in Chosen /\ i \in 1..6
      /\ Open(ui) = "time" /\ ~loading /\ failed = None
  BY <1>1, StepOrder DEF WidgetInv, TypeOK, Fetching, PickTime
<1>4. [of |-> slots, time |-> time] \in Slot
  BY <1>3 DEF Slot
<1>5. /\ u \in UI /\ u.slot = [of |-> slots, time |-> time] /\ Choice(u) = Choice(ui)
      /\ u.current = i /\ u.svc = ui.svc
  BY <1>2, <1>3, <1>4 DEF UI, Choice
<1>6. ASSUME ~strayed PROVE Filled(u) /\ u.slot.of = Choice(u)
  <2>1. Filled(ui) /\ slots = Choice(ui)
    BY <1>3, <1>6 DEF WidgetInv, FormFits, TellsTheTruth
  <2>2. Complete(Choice(u))
    BY <1>3, <1>5, <2>1, FilledIsComplete
  <2> QED BY <1>5, <2>1, <2>2, CompleteIsFilled
<1>7. Complete(u.slot.of)
  BY <1>5 DEF WidgetInv, Listed, PickTime
<1>8. Open(u) # "nothing"
  BY <1>1, <1>3, <1>5, SomeStepOpen, StepOrder
<1> QED BY <1>1, <1>2, <1>5, <1>6, <1>7, <1>8, MoveKeeps DEF PickTime

LEMMA RetryKeeps ==
  ASSUME WidgetInv, Retry
  PROVE  WidgetInv'
BY MoveKeeps DEF Retry, WidgetInv, TypeOK, Listed, FormFits

-----------------------------------------------------------------------------
(* What is sent and what comes back.                                       *)

LEMMA SubmitKeeps ==
  ASSUME WidgetInv, Submit
  PROVE  WidgetInv'
<1>1. /\ ui \in UI /\ Open(ui) = "contact" /\ ui.slot # None /\ ui.emp # None
      /\ done = None /\ ~submitting
      /\ UNCHANGED <<ui, slots, loading, failed, fetches, done, booked, lost, strayed>>
      /\ submitting' = TRUE
  BY DEF WidgetInv, TypeOK, Submit, MaySubmit, server
<1>2. PICK c : c = Choice(ui)
  OBVIOUS
<1>3. PICK t : t = ui.slot
  OBVIOUS
<1>4. c \in Chosen /\ t \in Slot /\ c.emp = ui.emp
  BY <1>1, <1>2, <1>3 DEF UI, Choice, Chosen
<1>5. PICK p : p = [choice |-> c, slot |-> t, at |-> "sent"]
  OBVIOUS
<1>6. p \in Post /\ p.choice = c /\ p.slot = t /\ p.at = "sent"
  BY <1>4, <1>5 DEF Post
<1>7. posts = {} /\ posts' = {p}
  <2>1. posts = {}
    BY <1>1 DEF WidgetInv, Alone
  <2> QED BY <1>2, <1>3, <1>5, <2>1 DEF Submit
<1>8. TypeOK'
  BY <1>1, <1>6, <1>7 DEF WidgetInv, TypeOK
<1>9. Fetching' /\ FormFits'
  BY <1>1 DEF WidgetInv, Fetching, FormFits, TellsTheTruth, Open, Choice, Filled
<1>10. Listed'
  <2>1. Complete(t.of)
    BY <1>1, <1>3 DEF WidgetInv, Listed
  <2> QED BY <1>1, <1>4, <1>6, <1>7, <2>1 DEF WidgetInv, Listed, Complete
<1>11. PostsFit'
  <2>1. ASSUME ~strayed PROVE t.of = c /\ Complete(c)
    BY <1>1, <1>2, <1>3, <2>1, FilledIsComplete DEF WidgetInv, FormFits
  <2> QED BY <1>1, <1>6, <1>7, <2>1 DEF PostsFit, Complete
<1>12. Alone' /\ Counted'
  BY <1>1, <1>6, <1>7 DEF WidgetInv, Alone, Counted, Answered
<1> QED BY <1>8, <1>9, <1>10, <1>11, <1>12 DEF WidgetInv

\* The only request that may still be answered is the last one.
LEMMA TheOnlyPost ==
  ASSUME WidgetInv, NEW p \in posts
  PROVE  /\ p \in Post /\ posts = {p} /\ posts \ {p} = {} /\ done = None
         /\ Answered <=> p.at = "booked"
BY DEF WidgetInv, TypeOK, Alone, Answered

LEMMA TimesArriveKeeps ==
  ASSUME WidgetInv, NEW f \in fetches, TimesArrive(f)
  PROVE  WidgetInv'
<1>1. /\ UNCHANGED <<ui, failed, submitting, posts, done, booked, lost, strayed>>
      /\ fetches' = fetches \ {f} /\ f \in [of : Chosen, live : BOOLEAN]
  BY DEF WidgetInv, TypeOK, TimesArrive, server
<1>2. /\ f.live => slots' = f.of /\ loading' = FALSE
      /\ ~f.live => UNCHANGED <<slots, loading>>
  BY DEF TimesArrive, Heard
<1>3. TypeOK'
  BY <1>1, <1>2 DEF WidgetInv, TypeOK
\* A second fetch that counts would be for the same choice, and so be the same.
<1>4. ASSUME f.live PROVE /\ f.of = Choice(ui) /\ failed = None
                          /\ \A g \in fetches \ {f} : ~g.live
  <2>1. ASSUME NEW g \in fetches, g.live PROVE g = f
    <3>1. g.of = f.of /\ g.live = f.live
      BY <1>4, <2>1 DEF WidgetInv, TypeOK, Fetching
    <3> QED BY <1>1, <3>1 DEF WidgetInv, TypeOK
  <2> QED BY <1>4, <2>1 DEF WidgetInv, Fetching
<1>5. TellsTheTruth => TellsTheTruth'
  BY <1>1, <1>2, <1>4 DEF WidgetInv, Fetching, TellsTheTruth, Open, Choice
<1>6. Fetching'
  BY <1>1, <1>2, <1>4 DEF WidgetInv, Fetching, Open, Choice
<1>7. FormFits'
  BY <1>1, <1>5, <1>6 DEF WidgetInv, FormFits, Filled, Choice
<1>8. Listed'
  BY <1>1, <1>2 DEF WidgetInv, Listed, Complete
<1>9. PostsFit' /\ Alone' /\ Counted'
  BY <1>1 DEF WidgetInv, PostsFit, Complete, Alone, Counted, Answered
<1> QED BY <1>3, <1>6, <1>7, <1>8, <1>9 DEF WidgetInv

LEMMA TimesFailKeeps ==
  ASSUME WidgetInv, NEW f \in fetches, TimesFail(f)
  PROVE  WidgetInv'
<1>1. /\ UNCHANGED <<ui, submitting, posts, done, booked, lost, strayed>>
      /\ fetches' = fetches \ {f} /\ f \in [of : Chosen, live : BOOLEAN]
  BY DEF WidgetInv, TypeOK, TimesFail, server
<1>2. /\ f.live => slots' = None /\ failed' = f.of /\ loading' = FALSE
      /\ ~f.live => UNCHANGED <<slots, failed, loading>>
  BY DEF TimesFail, Heard
<1>3. TypeOK'
  BY <1>1, <1>2 DEF WidgetInv, TypeOK
<1>4. ASSUME f.live PROVE \A g \in fetches \ {f} : ~g.live
  <2>1. ASSUME NEW g \in fetches, g.live PROVE g = f
    <3>1. g.of = f.of /\ g.live = f.live
      BY <1>4, <2>1 DEF WidgetInv, TypeOK, Fetching
    <3> QED BY <1>1, <3>1 DEF WidgetInv, TypeOK
  <2> QED BY <2>1
<1>5. Fetching'
  BY <1>1, <1>2, <1>4 DEF WidgetInv, Fetching, Open, Choice
<1>6. TellsTheTruth => TellsTheTruth'
  <2>1. CASE f.live
    <3>1. f.of = Choice(ui) /\ f.of # None
      BY <1>1, <2>1, NoneIsNoValue DEF WidgetInv, Fetching
    <3> QED BY <1>1, <1>2, <2>1, <3>1 DEF TellsTheTruth, Open, Choice
  <2>2. CASE ~f.live
    BY <1>1, <1>2, <2>2 DEF TellsTheTruth, Open, Choice
  <2> QED BY <2>1, <2>2
<1>7. FormFits'
  BY <1>1, <1>6 DEF WidgetInv, FormFits, Filled, Choice
<1>8. Listed'
  BY <1>1, <1>2 DEF WidgetInv, Listed, Complete
<1>9. PostsFit' /\ Alone' /\ Counted'
  BY <1>1 DEF WidgetInv, PostsFit, Complete, Alone, Counted, Answered
<1> QED BY <1>3, <1>5, <1>7, <1>8, <1>9 DEF WidgetInv

LEMMA AcceptedKeeps ==
  ASSUME NoneIsNoValue, WidgetInv, NEW p \in posts, Accepted(p)
  PROVE  WidgetInv'
<1>1. PICK d, t : d = p.choice.day /\ t = p.slot
  OBVIOUS
<1>2. PICK say : say = [day |-> d, slot |-> t]
  OBVIOUS
<1>3. /\ UNCHANGED <<ui, slots, loading, failed, fetches, booked, lost, strayed>>
      /\ posts' = {} /\ submitting' = FALSE /\ done' = say /\ p.at = "booked" /\ p \in Post
  BY <1>1, <1>2, TheOnlyPost DEF Accepted, server
<1>4. say \in Shown /\ say # None
  BY <1>1, <1>2, <1>3 DEF Post, Chosen, Shown, NoneIsNoValue
<1>5. TypeOK'
  BY <1>3, <1>4 DEF WidgetInv, TypeOK
<1>6. Fetching' /\ FormFits' /\ Listed'
  BY <1>3 DEF WidgetInv, Fetching, FormFits, Listed, Complete, TellsTheTruth, Open, Choice, Filled
<1>7. PostsFit' /\ Alone' /\ Counted'
  BY <1>3, <1>4, TheOnlyPost DEF WidgetInv, PostsFit, Alone, Counted, Answered
<1> QED BY <1>5, <1>6, <1>7 DEF WidgetInv

\* Sent back to the time step, on a choice that is complete unless it strayed.
LEMMA SlotTakenKeeps ==
  ASSUME WidgetInv, NEW p \in posts, SlotTaken(p)
  PROVE  WidgetInv'
<1>1. PICK i : i = Index(p.choice.svc, "time")
  OBVIOUS
<1>2. PICK u : u = [ui EXCEPT !.slot = None, !.current = i]
  OBVIOUS
<1>3. /\ UNCHANGED <<done, booked, lost>> /\ Render(u, TRUE) /\ ui' = u
      /\ posts' = {} /\ submitting' = FALSE /\ p.at = "sent"
      /\ strayed' = (strayed \/ Choice(ui) # p.choice)
  BY <1>1, <1>2, TheOnlyPost DEF SlotTaken, BackToTime, Render, server
<1>4. /\ ui \in UI /\ i \in {4, 5} /\ u \in UI /\ u.slot = None /\ Choice(u) = Choice(ui)
      /\ u.current = i
  <2>1. ui \in UI
    BY DEF WidgetInv, TypeOK
  <2>2. i \in {4, 5}
    BY <1>1, StepOrder
  <2>3. i \in 1..6
    BY <2>2
  <2>4. u \in UI /\ u.slot = None /\ u.current = i
    BY <1>2, <2>1, <2>3 DEF UI
  <2>5. Choice(u) = Choice(ui)
    BY <1>2, <2>1 DEF UI, Choice
  <2> QED BY <2>1, <2>2, <2>4, <2>5
<1>5. strayed \in BOOLEAN /\ strayed' \in BOOLEAN /\ strayed => strayed'
  BY <1>3 DEF WidgetInv, TypeOK
<1>6. ASSUME ~strayed' PROVE Filled(u)
  <2>1. Complete(p.choice) /\ p.choice = Choice(u)
    BY <1>3, <1>4, <1>6 DEF WidgetInv, PostsFit
  <2> QED BY <2>1, CompleteIsFilled
<1>7. Fetching' /\ FormFits'
  BY <1>3, <1>4, <1>5, <1>6, FormMoves DEF WidgetInv
\* The index may be that of another list of steps, but no list is shorter.
<1>8. TypeOK'
  <2>1. Open(u) # "nothing"
    BY <1>4, SomeStepOpen, StepOrder
  <2>2. Open(ui)' = Open(u)
    BY <1>3 DEF Open, Steps
  <2> QED BY <1>3, <1>4, <1>5, <2>1, <2>2, RenderFollows DEF WidgetInv, TypeOK
<1>9. Listed'
  BY <1>3, <1>4, RenderLists DEF WidgetInv, Listed, Complete
<1>10. PostsFit' /\ Alone' /\ Counted'
  BY <1>3, TheOnlyPost DEF WidgetInv, PostsFit, Alone, Counted, Answered
<1> QED BY <1>7, <1>8, <1>9, <1>10 DEF WidgetInv

LEMMA RefusedKeeps ==
  ASSUME WidgetInv, NEW p \in posts, Refused(p)
  PROVE  WidgetInv'
<1>1. /\ UNCHANGED <<ui, slots, loading, failed, fetches, done, booked, lost, strayed>>
      /\ posts' = {} /\ submitting' = FALSE /\ p.at = "sent"
  BY TheOnlyPost DEF Refused, server
<1>2. TypeOK' /\ Fetching' /\ FormFits' /\ Listed'
  BY <1>1 DEF WidgetInv, TypeOK, Fetching, FormFits, Listed, Complete, TellsTheTruth, Open,
              Choice, Filled
<1>3. PostsFit' /\ Alone' /\ Counted'
  BY <1>1, TheOnlyPost DEF WidgetInv, PostsFit, Alone, Counted, Answered
<1> QED BY <1>2, <1>3 DEF WidgetInv

LEMMA NetworkFailsKeeps ==
  ASSUME Catalog, WidgetInv, NEW p \in posts, NetworkFails(p)
  PROVE  WidgetInv'
<1>1. /\ UNCHANGED <<ui, slots, loading, failed, fetches, done, booked, strayed>>
      /\ posts' = {} /\ submitting' = FALSE /\ lost < MaxLost /\ lost' = lost + 1
      /\ done = None
  BY TheOnlyPost DEF NetworkFails
<1>2. /\ lost \in Nat /\ lost' \in 0..MaxLost
  BY <1>1 DEF WidgetInv, TypeOK, Catalog
<1>3. TypeOK' /\ Fetching' /\ FormFits' /\ Listed'
  BY <1>1, <1>2 DEF WidgetInv, TypeOK, Fetching, FormFits, Listed, Complete, TellsTheTruth,
                    Open, Choice, Filled
<1>4. Counted'
  <2>1. /\ IsFiniteSet(booked) /\ Cardinality(booked) \in Nat
        /\ Cardinality(booked) <= IF Answered THEN lost + 1 ELSE lost
    BY FS_CardinalityType DEF WidgetInv, Counted
  <2>2. Cardinality(booked) <= lost + 1
    BY <1>2, <2>1
  <2> QED BY <1>1, <2>1, <2>2 DEF Counted, Answered
<1>5. PostsFit' /\ Alone'
  BY <1>1 DEF PostsFit, Alone
<1> QED BY <1>3, <1>4, <1>5 DEF WidgetInv

LEMMA ServerBooksKeeps ==
  ASSUME WidgetInv, NEW p \in posts, ServerBooks(p)
  PROVE  WidgetInv'
<1>1. PICK a, q : a = Asked(p) /\ q = [p EXCEPT !.at = "booked"]
  OBVIOUS
<1>2. /\ UNCHANGED <<ui, slots, loading, failed, fetches, submitting, done, lost, strayed>>
      /\ p.at = "sent" /\ p \in Post /\ a \notin booked /\ booked' = booked \union {a}
      /\ posts' = {q} /\ done = None /\ submitting
  BY <1>1, TheOnlyPost DEF WidgetInv, Alone, ServerBooks
<1>3. q \in Post /\ q.choice = p.choice /\ q.slot = p.slot /\ q.at = "booked"
  BY <1>1, <1>2 DEF Post
<1>4. a \in Appointment
  <2>1. Complete(p.slot.of) /\ p.choice.emp # None
    BY DEF WidgetInv, Listed
  <2>2. p.choice.emp \in Employee /\ p.slot.of.day \in Day /\ p.slot.time \in Time
    BY <1>2, <2>1 DEF Post, Chosen, Slot, Complete
  <2> QED BY <1>1, <2>2 DEF Asked, Appointment
<1>5. TypeOK'
  BY <1>2, <1>3, <1>4 DEF WidgetInv, TypeOK
<1>6. Fetching' /\ FormFits'
  BY <1>2 DEF WidgetInv, Fetching, FormFits, TellsTheTruth, Open, Choice, Filled
<1>7. Listed' /\ PostsFit' /\ Alone'
  BY <1>2, <1>3 DEF WidgetInv, Listed, Complete, PostsFit, Alone
<1>8. Counted'
  <2>1. IsFiniteSet(booked) /\ Cardinality(booked) \in Nat /\ Cardinality(booked) <= lost
    BY <1>2, TheOnlyPost, FS_CardinalityType DEF WidgetInv, Counted
  <2>2. IsFiniteSet(booked') /\ Cardinality(booked') = Cardinality(booked) + 1
    BY <1>2, <2>1, FS_AddElement
  <2>3. lost \in Nat /\ Answered'
    BY <1>2, <1>3 DEF WidgetInv, TypeOK, Answered
  <2> QED BY <1>2, <2>1, <2>2, <2>3 DEF Counted
<1> QED BY <1>5, <1>6, <1>7, <1>8 DEF WidgetInv

-----------------------------------------------------------------------------
(* The invariant.                                                          *)

LEMMA WidgetStarts ==
  ASSUME Catalog, NoneIsNoValue, Init
  PROVE  WidgetInv
<1>1. /\ ui \in UI /\ Filled(ui) /\ ui.slot = None
      /\ ui.current < Index(ui.svc, "time")
  <2>1. CASE ui = Blank
    BY <2>1, StepOrder DEF Blank, UI, Catalog, Filled
  <2>2. CASE \E svc \in Service, emp \in Employee \union {None} : ui = Preset(svc, emp)
    <3>1. PICK svc \in Service, emp \in Employee \union {None} : ui = Preset(svc, emp)
      BY <2>2
    <3>2. PICK i : i = IF svc \in WithAddons THEN Index(svc, "addons")
                       ELSE IF emp = None THEN Index(svc, "employee") ELSE Index(svc, "date")
      OBVIOUS
    <3>3. /\ i \in 1..6 /\ i < Index(svc, "time") /\ i <= Index(svc, "date")
          /\ i > Index(svc, "employee") => emp # None
      BY <3>2, StepTable
    <3>4. ui = [Blank EXCEPT !.svc = svc, !.emp = emp, !.current = i]
      BY <3>1, <3>2 DEF Preset
    <3>5. ui = [svc |-> svc, extra |-> FALSE, emp |-> emp, day |-> None, people |-> 1,
                slot |-> None, current |-> i]
      BY <3>4 DEF Blank
    <3>6. /\ ui.svc = svc /\ svc # None /\ ui.emp = emp /\ ui.current = i
          /\ ui.slot = None
      BY <3>5 DEF NoneIsNoValue
    <3>7. ui \in UI
      <4>1. 1 \in 1..MaxPeople
        BY DEF Catalog
      <4> QED BY <3>3, <3>5, <4>1 DEF UI
    <3>8. Filled(ui)
      BY <3>3, <3>6, StepOrder DEF Filled
    <3> QED BY <3>3, <3>6, <3>7, <3>8
  <2> QED BY <2>1, <2>2 DEF Init
<1>2. Open(ui) # "time"
  BY <1>1, CurrentIsNat, OpenTable, StepOrder
<1>3. /\ slots = None /\ loading = FALSE /\ failed = None /\ fetches = {}
      /\ submitting = FALSE /\ posts = {} /\ done = None
      /\ booked = {} /\ lost = 0 /\ strayed = FALSE
  BY DEF Init
<1>4. TypeOK
  <2>1. 0 \in 0..MaxLost
    BY DEF Catalog
  <2>2. Open(ui) # "nothing"
    BY <1>1, CurrentIsNat, SomeStepOpen, StepOrder
  <2> QED BY <1>1, <1>3, <2>1, <2>2 DEF TypeOK
<1>5. Counted
  BY <1>3, FS_EmptySet DEF Counted, Answered
<1> QED BY <1>1, <1>2, <1>3, <1>4, <1>5
        DEF WidgetInv, Fetching, Listed, FormFits, TellsTheTruth, PostsFit, Alone

LEMMA WidgetKeeps ==
  ASSUME Catalog, NoneIsNoValue, WidgetInv, [Next]_vars
  PROVE  WidgetInv'
<1>1. CASE Customer
  BY <1>1, EditStepKeeps, PickServiceKeeps, AddonsKeep, PickEmployeeKeeps, ChangePeopleKeeps,
     PickDateKeeps, PickTimeKeeps, RetryKeeps, SubmitKeeps DEF Customer
<1>2. CASE Arrival
  BY <1>2, TimesArriveKeeps, TimesFailKeeps, AcceptedKeeps, SlotTakenKeeps, RefusedKeeps,
     NetworkFailsKeeps DEF Arrival
<1>3. CASE Server
  BY <1>3, ServerBooksKeeps DEF Server
<1>4. CASE UNCHANGED vars
  BY <1>4 DEF vars, server, WidgetInv, TypeOK, Fetching, Listed, Complete, FormFits,
              TellsTheTruth, Open, Choice, Filled, PostsFit, Alone, Counted, Answered
<1> QED BY <1>1, <1>2, <1>3, <1>4 DEF Next

LEMMA WidgetInvariance == Spec => []WidgetInv
<1>1. Init => WidgetInv
  BY WidgetStarts, Catalog, NoneIsNoValue
<1>2. WidgetInv /\ [Next]_vars => WidgetInv'
  BY WidgetKeeps, Catalog, NoneIsNoValue
<1> QED BY <1>1, <1>2, PTL DEF Spec

\* Some step of the list is open whatever service is picked, whatever index a
\* late 409 goes back to (stepsFor, the handlers' indices, submit).
THEOREM WidgetTypeOK == Spec => []TypeOK
<1>1. WidgetInv => TypeOK
  BY DEF WidgetInv
<1> QED BY <1>1, WidgetInvariance, PTL

\* Until a 409 meets a choice that changed since it was asked for, the time step
\* shows either a spinner with a fetch for the present choice behind it, or the
\* times of that choice, or the failure to load them and no times beside,
\* however late and disordered the availability answers are.
THEOREM TimesStayCurrent == Spec => []TimesAreCurrent
<1>1. WidgetInv => TimesAreCurrent
  BY DEF WidgetInv, FormFits, TimesAreCurrent
<1> QED BY <1>1, WidgetInvariance, PTL

\* Until then the chosen time was also offered for what is now chosen, and what
\* is under way asks for a time offered for what it was sent with.
THEOREM SlotStaysFit == Spec => []SlotFitsChoice
<1>1. WidgetInv => SlotFitsChoice
  BY DEF WidgetInv, FormFits, PostsFit, SlotFitsChoice
<1> QED BY <1>1, WidgetInvariance, PTL

\* One visit makes one appointment, and one more for every answer that was lost.
THEOREM OneBookingPerVisit == Spec => []OneBookingPerAnswer
<1>1. WidgetInv => OneBookingPerAnswer
  <2> SUFFICES ASSUME WidgetInv PROVE OneBookingPerAnswer
    OBVIOUS
  <2>1. IsFiniteSet(booked) /\ Cardinality(booked) \in Nat /\ lost \in Nat
    BY FS_CardinalityType DEF WidgetInv, Counted, TypeOK
  <2> QED BY <2>1 DEF WidgetInv, Counted, OneBookingPerAnswer
<1> QED BY <1>1, WidgetInvariance, PTL
=============================================================================

--------------------------- MODULE PaymentsProofs ---------------------------
(***************************************************************************)
(* What holds of the payments of a booking for any number of requests, any *)
(* price and any sums: the audit log explains the entries exactly and      *)
(* outlives them, an entry stays as it was written and stays until it is   *)
(* voided or the account goes, and unless two requests raced the live      *)
(* entries neither add up to less than nothing nor settle more than the    *)
(* price.                                                                  *)
(***************************************************************************)
EXTENDS Payments, Sums, TLAPS

\* An entry exists only once its request has ended and while its booking does;
\* one that does not exist is not voided; and an insert knows what it inserts.
OneWriter ==
  \A r \in Request :
    /\ Exists(r) => call[r].at = "done" /\ gone = "no"
    /\ ~Exists(r) => entry[r].voidedBy = NoOne
    /\ call[r].at = "insert" => call[r].kind \in {"PAYMENT", "REFUND"}

IInv == TypeOK /\ OneWriter /\ AuditExplainsEntries

\* A request that is idle, or is about to write a refund, carries no discount.
RefundsPlain ==
  \A r \in Request :
    call[r].at = "idle" \/ (call[r].at = "insert" /\ call[r].kind = "REFUND")
      => call[r].discount = 0

\* What a request that is about to write has been told by the rules, and what is
\* still so as long as nobody has committed since it read.
Granted(r) ==
  LET c == call[r] IN
  /\ c.at = "insert" /\ c.kind = "PAYMENT" =>
       SettledTotal(Live) + c.amount + c.discount <= Price
  /\ c.at = "insert" /\ c.kind = "REFUND" => c.amount <= NetReceived(Live)
  /\ c.at = "void" => NetReceived(Live \ {c.target}) >= 0

FreshReads == raced \/ gone # "no" \/ \A r \in Request : call[r].stale \/ Granted(r)

MoneyInv == RefundsPlain /\ FreshReads /\ NetWithoutRaces /\ SettledWithinPrice

-----------------------------------------------------------------------------

LEMMA TypeInit == Init => TypeOK
<1> SUFFICES ASSUME Init PROVE TypeOK  OBVIOUS
<1>1. 0 \in 0..MaxAmount  BY PaymentConstants
<1> QED BY <1>1 DEF Init, TypeOK, NoEntry, Entry, Call, Kind, At, Gone, AuditRow

\* A commit ends its own request, and only marks the reads of the others.
LEMMA CommitKeepsCalls ==
  ASSUME TypeOK, NEW r \in Request, Commit(r)
  PROVE  /\ call' \in [Request -> Call] /\ raced' \in BOOLEAN /\ gone' = gone
         /\ call'[r].at = "done"
         /\ \A q \in Request : /\ q # r => call'[q].at = call[q].at
                               /\ call'[q].kind = call[q].kind
<1>1. \A q \in Request : call[q] \in Call  BY DEF TypeOK
<1>2. \A q \in Request : call'[q] =
        IF q = r THEN [call[q] EXCEPT !.at = "done"]
        ELSE IF call[q].at \in {"insert", "void"} THEN [call[q] EXCEPT !.stale = TRUE]
        ELSE call[q]
  BY DEF Commit
<1>3. ASSUME NEW q \in Request
      PROVE  /\ call'[q] \in Call /\ call'[q].kind = call[q].kind
             /\ q # r => call'[q].at = call[q].at
             /\ q = r => call'[q].at = "done"
  <2>1. CASE q = r  BY <1>1, <1>2, <2>1 DEF Call, At
  <2>2. CASE q # r /\ call[q].at \in {"insert", "void"}  BY <1>1, <1>2, <2>2 DEF Call
  <2>3. CASE q # r /\ call[q].at \notin {"insert", "void"}  BY <1>1, <1>2, <2>3
  <2> QED BY <2>1, <2>2, <2>3
<1>4. call' \in [Request -> Call]
  <2>1. DOMAIN call' = Request /\ call' = [q \in Request |-> call'[q]]  BY DEF Commit
  <2> QED BY <2>1, <1>3
<1>5. raced' \in BOOLEAN /\ gone' = gone  BY <1>1 DEF Commit, TypeOK, Call
<1> QED BY <1>3, <1>4, <1>5

-----------------------------------------------------------------------------
(* One lemma per action: the invariant is kept.                            *)

\* Nothing is written before the commit: a step that only moves one request,
\* and not to where it would have written, keeps the invariant.
LEMMA ReadStep ==
  ASSUME IInv, NEW r \in Request, NEW c \in Call,
         call[r].at # "done", c.at = "insert" => c.kind \in {"PAYMENT", "REFUND"},
         call' = [call EXCEPT ![r] = c], UNCHANGED <<entry, audit, gone, raced>>
  PROVE  IInv' /\ WrittenOnce
<1> USE DEF IInv
<1>1. TypeOK'  BY DEF TypeOK
<1>2. OneWriter'
  <2>1. ~Exists(r)  BY DEF OneWriter
  <2>2. \A q \in Request : call'[q] = IF q = r THEN c ELSE call[q]  BY DEF TypeOK
  <2> QED BY <2>1, <2>2 DEF OneWriter, Exists
<1>3. AuditExplainsEntries'
  BY DEF AuditExplainsEntries, LogMatchesEntries, LogTellsVoids, VoidRows, Exists, IsLive,
         WrittenRow, VoidedRow
<1>4. WrittenOnce  BY DEF WrittenOnce, TypeOK, Entry
<1> QED BY <1>1, <1>2, <1>3, <1>4

LEMMA GiveUpStep ==
  ASSUME IInv, NEW r \in Request, call[r].at # "done", GiveUp(r)
  PROVE  IInv' /\ WrittenOnce
<1> DEFINE c == [call[r] EXCEPT !.at = "done"]
<1>1. c \in Call /\ c.at = "done"  BY DEF IInv, TypeOK, Call, At
<1>2. call' = [call EXCEPT ![r] = c] /\ UNCHANGED <<entry, audit, gone, raced>>
  BY DEF GiveUp
<1> HIDE DEF c
<1> QED BY <1>1, <1>2, ReadStep

LEMMA RecordPaymentStep ==
  ASSUME IInv, NEW r \in Request, NEW a \in Amounts, NEW d \in Amounts, RecordPayment(r, a, d)
  PROVE  IInv' /\ WrittenOnce
<1> DEFINE c == [call[r] EXCEPT !.at = "insert", !.kind = "PAYMENT", !.amount = a, !.discount = d]
<1>0. call[r] \in Call /\ a \in 0..MaxAmount /\ d \in 0..MaxAmount
  BY PaymentConstants DEF IInv, TypeOK
<1>1. c \in Call /\ c.at = "insert" /\ c.kind = "PAYMENT"
  BY <1>0 DEF Call, At, Kind
<1>2. call' = [call EXCEPT ![r] = c] /\ call[r].at = "idle" /\ UNCHANGED <<entry, audit, gone, raced>>
  BY DEF RecordPayment
<1> HIDE DEF c
<1> QED BY <1>1, <1>2, ReadStep

LEMMA RefundPaymentStep ==
  ASSUME IInv, NEW r \in Request, NEW a \in Amounts, RefundPayment(r, a)
  PROVE  IInv' /\ WrittenOnce
<1> DEFINE c == [call[r] EXCEPT !.at = "insert", !.kind = "REFUND", !.amount = a]
<1>0. call[r] \in Call /\ a \in 0..MaxAmount  BY PaymentConstants DEF IInv, TypeOK
<1>1. c \in Call /\ c.at = "insert" /\ c.kind = "REFUND"
  BY <1>0 DEF Call, At, Kind
<1>2. call' = [call EXCEPT ![r] = c] /\ call[r].at = "idle" /\ UNCHANGED <<entry, audit, gone, raced>>
  BY DEF RefundPayment
<1> HIDE DEF c
<1> QED BY <1>1, <1>2, ReadStep

LEMMA FindPaymentStep ==
  ASSUME IInv, NEW r \in Request, NEW e \in Request, FindPayment(r, e)
  PROVE  IInv' /\ WrittenOnce
<1> DEFINE c == [call[r] EXCEPT !.at = "found", !.target = e]
<1>0. call[r] \in Call  BY DEF IInv, TypeOK
<1>1. c \in Call /\ c.at = "found"  BY <1>0 DEF Call, At
<1>2. call' = [call EXCEPT ![r] = c] /\ call[r].at = "idle" /\ UNCHANGED <<entry, audit, gone, raced>>
  BY DEF FindPayment
<1> HIDE DEF c
<1> QED BY <1>1, <1>2, ReadStep

LEMMA CheckRemainingStep ==
  ASSUME IInv, NEW r \in Request, CheckRemaining(r)
  PROVE  IInv' /\ WrittenOnce
<1> DEFINE next == IF MayVoid(call[r].target) THEN "void" ELSE "done"
           c == [call[r] EXCEPT !.at = next]
<1>0. next \in {"void", "done"}  OBVIOUS
<1>1. call' = [call EXCEPT ![r] = c] /\ call[r].at = "found" /\ UNCHANGED <<entry, audit, gone, raced>>
  BY DEF CheckRemaining
<1> HIDE DEF next
<1>2. c \in Call /\ c.at # "insert"  BY <1>0 DEF IInv, TypeOK, Call, At
<1> HIDE DEF c
<1> QED BY <1>1, <1>2, ReadStep

LEMMA EntryWritten ==
  ASSUME IInv, NEW r \in Request, WriteEntry(r), gone = "no"
  PROVE  IInv' /\ WrittenOnce
<1> USE DEF IInv
<1>0. /\ call[r].at = "insert" /\ audit' = audit \union {WrittenRow(r)'} /\ Commit(r)
      /\ entry' = [entry EXCEPT ![r] = [@ EXCEPT !.kind = call[r].kind,
                     !.amount = call[r].amount, !.discount = call[r].discount]]
  BY DEF WriteEntry
<1>1. /\ ~Exists(r) /\ entry[r].voidedBy = NoOne
      /\ call[r].kind \in {"PAYMENT", "REFUND"} /\ call[r] \in Call /\ entry[r] \in Entry
  BY <1>0 DEF OneWriter, TypeOK
<1>3. /\ call' \in [Request -> Call] /\ raced' \in BOOLEAN /\ gone' = gone /\ call'[r].at = "done"
      /\ \A q \in Request : /\ q # r => call'[q].at = call[q].at
                            /\ call'[q].kind = call[q].kind
  BY <1>0, CommitKeepsCalls
<1>4. /\ entry' \in [Request -> Entry]
      /\ \A q \in Request \ {r} : entry'[q] = entry[q]
      /\ entry'[r].kind = call[r].kind /\ entry'[r].voidedBy = NoOne
  BY <1>0, <1>1 DEF TypeOK, Entry, Call
<1>5. WrittenRow(r)' = [action |-> IF call[r].kind = "REFUND" THEN "refund" ELSE "create",
                        target |-> r, actor |-> r]
  BY <1>4 DEF WrittenRow
<1>6. TypeOK'  BY <1>0, <1>3, <1>4, <1>5 DEF TypeOK, AuditRow
<1>7. OneWriter'
  BY <1>1, <1>3, <1>4 DEF OneWriter, Exists
<1>8. LogMatchesEntries'
  <2>1. {x \in Request : Exists(x)}' = {x \in Request : Exists(x)} \union {r}
    BY <1>1, <1>4 DEF Exists
  <2>2. {x \in Request : Exists(x) /\ ~IsLive(x)}' = {x \in Request : Exists(x) /\ ~IsLive(x)}
    BY <1>1, <1>4 DEF Exists, IsLive
  <2>3. \A e \in Request \ {r} : WrittenRow(e)' = WrittenRow(e)
    BY <1>4 DEF WrittenRow
  <2>4. \A e \in {x \in Request : Exists(x) /\ ~IsLive(x)} :
          VoidedRow(e, entry'[e].voidedBy) = VoidedRow(e, entry[e].voidedBy)
    BY <1>1, <1>4
  <2>6. {WrittenRow(e)' : e \in {x \in Request : Exists(x)} \union {r}} =
        {WrittenRow(e) : e \in {x \in Request : Exists(x)}} \union {WrittenRow(r)'}
    BY <1>1, <2>3
  <2>7. {VoidedRow(e, entry'[e].voidedBy) : e \in {x \in Request : Exists(x) /\ ~IsLive(x)}} =
        {VoidedRow(e, entry[e].voidedBy) : e \in {x \in Request : Exists(x) /\ ~IsLive(x)}}
    BY <2>4
  <2> QED BY <1>0, <2>1, <2>2, <2>6, <2>7 DEF AuditExplainsEntries, LogMatchesEntries
<1>9. WrittenOnce  BY <1>1, <1>4 DEF WrittenOnce, Exists, TypeOK, Entry
<1> QED BY <1>3, <1>6, <1>7, <1>8, <1>9 DEF AuditExplainsEntries

LEMMA WriteEntryStep ==
  ASSUME IInv, NEW r \in Request, WriteEntry(r)
  PROVE  IInv' /\ WrittenOnce
<1>1. CASE gone = "no"  BY <1>1, EntryWritten
<1>2. CASE gone # "no"  BY <1>2, GiveUpStep DEF WriteEntry
<1> QED BY <1>1, <1>2

LEMMA VoidEntryStep ==
  ASSUME IInv, NEW r \in Request, VoidEntry(r)
  PROVE  IInv' /\ WrittenOnce
<1> USE DEF IInv
<1> DEFINE e == call[r].target
<1>0. e \in Request /\ call[r] \in Call  BY DEF TypeOK, Call
<1>1. CASE ~IsLive(e)  BY <1>1, GiveUpStep DEF VoidEntry
<1>2. CASE IsLive(e)
  <2>1. /\ entry' = [entry EXCEPT ![e] = [@ EXCEPT !.voidedBy = r]]
        /\ audit' = audit \union {VoidedRow(e, r)} /\ Commit(r) /\ call[r].at = "void"
        /\ gone = "no"
    BY <1>0, <1>2 DEF VoidEntry, OneWriter, IsLive
  <2>2. /\ call' \in [Request -> Call] /\ raced' \in BOOLEAN /\ gone' = gone /\ call'[r].at = "done"
        /\ \A q \in Request : /\ q # r => call'[q].at = call[q].at
                              /\ call'[q].kind = call[q].kind
    BY <2>1, CommitKeepsCalls
  <2> HIDE DEF e
  <2>3. /\ entry' \in [Request -> Entry]
        /\ \A q \in Request \ {e} : entry'[q] = entry[q]
        /\ entry'[e].kind = entry[e].kind /\ entry'[e].voidedBy = r
        /\ entry'[e].amount = entry[e].amount /\ entry'[e].discount = entry[e].discount
    BY <1>0, <2>1 DEF TypeOK, Entry
  <2>4. TypeOK'  BY <1>0, <2>1, <2>2, <2>3 DEF TypeOK, AuditRow, VoidedRow
  <2>5. OneWriter'
    BY <1>0, <1>2, <2>1, <2>2, <2>3 DEF OneWriter, Exists, IsLive
  <2>6. LogMatchesEntries'
    <3>0. r # NoOne  BY PaymentConstants
    <3>1. {x \in Request : Exists(x)}' = {x \in Request : Exists(x)}
      BY <1>0, <2>3 DEF Exists
    <3>2. {x \in Request : Exists(x) /\ ~IsLive(x)}' =
          {x \in Request : Exists(x) /\ ~IsLive(x)} \union {e}
      BY <1>0, <1>2, <2>3, <3>0 DEF Exists, IsLive
    <3>3. \A q \in Request : WrittenRow(q)' = WrittenRow(q)
      BY <2>3 DEF WrittenRow
    <3>4. \A q \in {x \in Request : Exists(x) /\ ~IsLive(x)} :
            VoidedRow(q, entry'[q].voidedBy) = VoidedRow(q, entry[q].voidedBy)
      BY <1>2, <2>3
    <3>5. {WrittenRow(q)' : q \in {x \in Request : Exists(x)}} =
          {WrittenRow(q) : q \in {x \in Request : Exists(x)}}
      BY <3>3
    <3>6. {VoidedRow(q, entry'[q].voidedBy) : q \in
             {x \in Request : Exists(x) /\ ~IsLive(x)} \union {e}} =
          {VoidedRow(q, entry[q].voidedBy) : q \in {x \in Request : Exists(x) /\ ~IsLive(x)}}
          \union {VoidedRow(e, r)}
      BY <2>3, <3>4
    <3> QED BY <2>1, <3>1, <3>2, <3>5, <3>6 DEF AuditExplainsEntries, LogMatchesEntries
  <2>7. WrittenOnce  BY <1>0, <1>2, <2>3 DEF WrittenOnce, IsLive, TypeOK, Entry
  <2> QED BY <2>1, <2>2, <2>4, <2>5, <2>6, <2>7 DEF AuditExplainsEntries
<1> QED BY <1>1, <1>2

\* The entries go, the rows about them stay. Where none stood, each row that
\* tells of a write has its one row that tells of the void.
LEMMA DeletionStep ==
  ASSUME IInv, DeleteCustomer \/ DeleteAccount
  PROVE  IInv' /\ WrittenOnce
<1> USE DEF IInv
<1>1. /\ gone = "no" /\ gone' \in {"customer", "account"}
      /\ gone' = "customer" => Live = {}
      /\ entry' = [e \in Request |-> NoEntry] /\ UNCHANGED <<audit, call, raced>>
  BY DEF DeleteCustomer, DeleteAccount, Erasable
<1>2. \A e \in Request : entry'[e] = NoEntry /\ ~Exists(e)'
  BY <1>1 DEF Exists, NoEntry
<1>3. TypeOK'
  <2>1. 0 \in 0..MaxAmount  BY PaymentConstants
  <2>2. NoEntry \in Entry  BY <2>1 DEF NoEntry, Entry, Kind
  <2>3. entry' \in [Request -> Entry]  BY <1>1, <2>2
  <2> QED BY <1>1, <2>3 DEF TypeOK, Gone
<1>4. OneWriter'  BY <1>1, <1>2 DEF OneWriter, NoEntry
<1>5. AuditExplainsEntries'
  <2>1. SUFFICES ASSUME Live = {}, NEW w \in audit, w.action # "void"
                 PROVE  \E row \in audit : VoidRows(w.target)' = {row}
    BY <1>1 DEF AuditExplainsEntries, LogTellsVoids
  <2>2. LogMatchesEntries  BY <1>1 DEF AuditExplainsEntries
  <2>3. PICK e \in Request : Exists(e) /\ w = WrittenRow(e)
    BY <2>1, <2>2 DEF LogMatchesEntries, VoidedRow
  <2>4. ~IsLive(e) /\ w.target = e  BY <2>1, <2>3 DEF Live, WrittenRow
  <2>5. VoidedRow(e, entry[e].voidedBy) \in audit
    BY <2>2, <2>3, <2>4 DEF LogMatchesEntries
  <2>6. VoidRows(e) = {VoidedRow(e, entry[e].voidedBy)}
    <3>1. ASSUME NEW row \in VoidRows(e) PROVE row = VoidedRow(e, entry[e].voidedBy)
      <4>1. row \in audit /\ row.action = "void" /\ row.target = e  BY <3>1 DEF VoidRows
      <4>2. PICK x \in Request : row = VoidedRow(x, entry[x].voidedBy)
        BY <2>2, <4>1 DEF LogMatchesEntries, WrittenRow
      <4> QED BY <4>1, <4>2 DEF VoidedRow
    <3>2. VoidedRow(e, entry[e].voidedBy) \in VoidRows(e)
      BY <2>5 DEF VoidRows, VoidedRow
    <3> QED BY <3>1, <3>2
  <2>7. VoidRows(e)' = VoidRows(e)  BY <1>1 DEF VoidRows
  <2> QED BY <2>4, <2>5, <2>6, <2>7
<1>6. WrittenOnce
  BY <1>1, <1>2 DEF WrittenOnce, Live
<1> QED BY <1>3, <1>4, <1>5, <1>6

-----------------------------------------------------------------------------

LEMMA InitInv == Init => IInv
<1> SUFFICES ASSUME Init PROVE IInv  OBVIOUS
<1>1. \A r \in Request : ~Exists(r) /\ entry[r].voidedBy = NoOne /\ call[r].at = "idle"
  BY DEF Init, Exists, NoEntry
<1>2. OneWriter  BY <1>1 DEF OneWriter
<1>3. AuditExplainsEntries  BY <1>1 DEF AuditExplainsEntries, LogMatchesEntries, Init
<1> QED BY <1>2, <1>3, TypeInit DEF IInv

LEMMA NextInv == IInv /\ [Next]_vars => IInv' /\ [WrittenOnce]_vars
<1> SUFFICES ASSUME IInv, [Next]_vars PROVE IInv' /\ [WrittenOnce]_vars  OBVIOUS
<1>1. CASE UNCHANGED vars
  BY <1>1 DEF vars, IInv, TypeOK, OneWriter, AuditExplainsEntries, LogMatchesEntries,
              LogTellsVoids, VoidRows, Exists, IsLive, WrittenRow, VoidedRow
<1>2. CASE Next
  <2> SUFFICES IInv' /\ WrittenOnce  OBVIOUS
  <2> QED BY <1>2, RecordPaymentStep, RefundPaymentStep, FindPaymentStep,
             CheckRemainingStep, WriteEntryStep, VoidEntryStep, DeletionStep DEF Next
<1> QED BY <1>1, <1>2

LEMMA Invariance == Spec => []IInv
<1> QED BY InitInv, NextInv, PTL DEF Spec

-----------------------------------------------------------------------------
(* The money. Sums are taken of functions f and g named for a state and    *)
(* its successor, so that the lemmas of Sums apply to them.                *)

LEMMA SumsOfEntries ==
  ASSUME TypeOK
  PROVE  /\ \A e \in Request : Received(e) \in Int /\ Settled(e) \in Int
         /\ \A S \in SUBSET Request :
              IsFiniteSet(S) /\ NetReceived(S) \in Int /\ SettledTotal(S) \in Int
<1>1. \A e \in Request : Received(e) \in Int /\ Settled(e) \in Int
  BY PaymentConstants DEF TypeOK, Entry, Received, Settled
<1>2. ASSUME NEW S \in SUBSET Request
      PROVE  IsFiniteSet(S) /\ NetReceived(S) \in Int /\ SettledTotal(S) \in Int
  <2>1. IsFiniteSet(S)  BY FS_Subset, PaymentConstants
  <2>2. PICK f, g : f = [e \in Request |-> Received(e)] /\ g = [e \in Request |-> Settled(e)]
    OBVIOUS
  <2>3. \A e \in S : f[e] \in Int /\ g[e] \in Int  BY <1>1, <2>2
  <2>4. SumFunctionOnSet(f, S) \in Int /\ SumFunctionOnSet(g, S) \in Int
    BY <2>1, <2>3, SumInt
  <2> QED BY <2>1, <2>2, <2>4 DEF NetReceived, SettledTotal
<1> QED BY <1>1, <1>2

\* Voided refunds add up to money that would have gone out, never come in.
LEMMA VoidedRefundsOut ==
  ASSUME TypeOK
  PROVE  NetReceived(Voided("REFUND")) <= 0
<1>1. PICK f, V : f = [e \in Request |-> Received(e)] /\ V = Voided("REFUND")
  OBVIOUS
<1>2. V \subseteq Request /\ \A e \in V : f[e] \in Int /\ f[e] <= 0
  BY <1>1, PaymentConstants DEF Voided, Received, TypeOK, Entry
<1>3. IsFiniteSet(V)  BY <1>2, SumsOfEntries
<1>4. SumFunctionOnSet(f, V) <= 0  BY <1>2, <1>3, SumNotPositive
<1> QED BY <1>1, <1>4 DEF NetReceived

\* What the rules have granted to a request, of the calls and the entries as given.
GrantedBy(c, received, settled, live) ==
  /\ c.at = "insert" /\ c.kind = "PAYMENT" =>
       SumFunctionOnSet(settled, live) + c.amount + c.discount <= Price
  /\ c.at = "insert" /\ c.kind = "REFUND" => c.amount <= SumFunctionOnSet(received, live)
  /\ c.at = "void" => SumFunctionOnSet(received, live \ {c.target}) >= 0

\* A step that writes no entry and moves one request to where the rules allow.
LEMMA MoneyReadStep ==
  ASSUME IInv, MoneyInv, NEW r \in Request, NEW c \in Call,
         call' = [call EXCEPT ![r] = c], UNCHANGED <<entry, audit, gone, raced>>,
         c.at = "idle" \/ (c.at = "insert" /\ c.kind = "REFUND") => c.discount = 0,
         GrantedBy(c, [e \in Request |-> Received(e)], [e \in Request |-> Settled(e)], Live)
  PROVE  MoneyInv'
<1> USE DEF MoneyInv
<1>1. PICK f, g, L : /\ f = [e \in Request |-> Received(e)]
                     /\ g = [e \in Request |-> Settled(e)] /\ L = Live
  OBVIOUS
<1>2. /\ f = [e \in Request |-> Received(e)'] /\ g = [e \in Request |-> Settled(e)']
      /\ L = Live'
  <2>1. \A e \in Request : Received(e)' = Received(e) /\ Settled(e)' = Settled(e)
    BY DEF Received, Settled
  <2> QED BY <1>1, <2>1 DEF Live, IsLive, Exists
<1>3. \A q \in Request : call'[q] = IF q = r THEN c ELSE call[q]
  BY DEF IInv, TypeOK
<1>4. RefundsPlain'
  BY <1>3 DEF RefundsPlain
<1>5. FreshReads'
  <2>1. SUFFICES ASSUME ~raced, gone = "no", NEW q \in Request, ~call'[q].stale
                 PROVE  Granted(q)'
    BY DEF FreshReads
  <2>2. Granted(q)' <=> GrantedBy(call'[q], f, g, L)
    BY <1>2 DEF Granted, GrantedBy, NetReceived, SettledTotal
  <2>3. CASE q = r  BY <1>1, <1>3, <2>2, <2>3
  <2>4. CASE q # r
    <3>1. Granted(q)  BY <1>3, <2>1, <2>4 DEF FreshReads
    <3>2. Granted(q) <=> GrantedBy(call[q], f, g, L)
      BY <1>1 DEF Granted, GrantedBy, NetReceived, SettledTotal
    <3> QED BY <1>3, <2>2, <2>4, <3>1, <3>2
  <2> QED BY <2>3, <2>4
<1>6. Voided("REFUND")' = Voided("REFUND")
  BY DEF Voided, IsLive, Exists
<1>7. NetWithoutRaces'
  BY <1>1, <1>2 DEF NetWithoutRaces, NetReceived
<1>8. SettledWithinPrice'
  BY <1>1, <1>2, <1>6 DEF SettledWithinPrice, SettledTotal, NetReceived
<1> QED BY <1>4, <1>5, <1>7, <1>8

\* After a commit nobody is about to write on reads that are still good.
LEMMA MoneyCommit ==
  ASSUME IInv, MoneyInv, NEW r \in Request, Commit(r)
  PROVE  RefundsPlain' /\ FreshReads'
<1>1. \A q \in Request : call'[q] =
        IF q = r THEN [call[q] EXCEPT !.at = "done"]
        ELSE IF call[q].at \in {"insert", "void"} THEN [call[q] EXCEPT !.stale = TRUE]
        ELSE call[q]
  BY DEF Commit
<1>2. \A q \in Request : call[q] \in Call
  BY DEF IInv, TypeOK
<1>3. RefundsPlain'
  BY <1>1, <1>2 DEF MoneyInv, RefundsPlain, Call
<1>4. \A q \in Request : call'[q].stale \/ call'[q].at \notin {"insert", "void"}
  BY <1>1, <1>2 DEF Call
<1>5. FreshReads'
  BY <1>4 DEF FreshReads, Granted
<1> QED BY <1>3, <1>5

\* A new entry adds its own amount, or takes it away when it is a refund.
LEMMA MoneyWrite ==
  ASSUME IInv, MoneyInv, NEW r \in Request, WriteEntry(r), gone = "no"
  PROVE  MoneyInv'
<1> DEFINE written == [entry[r] EXCEPT !.kind = call[r].kind,
                             !.amount = call[r].amount, !.discount = call[r].discount]
<1>00. call[r].at = "insert" /\ entry' = [entry EXCEPT ![r] = written] /\ Commit(r)
  BY DEF WriteEntry
<1>0. /\ ~Exists(r) /\ call[r].kind \in {"PAYMENT", "REFUND"} /\ call[r] \in Call
      /\ entry[r].voidedBy = NoOne /\ entry[r] \in Entry /\ TypeOK /\ TypeOK' /\ Commit(r)
  BY <1>00, WriteEntryStep DEF IInv, OneWriter, TypeOK
<1>1. PICK c \in Call : c = call[r]
  BY <1>0
<1>2. /\ c.amount \in Nat /\ c.discount \in Nat /\ Price \in Nat
      /\ c.kind = "REFUND" => c.discount = 0
  BY <1>00, <1>1, PaymentConstants DEF MoneyInv, RefundsPlain, Call
<1>3. /\ \A q \in Request \ {r} : entry'[q] = entry[q]
      /\ entry'[r].kind = c.kind /\ entry'[r].voidedBy = NoOne
      /\ entry'[r].amount = c.amount /\ entry'[r].discount = c.discount
  BY <1>00, <1>0, <1>1 DEF TypeOK, Entry, Call
<1>4. PICK f, g, F, G, L, M, V :
        /\ f = [e \in Request |-> Received(e)] /\ F = [e \in Request |-> Received(e)']
        /\ g = [e \in Request |-> Settled(e)]  /\ G = [e \in Request |-> Settled(e)']
        /\ L = Live /\ M = Live' /\ V = Voided("REFUND")
  OBVIOUS
<1>5. /\ M = L \union {r} /\ r \notin L /\ L \subseteq Request /\ V \subseteq Request /\ r \notin V
      /\ V = Voided("REFUND")'
  BY <1>0, <1>1, <1>3, <1>4 DEF Live, Voided, IsLive, Exists
<1>6. /\ \A e \in Request : f[e] \in Int /\ g[e] \in Int /\ F[e] \in Int /\ G[e] \in Int
      /\ \A e \in Request \ {r} : F[e] = f[e] /\ G[e] = g[e]
  <2>1. \A e \in Request \ {r} : Received(e)' = Received(e) /\ Settled(e)' = Settled(e)
    BY <1>3 DEF Received, Settled
  <2>2. \A e \in Request : Received(e) \in Int /\ Settled(e) \in Int
    BY <1>0, SumsOfEntries
  <2>3. \A e \in Request : Received(e)' \in Int /\ Settled(e)' \in Int
    BY <1>0, PaymentConstants DEF TypeOK, Entry, Received, Settled
  <2> QED BY <1>4, <2>1, <2>2, <2>3
<1>7. /\ F[r] = IF c.kind = "REFUND" THEN -c.amount ELSE c.amount
      /\ G[r] = F[r] + c.discount
  BY <1>3, <1>4 DEF Received, Settled
<1>8. IsFiniteSet(L) /\ IsFiniteSet(V)
  BY <1>0, <1>5, SumsOfEntries
<1>9. /\ SumFunctionOnSet(F, M) = F[r] + SumFunctionOnSet(F, L)
      /\ SumFunctionOnSet(G, M) = G[r] + SumFunctionOnSet(G, L)
  <2>1. \A e \in L \union {r} : F[e] \in Int /\ G[e] \in Int  BY <1>5, <1>6
  <2> QED BY <1>5, <1>8, <2>1, SumAdd
<1>10. /\ SumFunctionOnSet(F, L) = SumFunctionOnSet(f, L)
       /\ SumFunctionOnSet(G, L) = SumFunctionOnSet(g, L)
       /\ SumFunctionOnSet(F, V) = SumFunctionOnSet(f, V)
  <2>1. /\ \A e \in L : F[e] = f[e] /\ G[e] = g[e]
        /\ \A e \in V : F[e] = f[e]
    BY <1>5, <1>6
  <2> QED BY <1>8, <2>1, SumSame
<1>11. PICK net, all, void \in Int :
         /\ net = SumFunctionOnSet(f, L) /\ all = SumFunctionOnSet(g, L)
         /\ void = SumFunctionOnSet(f, V)
  BY <1>0, <1>4, <1>5, SumsOfEntries DEF NetReceived, SettledTotal
<1>12. /\ NetReceived(Live) = net /\ SettledTotal(Live) = all
       /\ NetReceived(Voided("REFUND")) = void
       /\ NetReceived(Live)' = F[r] + net /\ SettledTotal(Live)' = G[r] + all
       /\ NetReceived(Voided("REFUND"))' = void
  BY <1>4, <1>5, <1>9, <1>10, <1>11 DEF NetReceived, SettledTotal
<1>13. ASSUME ~raced' PROVE F[r] + net >= 0 /\ G[r] + all <= Price - void
  <2>1. ~raced /\ ~call[r].stale
    BY <1>0, <1>13 DEF Commit
  <2>2. /\ c.kind = "PAYMENT" => all + c.amount + c.discount <= Price
        /\ c.kind = "REFUND" => c.amount <= net
    BY <1>00, <1>1, <1>12, <2>1 DEF MoneyInv, FreshReads, Granted
  <2>3. net >= 0 /\ all <= Price - void
    BY <1>12, <2>1 DEF MoneyInv, NetWithoutRaces, SettledWithinPrice
  <2>4. void <= 0
    BY <1>0, <1>12, VoidedRefundsOut
  <2> QED BY <1>0, <1>1, <1>2, <1>7, <1>11, <2>2, <2>3, <2>4
<1> QED BY <1>0, <1>12, <1>13, MoneyCommit DEF MoneyInv, NetWithoutRaces, SettledWithinPrice

\* A void takes the entry out of the live ones; a refund that is voided joins
\* the voided refunds, and so makes as much room as its money takes up again.
LEMMA MoneyVoid ==
  ASSUME IInv, MoneyInv, NEW r \in Request, VoidEntry(r), IsLive(call[r].target)
  PROVE  MoneyInv'
<1>1. PICK e \in Request : e = call[r].target
  BY DEF IInv, TypeOK, Call
<1>2. /\ IsLive(e) /\ entry[e] \in Entry /\ TypeOK /\ TypeOK' /\ Commit(r) /\ call[r].at = "void"
      /\ gone = "no"
      /\ entry' = [entry EXCEPT ![e] = [@ EXCEPT !.voidedBy = r]]
  BY <1>1, VoidEntryStep DEF VoidEntry, IInv, TypeOK, OneWriter, IsLive
<1>3. /\ \A q \in Request : /\ entry'[q].kind = entry[q].kind
                            /\ entry'[q].amount = entry[q].amount
                            /\ entry'[q].discount = entry[q].discount
                            /\ q # e => entry'[q].voidedBy = entry[q].voidedBy
      /\ entry'[e].voidedBy = r /\ r # NoOne
  BY <1>2, PaymentConstants DEF TypeOK, Entry
<1>4. PICK f, g, L, V :
        /\ f = [q \in Request |-> Received(q)] /\ g = [q \in Request |-> Settled(q)]
        /\ L = Live /\ V = Voided("REFUND")
  OBVIOUS
<1>5. f = [q \in Request |-> Received(q)'] /\ g = [q \in Request |-> Settled(q)']
  <2>1. \A q \in Request : Received(q)' = Received(q) /\ Settled(q)' = Settled(q)
    BY <1>3 DEF Received, Settled
  <2> QED BY <1>4, <2>1
<1>6. /\ Live' = L \ {e} /\ e \in L /\ L \subseteq Request /\ e \notin V /\ V \subseteq Request
      /\ Voided("REFUND")' = IF entry[e].kind = "REFUND" THEN V \union {e} ELSE V
  BY <1>2, <1>3, <1>4 DEF Live, Voided, IsLive, Exists
<1>7. \A q \in Request : f[q] \in Int /\ g[q] \in Int
  BY <1>2, <1>4, SumsOfEntries
<1>8. IsFiniteSet(L) /\ IsFiniteSet(V)
  BY <1>2, <1>6, SumsOfEntries
<1>9. /\ SumFunctionOnSet(f, L) = f[e] + SumFunctionOnSet(f, L \ {e})
      /\ SumFunctionOnSet(g, L) = g[e] + SumFunctionOnSet(g, L \ {e})
      /\ SumFunctionOnSet(f, V \union {e}) = f[e] + SumFunctionOnSet(f, V)
  <2>1. /\ \A q \in L : f[q] \in Int /\ g[q] \in Int
        /\ \A q \in V \union {e} : f[q] \in Int
    BY <1>6, <1>7
  <2> QED BY <1>6, <1>8, <2>1, SumTakeOut, SumAdd
<1>10. PICK net, all, void \in Int :
         /\ net = SumFunctionOnSet(f, L \ {e}) /\ all = SumFunctionOnSet(g, L \ {e})
         /\ void = SumFunctionOnSet(f, V)
  <2>1. L \ {e} \in SUBSET Request /\ V \in SUBSET Request  BY <1>6
  <2> QED BY <1>2, <1>4, <2>1, SumsOfEntries DEF NetReceived, SettledTotal
<1>11. /\ SettledTotal(Live) = g[e] + all /\ NetReceived(Voided("REFUND")) = void
       /\ NetReceived(Live \ {call[r].target}) = net
       /\ NetReceived(Live)' = net /\ SettledTotal(Live)' = all
       /\ NetReceived(Voided("REFUND"))' =
            IF entry[e].kind = "REFUND" THEN f[e] + void ELSE void
  BY <1>1, <1>4, <1>5, <1>6, <1>9, <1>10 DEF NetReceived, SettledTotal
<1>12. ASSUME ~raced'
       PROVE  net >= 0 /\ all <= Price - NetReceived(Voided("REFUND"))'
  <2>1. ~raced /\ ~call[r].stale
    BY <1>2, <1>12 DEF Commit
  <2>2. net >= 0
    BY <1>2, <1>11, <2>1 DEF MoneyInv, FreshReads, Granted
  <2>3. g[e] + all <= Price - void /\ Price \in Nat
    BY <1>11, <2>1, PaymentConstants DEF MoneyInv, SettledWithinPrice
  <2>4. /\ entry[e].amount \in Nat /\ entry[e].discount \in Nat
        /\ f[e] = IF entry[e].kind = "REFUND" THEN -entry[e].amount ELSE entry[e].amount
        /\ g[e] = f[e] + entry[e].discount
    BY <1>2, <1>4, PaymentConstants DEF Entry, Received, Settled
  <2>5. CASE entry[e].kind = "REFUND"
    BY <1>7, <1>10, <1>11, <2>2, <2>3, <2>4, <2>5
  <2>6. CASE entry[e].kind # "REFUND"
    BY <1>7, <1>10, <1>11, <2>2, <2>3, <2>4, <2>6
  <2> QED BY <2>5, <2>6
<1> QED BY <1>2, <1>11, <1>12, MoneyCommit DEF MoneyInv, NetWithoutRaces, SettledWithinPrice

LEMMA MoneyInit == Init => MoneyInv
<1> SUFFICES ASSUME Init PROVE MoneyInv  OBVIOUS
<1>1. Live = {} /\ Voided("REFUND") = {}
  BY DEF Init, NoEntry, Live, Voided, IsLive, Exists
<1>2. NetReceived({}) = 0 /\ SettledTotal({}) = 0
  BY SumEmpty DEF NetReceived, SettledTotal
<1>3. NetWithoutRaces /\ SettledWithinPrice
  BY <1>1, <1>2, PaymentConstants DEF NetWithoutRaces, SettledWithinPrice
<1>4. RefundsPlain /\ FreshReads
  BY DEF Init, RefundsPlain, FreshReads, Granted
<1> QED BY <1>3, <1>4 DEF MoneyInv

\* Each rule grants what the write that follows relies on.
LEMMA MoneyReads ==
  ASSUME IInv, MoneyInv, NEW r \in Request,
         \/ \E a, d \in Amounts : RecordPayment(r, a, d)
         \/ \E a \in Amounts : RefundPayment(r, a)
         \/ \E e \in Request : FindPayment(r, e)
         \/ CheckRemaining(r)
         \/ GiveUp(r)
  PROVE  MoneyInv'
<1>0. call[r] \in Call /\ (call[r].at = "idle" => call[r].discount = 0) /\ UNCHANGED <<entry, audit, gone, raced>>
  BY DEF IInv, TypeOK, MoneyInv, RefundsPlain, RecordPayment, RefundPayment, FindPayment,
         CheckRemaining, GiveUp
<1> DEFINE Grants(c) ==
      /\ c \in Call /\ call' = [call EXCEPT ![r] = c]
      /\ c.at = "idle" \/ (c.at = "insert" /\ c.kind = "REFUND") => c.discount = 0
      /\ GrantedBy(c, [e \in Request |-> Received(e)], [e \in Request |-> Settled(e)], Live)
<1>1. ASSUME NEW c, Grants(c) PROVE MoneyInv'
  BY <1>0, <1>1, MoneyReadStep
<1>2. ASSUME NEW a \in Amounts, NEW d \in Amounts, RecordPayment(r, a, d) PROVE \E c : Grants(c)
  <2>1. PICK c : c = [call[r] EXCEPT !.at = "insert", !.kind = "PAYMENT",
                                     !.amount = a, !.discount = d]
    OBVIOUS
  <2>2. /\ c \in Call /\ c.at = "insert" /\ c.kind = "PAYMENT" /\ c.amount = a /\ c.discount = d
    BY <1>0, <2>1, PaymentConstants DEF Call, At, Kind
  <2>3. call' = [call EXCEPT ![r] = c] /\ SettledTotal(Live) + a + d <= Price
    BY <1>2, <2>1 DEF RecordPayment, MayPay
  <2> QED BY <2>2, <2>3 DEF GrantedBy, SettledTotal
<1>3. ASSUME NEW a \in Amounts, RefundPayment(r, a) PROVE \E c : Grants(c)
  <2>1. PICK c : c = [call[r] EXCEPT !.at = "insert", !.kind = "REFUND", !.amount = a]
    OBVIOUS
  <2>2. /\ c \in Call /\ c.at = "insert" /\ c.kind = "REFUND" /\ c.amount = a
        /\ c.discount = call[r].discount
    BY <1>0, <2>1, PaymentConstants DEF Call, At, Kind
  <2>3. call' = [call EXCEPT ![r] = c] /\ call[r].at = "idle" /\ a <= NetReceived(Live)
    BY <1>3, <2>1 DEF RefundPayment, MayRefund
  <2> QED BY <1>0, <2>2, <2>3 DEF GrantedBy, NetReceived
<1>4. ASSUME NEW e \in Request, FindPayment(r, e) PROVE \E c : Grants(c)
  <2>1. PICK c : c = [call[r] EXCEPT !.at = "found", !.target = e]
    OBVIOUS
  <2>2. c \in Call /\ c.at = "found"  BY <1>0, <2>1 DEF Call, At
  <2> QED BY <1>4, <2>1, <2>2 DEF GrantedBy, FindPayment
<1>5. ASSUME CheckRemaining(r) PROVE \E c : Grants(c)
  <2>1. PICK to : to = IF MayVoid(call[r].target) THEN "void" ELSE "done"
    OBVIOUS
  <2>2. PICK c : c = [call[r] EXCEPT !.at = to]
    OBVIOUS
  <2>3. c \in Call /\ c.at \in {"void", "done"} /\ c.at = to /\ c.target = call[r].target
    BY <1>0, <2>1, <2>2 DEF Call, At
  <2>4. c.at = "void" => NetReceived(Live \ {c.target}) >= 0
    BY <2>1, <2>3 DEF MayVoid
  <2> QED BY <1>5, <2>1, <2>2, <2>3, <2>4 DEF GrantedBy, CheckRemaining, NetReceived
<1>6. ASSUME GiveUp(r) PROVE \E c : Grants(c)
  <2>1. PICK c : c = [call[r] EXCEPT !.at = "done"]
    OBVIOUS
  <2>2. c \in Call /\ c.at = "done"  BY <1>0, <2>1 DEF Call, At
  <2> QED BY <1>6, <2>1, <2>2 DEF GrantedBy, GiveUp
<1> QED BY <1>1, <1>2, <1>3, <1>4, <1>5, <1>6

\* Nothing is left to add up.
LEMMA MoneyDeleted ==
  ASSUME IInv, MoneyInv, DeleteCustomer \/ DeleteAccount
  PROVE  MoneyInv'
<1>1. /\ gone' # "no" /\ UNCHANGED <<call, raced>> /\ \A e \in Request : ~Exists(e)'
  BY DEF DeleteCustomer, DeleteAccount, Exists, NoEntry
<1>2. Live' = {} /\ Voided("REFUND")' = {}
  <2>1. entry' = [e \in Request |-> NoEntry]  BY DEF DeleteCustomer, DeleteAccount
  <2> QED BY <1>1, <2>1 DEF Live, Voided, IsLive, NoEntry
<1>3. NetReceived({})' = 0 /\ SettledTotal({})' = 0
  BY SumEmpty DEF NetReceived, SettledTotal
<1>4. /\ NetReceived(Live)' = 0 /\ SettledTotal(Live)' = 0
      /\ NetReceived(Voided("REFUND"))' = 0
  BY <1>2, <1>3 DEF NetReceived, SettledTotal
<1>5. NetWithoutRaces' /\ SettledWithinPrice'
  BY <1>4, PaymentConstants DEF NetWithoutRaces, SettledWithinPrice
<1> QED BY <1>1, <1>5 DEF MoneyInv, RefundsPlain, FreshReads

LEMMA MoneyNext == IInv /\ MoneyInv /\ [Next]_vars => MoneyInv'
<1> SUFFICES ASSUME IInv, MoneyInv, [Next]_vars PROVE MoneyInv'  OBVIOUS
<1>1. CASE UNCHANGED vars
  BY <1>1 DEF vars, MoneyInv, RefundsPlain, FreshReads, Granted, NetWithoutRaces,
     SettledWithinPrice, NetReceived, SettledTotal, Received, Settled, Live, Voided, IsLive, Exists
<1>2. CASE Next
  <2>1. ASSUME NEW r \in Request, WriteEntry(r) PROVE MoneyInv'
    BY <2>1, MoneyWrite, MoneyReads DEF WriteEntry
  <2>2. ASSUME NEW r \in Request, VoidEntry(r) PROVE MoneyInv'
    BY <2>2, MoneyVoid, MoneyReads DEF VoidEntry
  <2> QED BY <1>2, <2>1, <2>2, MoneyReads, MoneyDeleted DEF Next
<1> QED BY <1>1, <1>2

LEMMA MoneyInvariance == Spec => []MoneyInv
<1> QED BY MoneyInit, MoneyNext, Invariance, PTL DEF Spec

\* Every state of the payments model has its types.
THEOREM TypeCorrect == Spec => []TypeOK
<1>1. IInv => TypeOK  BY DEF IInv
<1> QED BY <1>1, Invariance, PTL

\* The audit log explains the entries of a booking exactly, however many
\* cashiers write and void at once, and when the customer was deleted it still
\* tells of each entry how it was undone.
THEOREM AuditComplete == Spec => []AuditExplainsEntries
<1>1. IInv => AuditExplainsEntries  BY DEF IInv
<1> QED BY <1>1, Invariance, PTL

\* No step edits or un-voids an entry or changes who voided it, and an entry
\* that stands is deleted only with the whole account: deleting its customer
\* takes voided entries alone, whatever is written meanwhile.
THEOREM NothingRewritten == Spec => EntriesFrozen
<1> QED BY NextInv, Invariance, PTL DEF Spec, EntriesFrozen

\* The net of a booking is never negative as long as no request has written
\* upon reads that another commit had made out of date.
THEOREM NetNeverNegative == Spec => []NetWithoutRaces
<1>1. MoneyInv => NetWithoutRaces  BY DEF MoneyInv
<1> QED BY <1>1, MoneyInvariance, PTL

\* Nor is it settled beyond its price by more than the voided refunds.
THEOREM NeverOversettled == Spec => []SettledWithinPrice
<1>1. MoneyInv => SettledWithinPrice  BY DEF MoneyInv
<1> QED BY <1>1, MoneyInvariance, PTL
=============================================================================

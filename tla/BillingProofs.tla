---------------------------- MODULE BillingProofs ----------------------------
(***************************************************************************)
(* Proofs about Billing, for any users, tabs, customers, subscriptions and *)
(* handlers: for deliveries in any order first, then in order.             *)
(*                                                                         *)
(* Everything rests on one fact: the customer that stands in a row of      *)
(* users was created in that user's own checkout.                          *)
(***************************************************************************)
EXTENDS Billing, FiniteSetTheorems, TLAPS

TabPc     == {"idle", "read", "stripe", "session", "save", "page"}
HandlerPc == {"idle", "user", "upsert", "count", "generate", "sub", "cancel", "revoke", "failed"}
TabType     == [pc : TabPc, user : User \cup {None}, old : Customer \cup {None}, cust : Customer \cup {None}]
HandlerType == [pc : HandlerPc, event : Event \cup {<<>>}, user : User \cup {None}]
LogType     == [cust : Customer \cup {None}, states : Seq(Status)]

UserRight(u) == customer[u] # None => account[customer[u]] = u

TabRight(t) ==
  /\ tab[t].pc # "idle" => tab[t].user \in User
  /\ tab[t].pc \in {"session", "save", "page"} => tab[t].cust # None
  /\ \A c \in {tab[t].old, tab[t].cust} \ {None} : account[c] = tab[t].user /\ tab[t].user \in User

LogRight(s) ==
  /\ log[s].states # <<>> <=> log[s].cust # None
  /\ log[s].cust # None /\ log[s].cust \notin Foreign => account[log[s].cust] \in User

RowRight(s) ==
  subs[s] # None => log[s].states # <<>> /\ account[log[s].cust] = subs[s].user

HandlerRight(h) ==
  /\ ~At(h, "idle") => handler[h].event \in Event /\ handler[h].event[2] <= Len(log[SubOf(h)].states)
  /\ handler[h].pc \in {"upsert", "count", "generate"} =>
       handler[h].user \in User /\ account[log[SubOf(h)].cust] = handler[h].user
  /\ handler[h].pc \in {"count", "generate"} => StatusOf(h) = "active"
  /\ handler[h].pc \in {"sub", "cancel", "revoke"} => StatusOf(h) = "canceled"
  /\ handler[h].pc \in {"count", "generate", "cancel", "revoke"} =>
       subs[SubOf(h)] # None /\ subs[SubOf(h)].user = handler[h].user

(* The inductive invariant: type, ownership, and what every request knows. *)
OwnInv ==
  /\ TypeOK
  /\ \A u \in User : UserRight(u)
  /\ \A c \in Foreign : account[c] = None
  /\ \A t \in Tab : TabRight(t)
  /\ \A s \in Sub : LogRight(s) /\ RowRight(s)
  /\ \A h \in Handler : HandlerRight(h)
  /\ LicenseBacked

(* What no step takes back: an account, a subscription's customer and past   *)
(* states, a row and its user.                                               *)
Grows ==
  /\ \A c \in Customer : account[c] # None => account'[c] = account[c]
  /\ \A s \in Sub : log[s].states # <<>> => log'[s].cust = log[s].cust
  /\ \A s \in Sub : Len(log[s].states) <= Len(log'[s].states)
  /\ \A s \in Sub : \A n \in 1 .. Len(log[s].states) : log'[s].states[n] = log[s].states[n]
  /\ \A s \in Sub : subs[s] # None => subs'[s] # None /\ subs'[s].user = subs[s].user

-----------------------------------------------------------------------------
(* A state that is appended is one that the subscription has been in. *)
LEMMA AppendSeen ==
  ASSUME NEW q \in Seq(Status), NEW st \in Status, NEW x
  PROVE  /\ Append(q, st) \in Seq(Status) /\ Append(q, st) # <<>>
         /\ Len(Append(q, st)) = Len(q) + 1
         /\ \A n \in 1 .. Len(q) : Append(q, st)[n] = q[n]
         /\ (\E n \in DOMAIN Append(q, st) : Append(q, st)[n] = x)
              <=> (\E n \in DOMAIN q : q[n] = x) \/ st = x
<1>1. DOMAIN Append(q, st) = 1 .. (Len(q) + 1) /\ DOMAIN q = 1 .. Len(q) /\ Len(q) \in Nat
  OBVIOUS
<1>2. Append(q, st)[Len(q) + 1] = st /\ \A n \in 1 .. Len(q) : Append(q, st)[n] = q[n]
  OBVIOUS
<1>3. Append(q, st) \in Seq(Status) /\ Append(q, st) # <<>> /\ Len(Append(q, st)) = Len(q) + 1
  <2>1. Append(q, st) \in Seq(Status)
    OBVIOUS
  <2>2. Len(Append(q, st)) = Len(q) + 1
    OBVIOUS
  <2>3. Append(q, st) # <<>>
    <3>1. Len(<<>>) = 0
      OBVIOUS
    <3> QED BY <1>1, <2>2, <3>1
  <2> QED BY <2>1, <2>2, <2>3
<1>4. ASSUME NEW n \in DOMAIN Append(q, st), Append(q, st)[n] = x
      PROVE  (\E k \in DOMAIN q : q[k] = x) \/ st = x
  BY <1>1, <1>2, <1>4
<1>5. ASSUME NEW n \in DOMAIN q, q[n] = x
      PROVE  \E k \in DOMAIN Append(q, st) : Append(q, st)[k] = x
  <2>1. n \in DOMAIN Append(q, st) /\ Append(q, st)[n] = x
    BY <1>1, <1>2, <1>5
  <2> QED BY <2>1
<1>6. ASSUME st = x PROVE \E k \in DOMAIN Append(q, st) : Append(q, st)[k] = x
  <2>1. Len(q) + 1 \in DOMAIN Append(q, st) /\ Append(q, st)[Len(q) + 1] = x
    BY <1>1, <1>2, <1>6
  <2> QED BY <2>1
<1> QED BY <1>2, <1>3, <1>4, <1>5, <1>6

(* At the start there is nothing. *)
LEMMA OwnInit == Init => OwnInv
<1> SUFFICES ASSUME Init PROVE OwnInv
  OBVIOUS
<1>1. NoTab \in TabType /\ Free \in HandlerType
  BY DEF NoTab, Free, TabType, HandlerType, TabPc, HandlerPc
<1>2. TypeOK
  BY <1>1, BillingAssumption DEF Init, TypeOK, TabType, HandlerType, TabPc, HandlerPc
<1>3. \A u \in User : licenses[u] = 0
  BY DEF Init
<1>4. LicenseBacked
  BY <1>3 DEF LicenseBacked
<1>5. \A t \in Tab : TabRight(t)
  BY DEF Init, TabRight, NoTab
<1>6. \A h \in Handler : HandlerRight(h)
  BY DEF Init, HandlerRight, Free, At
<1>7. \A s \in Sub : LogRight(s) /\ RowRight(s)
  BY BillingAssumption DEF Init, LogRight, RowRight
<1>8. \A c \in Foreign : account[c] = None
  BY BillingAssumption DEF Init
<1>9. \A u \in User : UserRight(u)
  BY DEF Init, UserRight
<1> QED BY <1>2, <1>4, <1>5, <1>6, <1>7, <1>8, <1>9 DEF OwnInv

-----------------------------------------------------------------------------
(* What a step that only adds keeps. *)

(* A user's license has a subscription of the user's own behind it. *)
Backed(u) ==
  \E s \in Sub : /\ subs[s] # None /\ subs[s].user = u
                 /\ account[log[s].cust] = u
                 /\ \E n \in DOMAIN log[s].states : log[s].states[n] = "active"

(* The customer of a subscription that has begun stays, with its account. *)
LEMMA CustStays ==
  ASSUME TypeOK, Grows, NEW s \in Sub, LogRight(s), log[s].states # <<>>
  PROVE  /\ log[s].cust \in Customer /\ log'[s].cust = log[s].cust
         /\ account[log[s].cust] # None => account'[log'[s].cust] = account[log[s].cust]
<1>1. log[s].cust \in Customer \cup {None}
  BY DEF TypeOK
<1>2. log[s].cust \in Customer
  BY <1>1 DEF LogRight
<1> QED BY <1>2 DEF Grows

(* A page that is not touched stays right. *)
LEMMA TabStays ==
  ASSUME TypeOK, Grows, NEW t \in Tab, TabRight(t), tab'[t] = tab[t]
  PROVE  TabRight(t)'
<1>1. tab[t].old \in Customer \cup {None} /\ tab[t].cust \in Customer \cup {None}
  BY DEF TypeOK
<1>2. ASSUME NEW c \in {tab[t].old, tab[t].cust} \ {None}
      PROVE  account'[c] = tab[t].user /\ tab[t].user \in User
  BY <1>1, BillingAssumption DEF TabRight, Grows
<1> QED BY <1>2 DEF TabRight

(* A row that is not touched stays right. *)
LEMMA RowStays ==
  ASSUME TypeOK, Grows, NEW s \in Sub, LogRight(s), RowRight(s), subs'[s] = subs[s],
         log'[s].states # <<>> \/ log[s].states = <<>>
  PROVE  RowRight(s)'
<1>1. subs[s] # None => subs[s].user \in User
  BY DEF TypeOK, Row
<1> QED BY <1>1, CustStays, BillingAssumption DEF RowRight

(* A request that is not touched stays right. *)
LEMMA HandlerStays ==
  ASSUME TypeOK, Grows, NEW h \in Handler, HandlerRight(h), handler'[h] = handler[h],
         \A s \in Sub : LogRight(s),
         ~At(h, "idle") => Len(log'[SubOf(h)].states) \in Nat
  PROVE  HandlerRight(h)'
<1> SUFFICES ASSUME ~At(h, "idle") PROVE HandlerRight(h)'
  BY DEF HandlerRight, At
<1>1. PICK s \in Sub, n \in 1 .. MaxVersion : handler[h].event = <<s, n>> /\ n <= Len(log[s].states)
  BY DEF HandlerRight, Event, SubOf
<1>2. Len(log[s].states) \in Nat /\ n \in 1 .. Len(log[s].states)
  BY <1>1 DEF TypeOK
<1>3. n <= Len(log'[s].states) /\ log'[s].states[n] = log[s].states[n]
  BY <1>1, <1>2 DEF Grows, SubOf
<1>4. log[s].states # <<>>
  BY <1>2
<1>5. SubOf(h) = s /\ SubOf(h)' = s /\ StatusOf(h) = log[s].states[n] /\ StatusOf(h)' = log'[s].states[n]
  BY <1>1 DEF SubOf, StatusOf
<1>6. subs[s] # None => subs'[s] # None /\ subs'[s].user = subs[s].user
  BY DEF Grows
<1> QED BY <1>1, <1>3, <1>4, <1>5, <1>6, CustStays, BillingAssumption DEF HandlerRight, At

(* What backs a license stays. *)
LEMMA BackedStays ==
  ASSUME TypeOK, Grows, \A s \in Sub : LogRight(s), \A s \in Sub : log'[s].states \in Seq(Status),
         NEW u \in User, Backed(u)
  PROVE  Backed(u)'
<1>1. PICK s \in Sub : /\ subs[s] # None /\ subs[s].user = u
                       /\ account[log[s].cust] = u
                       /\ \E n \in DOMAIN log[s].states : log[s].states[n] = "active"
  BY DEF Backed
<1>2. PICK n \in DOMAIN log[s].states : log[s].states[n] = "active"
  BY <1>1
<1>3. log[s].states \in Seq(Status) /\ log'[s].states \in Seq(Status)
  BY DEF TypeOK
<1>4. n \in 1 .. Len(log[s].states) /\ log[s].states # <<>>
  BY <1>2, <1>3
<1>5. n \in DOMAIN log'[s].states /\ log'[s].states[n] = "active"
  BY <1>2, <1>3, <1>4 DEF Grows
<1>6. subs'[s] # None /\ subs'[s].user = u
  BY <1>1 DEF Grows
<1>7. account'[log'[s].cust] = u
  BY <1>1, <1>4, CustStays, BillingAssumption
<1> QED BY <1>5, <1>6, <1>7 DEF Backed

-----------------------------------------------------------------------------
(* Every step keeps the types. *)
LEMMA TypeKept == ASSUME OwnInv, [Next]_vars PROVE TypeOK'
<1>t. NoTab \in TabType /\ Free \in HandlerType
  BY DEF NoTab, Free, TabType, HandlerType, TabPc, HandlerPc
<1>d. /\ tab \in [Tab -> TabType] /\ handler \in [Handler -> HandlerType]
      /\ subs \in [Sub -> Row \cup {None}] /\ log \in [Sub -> LogType]
      /\ customer \in [User -> Customer \cup {None}] /\ licenses \in [User -> Nat]
      /\ account \in [Customer -> User \cup {None}] /\ due \in SUBSET Event
      /\ \A s \in Sub : Len(log[s].states) <= MaxVersion
  BY DEF OwnInv, TypeOK, TabType, HandlerType, TabPc, HandlerPc, Row, LogType
<1>r. (\A t \in Tab : TabRight(t)) /\ \A h \in Handler : HandlerRight(h)
  BY DEF OwnInv
<1>b. ASSUME tab' \in [Tab -> TabType], handler' \in [Handler -> HandlerType],
             subs' \in [Sub -> Row \cup {None}], log' \in [Sub -> LogType],
             customer' \in [User -> Customer \cup {None}], licenses' \in [User -> Nat],
             account' \in [Customer -> User \cup {None}],
             \A s \in Sub : Len(log'[s].states) <= MaxVersion, due' \in SUBSET Event
      PROVE  TypeOK'
  BY <1>b DEF TypeOK, TabType, HandlerType, TabPc, HandlerPc, Row, LogType
<1>h. ASSUME NEW h \in Handler, ~At(h, "idle")
      PROVE  /\ handler[h].event \in Event /\ SubOf(h) \in Sub /\ StatusOf(h) \in Status
             /\ handler[h].event[2] \in DOMAIN log[SubOf(h)].states
  <2>1. PICK s \in Sub, n \in 1 .. MaxVersion : handler[h].event = <<s, n>> /\ n <= Len(log[s].states)
    BY <1>h, <1>r DEF HandlerRight, Event, SubOf
  <2>2. n \in DOMAIN log[s].states /\ log[s].states[n] \in Status
    BY <2>1, <1>d DEF LogType
  <2> QED BY <2>1, <2>2 DEF SubOf, StatusOf, Event
<1>1. ASSUME NEW t \in Tab, NEW u \in User, OpenCheckout(t, u) PROVE TypeOK'
  <2>1. tab' \in [Tab -> TabType]
    BY <1>1, <1>t, <1>d DEF OpenCheckout, TabType, TabPc
  <2> QED BY <1>1, <1>b, <1>d, <2>1 DEF OpenCheckout, dbVars, stripeVars
<1>2. ASSUME NEW t \in Tab, ReadCustomer(t) PROVE TypeOK'
  <2>1. tab' \in [Tab -> TabType]
    <3>1. tab[t] \in TabType /\ tab[t].user \in User
      BY <1>2, <1>d, <1>r DEF ReadCustomer, TabRight
    <3>2. customer[tab[t].user] \in Customer \cup {None}
      BY <3>1, <1>d
    <3>3. [tab[t] EXCEPT !.pc = "stripe", !.old = customer[tab[t].user]] \in TabType
      BY <3>1, <3>2 DEF TabType, TabPc
    <3> QED BY <1>2, <1>d, <3>3 DEF ReadCustomer
  <2> QED BY <1>2, <1>b, <1>d, <2>1 DEF ReadCustomer, dbVars, stripeVars
<1>3. ASSUME NEW t \in Tab, NewCustomer(t) PROVE TypeOK'
  <2>1. tab' \in [Tab -> TabType]
    <3>1. tab[t] \in TabType
      BY <1>d
    <3>2. PICK c \in Customer \cup {None} : tab' = [tab EXCEPT ![t].pc = "session", ![t].cust = c]
      BY <1>3, <3>1 DEF NewCustomer, TabType
    <3>3. [tab[t] EXCEPT !.pc = "session", !.cust = c] \in TabType
      BY <3>1 DEF TabType, TabPc
    <3> QED BY <1>d, <3>2, <3>3
  <2>2. account' \in [Customer -> User \cup {None}]
    BY <1>3, <1>d DEF NewCustomer, TabType
  <2> QED BY <1>3, <1>b, <1>d, <2>1, <2>2 DEF NewCustomer, dbVars
<1>s. ASSUME NEW t \in Tab, NewSession(t) PROVE TypeOK'
  <2>1. [tab[t] EXCEPT !.pc = "save"] \in TabType
    BY <1>d DEF TabType, TabPc
  <2>2. tab' \in [Tab -> TabType]
    BY <1>s, <1>d, <2>1 DEF NewSession
  <2> QED BY <1>s, <1>b, <1>d, <2>2 DEF NewSession, dbVars, stripeVars
<1>4. ASSUME NEW t \in Tab, SaveCustomer(t) PROVE TypeOK'
  <2>1. tab' \in [Tab -> TabType]
    <3>1. [tab[t] EXCEPT !.pc = "page", !.old = None] \in TabType
      BY <1>d DEF TabType, TabPc
    <3> QED BY <1>4, <1>d, <3>1 DEF SaveCustomer
  <2>2. customer' \in [User -> Customer \cup {None}]
    BY <1>4, <1>d DEF SaveCustomer, TabType
  <2> QED BY <1>4, <1>b, <1>d, <2>1, <2>2 DEF SaveCustomer, stripeVars
<1>5. ASSUME NEW t \in Tab, LeaveCheckout(t) PROVE TypeOK'
  <2>1. tab' \in [Tab -> TabType]
    BY <1>5, <1>t, <1>d DEF LeaveCheckout
  <2> QED BY <1>5, <1>b, <1>d, <2>1 DEF LeaveCheckout, dbVars, stripeVars
<1>6. ASSUME NEW s \in Sub, NEW c \in Customer, NEW st \in Status, Subscribe(s, c, st) PROVE TypeOK'
  <2>1. tab' \in [Tab -> TabType]
    BY <1>6, <1>t, <1>d DEF Subscribe
  <2>2. <<st>> \in Seq(Status) /\ Len(<<st>>) = 1 /\ 1 <= MaxVersion /\ <<s, 1>> \in Event
    BY BillingAssumption DEF Event
  <2>3. log' \in [Sub -> LogType] /\ \A r \in Sub : Len(log'[r].states) <= MaxVersion
    BY <1>6, <1>d, <2>2 DEF Subscribe, LogType
  <2>4. due' \in SUBSET Event
    BY <1>6, <1>d, <2>2 DEF Subscribe
  <2> QED BY <1>6, <1>b, <1>d, <2>1, <2>3, <2>4 DEF Subscribe, dbVars
<1>7. ASSUME NEW s \in Sub, NEW st \in Status, Change(s, st) PROVE TypeOK'
  <2>1. log[s].states \in Seq(Status) /\ Len(log[s].states) \in Nat /\ Len(log[s].states) < MaxVersion
    BY <1>7, <1>d DEF Change, LogType
  <2>2. /\ Append(log[s].states, st) \in Seq(Status)
        /\ Len(Append(log[s].states, st)) = Len(log[s].states) + 1
        /\ Len(log[s].states) + 1 \in 1 .. MaxVersion
    BY <2>1, BillingAssumption
  <2>3. log' \in [Sub -> LogType] /\ \A r \in Sub : Len(log'[r].states) <= MaxVersion
    BY <1>7, <1>d, <2>1, <2>2 DEF Change, LogType
  <2>4. due' \in SUBSET Event
    BY <1>7, <1>d, <2>2 DEF Change, Event
  <2> QED BY <1>7, <1>b, <1>d, <2>3, <2>4 DEF Change, dbVars
<1>8. ASSUME NEW h \in Handler, NEW e \in Event, Deliver(h, e) PROVE TypeOK'
  <2>1. handler' \in [Handler -> HandlerType]
    BY <1>8, <1>t, <1>d DEF Deliver, HandlerType, HandlerPc
  <2> QED BY <1>8, <1>b, <1>d, <2>1 DEF Deliver, dbVars, stripeVars
<1>9. ASSUME NEW h \in Handler, Fail(h) PROVE TypeOK'
  <2>1. handler' \in [Handler -> HandlerType]
    <3>1. [handler[h] EXCEPT !.pc = "failed", !.user = None] \in HandlerType
      BY <1>d DEF HandlerType, HandlerPc
    <3> QED BY <1>9, <1>d, <3>1 DEF Fail, Die
  <2> QED BY <1>9, <1>b, <1>d, <2>1 DEF Fail, Die, dbVars, stripeVars
<1>k. ASSUME NEW h \in Handler, OK(h) \/ NotAnswered(h), ~At(h, "idle")
      PROVE  handler' \in [Handler -> HandlerType] /\ due' \in SUBSET Event
  <2>1. [handler[h] EXCEPT !.pc = "failed", !.user = None] \in HandlerType
    BY <1>d DEF HandlerType, HandlerPc
  <2>2. CASE Die(h)
    BY <2>1, <2>2, <1>d DEF Die
  <2>3. CASE ~Die(h)
    BY <2>3, <1>k, <1>t, <1>d, <1>h DEF OK, NotAnswered
  <2> QED BY <2>2, <2>3
<1>g. ASSUME NEW h \in Handler, NEW pc \in HandlerPc, Goto(h, pc)
      PROVE  handler' \in [Handler -> HandlerType] /\ due' \in SUBSET Event
  <2>1. [handler[h] EXCEPT !.pc = pc] \in HandlerType
    BY <1>d DEF HandlerType
  <2> QED BY <1>g, <1>d, <2>1 DEF Goto
<1>u. ASSUME NEW h \in Handler, NEW pc \in HandlerPc, NEW u \in User,
             handler' = [handler EXCEPT ![h].pc = pc, ![h].user = u], due' = due
      PROVE  handler' \in [Handler -> HandlerType] /\ due' \in SUBSET Event
  <2>1. [handler[h] EXCEPT !.pc = pc, !.user = u] \in HandlerType
    BY <1>d DEF HandlerType
  <2> QED BY <1>u, <1>d, <2>1
<1>10. ASSUME NEW h \in Handler, Handle(h) PROVE TypeOK'
  <2>1. CASE LookupUser(h)
    <3>1. handler' \in [Handler -> HandlerType] /\ due' \in SUBSET Event
      BY <2>1, <1>k, <1>u DEF LookupUser, At, HandlerPc, UserOf
    <3> QED BY <2>1, <3>1, <1>b, <1>d DEF LookupUser, dbVars
  <2>2. CASE UpsertRow(h)
    <3>1. handler' \in [Handler -> HandlerType] /\ due' \in SUBSET Event
      BY <2>2, <1>k, <1>g DEF UpsertRow, At, HandlerPc
    <3>2. subs' \in [Sub -> Row \cup {None}]
      BY <2>2, <1>d, <1>h, <1>r DEF UpsertRow, Upserted, At, Row, HandlerRight
    <3> QED BY <2>2, <3>1, <3>2, <1>b, <1>d DEF UpsertRow
  <2>3. CASE CountLicenses(h)
    <3>1. handler' \in [Handler -> HandlerType] /\ due' \in SUBSET Event
      BY <2>3, <1>k, <1>g DEF CountLicenses, At, HandlerPc
    <3> QED BY <2>3, <3>1, <1>b, <1>d DEF CountLicenses, dbVars
  <2>4. CASE Generate(h)
    <3>1. handler' \in [Handler -> HandlerType] /\ due' \in SUBSET Event
      BY <2>4, <1>k DEF Generate, At
    <3>2. licenses' \in [User -> Nat]
      <4>1. handler[h].user \in User => licenses[handler[h].user] + 1 \in Nat
        BY <1>d
      <4> QED BY <2>4, <1>d, <1>r, <4>1 DEF Generate, HandlerRight, At
    <3> QED BY <2>4, <3>1, <3>2, <1>b, <1>d DEF Generate
  <2>5. CASE LookupSub(h)
    <3>1. subs[SubOf(h)] # None => subs[SubOf(h)].user \in User
      BY <2>5, <1>d, <1>h DEF LookupSub, At, Row
    <3>2. handler' \in [Handler -> HandlerType] /\ due' \in SUBSET Event
      BY <2>5, <3>1, <1>k, <1>u DEF LookupSub, At, HandlerPc
    <3> QED BY <2>5, <3>2, <1>b, <1>d DEF LookupSub, dbVars
  <2>6. CASE MarkCanceled(h)
    <3>1. handler' \in [Handler -> HandlerType] /\ due' \in SUBSET Event
      BY <2>6, <1>g DEF MarkCanceled, HandlerPc
    <3>2. subs[SubOf(h)] \in Row
      BY <2>6, <1>h, <1>d, <1>r DEF MarkCanceled, At, HandlerRight
    <3>3. subs' \in [Sub -> Row \cup {None}]
      BY <2>6, <3>2, <1>d DEF MarkCanceled, Row, Status
    <3> QED BY <2>6, <3>1, <3>3, <1>b, <1>d DEF MarkCanceled
  <2>7. CASE RevokeAllForUser(h)
    <3>1. handler' \in [Handler -> HandlerType] /\ due' \in SUBSET Event
      BY <2>7, <1>k DEF RevokeAllForUser, At
    <3>2. licenses' \in [User -> Nat]
      BY <2>7, <1>d DEF RevokeAllForUser
    <3> QED BY <2>7, <3>1, <3>2, <1>b, <1>d DEF RevokeAllForUser
  <2>8. CASE EndFailed(h)
    <3>1. handler' \in [Handler -> HandlerType] /\ due' \in SUBSET Event
      BY <2>8, <1>k DEF EndFailed, At
    <3> QED BY <2>8, <3>1, <1>b, <1>d DEF EndFailed, dbVars
  <2> QED BY <1>10, <2>1, <2>2, <2>3, <2>4, <2>5, <2>6, <2>7, <2>8 DEF Handle
<1>11. CASE UNCHANGED vars
  BY <1>11, <1>b, <1>d DEF vars
<1> QED BY <1>1, <1>2, <1>3, <1>s, <1>4, <1>5, <1>6, <1>7, <1>8, <1>9, <1>10, <1>11 DEF Next

-----------------------------------------------------------------------------
(* A request that is at a row has one of the types' subscriptions. *)
LEMMA AtRow ==
  ASSUME TypeOK, NEW h \in Handler, HandlerRight(h), ~At(h, "idle")
  PROVE  /\ SubOf(h) \in Sub /\ StatusOf(h) \in Status
         /\ handler[h].event[2] \in DOMAIN log[SubOf(h)].states
         /\ log[SubOf(h)].states # <<>>
<1>1. PICK s \in Sub, n \in 1 .. MaxVersion : handler[h].event = <<s, n>> /\ n <= Len(log[s].states)
  BY DEF HandlerRight, Event, SubOf
<1>2. log[s].states \in Seq(Status)
  BY DEF TypeOK
<1>3. n \in DOMAIN log[s].states /\ log[s].states[n] \in Status /\ log[s].states # <<>>
  BY <1>1, <1>2
<1> QED BY <1>1, <1>3 DEF SubOf, StatusOf

(* No step takes back what Grows lists. *)
LEMMA GrowsKept == ASSUME OwnInv, [Next]_vars PROVE Grows
<1>d. /\ TypeOK /\ \A t \in Tab : TabRight(t)
      /\ \A h \in Handler : HandlerRight(h)
      /\ \A s \in Sub : log[s].states \in Seq(Status) /\ Len(log[s].states) \in Nat
      /\ log \in [Sub -> LogType] /\ subs \in [Sub -> Row \cup {None}]
      /\ account \in [Customer -> User \cup {None}]
  BY DEF OwnInv, TypeOK, LogType, Row
<1>1. CASE UNCHANGED <<account, log, subs>>
  BY <1>1, <1>d DEF Grows
<1>2. ASSUME NEW t \in Tab, NewCustomer(t) PROVE Grows
  BY <1>2, <1>d DEF NewCustomer, Grows, dbVars
<1>3. ASSUME NEW s \in Sub, NEW c \in Customer, NEW st \in Status, Subscribe(s, c, st) PROVE Grows
  <2>1. log[s].states = <<>> /\ log' = [log EXCEPT ![s] = [cust |-> c, states |-> <<st>>]]
        /\ UNCHANGED <<subs, account>>
    BY <1>3 DEF Subscribe, Unused, dbVars
  <2>2. Len(log[s].states) = 0 /\ Len(<<st>>) = 1
    BY <2>1
  <2>3. \A r \in Sub \ {s} : log'[r] = log[r]
    BY <2>1, <1>d
  <2>4. log'[s].states = <<st>>
    BY <2>1, <1>d
  <2> QED BY <2>1, <2>2, <2>3, <2>4, <1>d DEF Grows
<1>4. ASSUME NEW s \in Sub, NEW st \in Status, Change(s, st) PROVE Grows
  <2>1. log' = [log EXCEPT ![s] = [cust |-> log[s].cust, states |-> Append(log[s].states, st)]]
        /\ UNCHANGED <<subs, account>>
    BY <1>4 DEF Change, dbVars
  <2>2. \A r \in Sub \ {s} : log'[r] = log[r]
    BY <2>1, <1>d
  <2>3. log'[s].cust = log[s].cust /\ log'[s].states = Append(log[s].states, st)
    BY <2>1, <1>d
  <2>4. /\ Len(log'[s].states) = Len(log[s].states) + 1
        /\ \A n \in 1 .. Len(log[s].states) : log'[s].states[n] = log[s].states[n]
    BY <2>3, <1>d, AppendSeen
  <2> QED BY <2>1, <2>2, <2>3, <2>4, <1>d DEF Grows
<1>5. ASSUME NEW h \in Handler, UpsertRow(h) PROVE Grows
  <2>1. subs' = [subs EXCEPT ![SubOf(h)] = Upserted(h)] /\ UNCHANGED <<account, log>>
    BY <1>5 DEF UpsertRow
  <2>2. SubOf(h) \in Sub /\ StatusOf(h) \in Status
    BY <1>5, <1>d, AtRow DEF UpsertRow, At
  <2>3. Upserted(h) # None /\ (subs[SubOf(h)] # None => Upserted(h).user = subs[SubOf(h)].user)
    <3>3. handler[h].user \in User
      BY <1>5, <1>d DEF UpsertRow, At, HandlerRight
    <3>4. subs[SubOf(h)] # None => subs[SubOf(h)].user \in User
      BY <2>2, <1>d DEF Row
    <3>5. \E u \in User, st \in Status : Upserted(h) = [user |-> u, status |-> st]
      BY <2>2, <3>3, <3>4 DEF Upserted
    <3>6. Upserted(h) \in Row
      BY <3>5 DEF Row
    <3> QED BY <3>6, BillingAssumption DEF Upserted
  <2> QED BY <2>1, <2>2, <2>3, <1>d DEF Grows
<1>6. ASSUME NEW h \in Handler, MarkCanceled(h) PROVE Grows
  <2>1. subs' = [subs EXCEPT ![SubOf(h)].status = "canceled"] /\ UNCHANGED <<account, log>>
    BY <1>6 DEF MarkCanceled
  <2>2. SubOf(h) \in Sub /\ subs[SubOf(h)] \in Row
    BY <1>6, <1>d, AtRow DEF MarkCanceled, At, HandlerRight
  <2>3. /\ subs'[SubOf(h)] = [subs[SubOf(h)] EXCEPT !.status = "canceled"]
        /\ \A s \in Sub \ {SubOf(h)} : subs'[s] = subs[s]
    BY <2>1, <2>2, <1>d
  <2>4. subs'[SubOf(h)] \in Row /\ subs'[SubOf(h)].user = subs[SubOf(h)].user
    BY <2>2, <2>3 DEF Row, Status
  <2> QED BY <2>1, <2>3, <2>4, BillingAssumption DEF Grows
<1> QED BY <1>1, <1>2, <1>3, <1>4, <1>5, <1>6
     DEF Next, vars, dbVars, stripeVars, OpenCheckout, ReadCustomer, NewSession, SaveCustomer, LeaveCheckout,
         Deliver, Fail, Die, Handle, LookupUser, CountLicenses, Generate, LookupSub, RevokeAllForUser, EndFailed

-----------------------------------------------------------------------------
(* Every step keeps the ownership of users, pages and subscriptions ... *)
LEMMA OwnersKept ==
  ASSUME OwnInv, [Next]_vars
  PROVE  /\ \A u \in User : UserRight(u)'
         /\ \A c \in Foreign : account'[c] = None
         /\ \A t \in Tab : TabRight(t)'
         /\ \A s \in Sub : LogRight(s)'
<1>d. /\ TypeOK /\ Grows
      /\ \A u \in User : UserRight(u)
      /\ \A c \in Foreign : account[c] = None
      /\ \A t \in Tab : TabRight(t)
      /\ \A s \in Sub : LogRight(s)
      /\ tab \in [Tab -> TabType] /\ customer \in [User -> Customer \cup {None}]
      /\ account \in [Customer -> User \cup {None}] /\ log \in [Sub -> LogType]
  BY GrowsKept DEF OwnInv, TypeOK, TabType, TabPc, LogType
<1>u. ASSUME NEW u \in User, customer'[u] = customer[u] PROVE UserRight(u)'
  BY <1>u, <1>d, BillingAssumption DEF UserRight, Grows
<1>l. ASSUME NEW s \in Sub, log'[s] = log[s],
             \A c \in Customer : account'[c] = account[c] \/ account[c] = None
      PROVE  LogRight(s)'
  <2>1. log[s].cust \in Customer \cup {None}
    BY <1>d DEF LogType
  <2>2. log[s].cust # None /\ log[s].cust \notin Foreign => account'[log[s].cust] \in User
    BY <1>d, <1>l, <2>1, BillingAssumption DEF LogRight
  <2> QED BY <1>d, <1>l, <2>2 DEF LogRight
<1>n. ASSUME UNCHANGED <<customer, account, log>>
      PROVE  /\ \A u \in User : UserRight(u)'
             /\ \A c \in Foreign : account'[c] = None
             /\ \A s \in Sub : LogRight(s)'
  BY <1>n, <1>d, <1>u, <1>l
<1>0. NoTab.old = None /\ NoTab.cust = None /\ NoTab.pc = "idle"
  BY DEF NoTab
<1>1. ASSUME NEW t \in Tab, NEW u \in User, OpenCheckout(t, u) PROVE \A r \in Tab : TabRight(r)'
  <2>1. tab'[t].pc = "read" /\ tab'[t].user = u /\ tab'[t].old = None /\ tab'[t].cust = None
    BY <1>1, <1>d DEF OpenCheckout, NoTab
  <2>2. TabRight(t)'
    BY <2>1 DEF TabRight
  <2>3. \A r \in Tab \ {t} : tab'[r] = tab[r]
    BY <1>1, <1>d DEF OpenCheckout
  <2> QED BY <2>2, <2>3, <1>d, TabStays
<1>2. ASSUME NEW t \in Tab, ReadCustomer(t) PROVE \A r \in Tab : TabRight(r)'
  <2>1. /\ tab[t].user \in User /\ tab'[t].pc = "stripe" /\ tab'[t].user = tab[t].user
        /\ tab'[t].old = customer[tab[t].user] /\ tab'[t].cust = tab[t].cust
    BY <1>2, <1>d DEF ReadCustomer, TabRight, TabType
  <2>2. account' = account
    BY <1>2 DEF ReadCustomer, stripeVars
  <2>3. tab'[t].old # None => account'[tab'[t].old] = tab[t].user
    BY <2>1, <2>2, <1>d DEF UserRight
  <2>4. TabRight(t)'
    BY <2>1, <2>2, <2>3, <1>d DEF TabRight
  <2>5. \A r \in Tab \ {t} : tab'[r] = tab[r]
    BY <1>2, <1>d DEF ReadCustomer
  <2> QED BY <2>4, <2>5, <1>d, TabStays
<1>3. ASSUME NEW t \in Tab, NewCustomer(t)
      PROVE  /\ \A r \in Tab : TabRight(r)'
             /\ \A c \in Foreign : account'[c] = None
             /\ \A c \in Customer : account'[c] = account[c] \/ account[c] = None
  <2>1. tab[t].user \in User /\ tab[t] \in TabType /\ tab[t].pc = "stripe"
    BY <1>3, <1>d DEF NewCustomer, TabRight
  <2>2. PICK c \in Customer : /\ tab' = [tab EXCEPT ![t].pc = "session", ![t].cust = c]
                              /\ account'[c] = tab[t].user
                              /\ \A d \in Customer : account'[d] = account[d] \/ account[d] = None
                              /\ \A d \in Foreign : account'[d] = None
    <3>1. CASE tab[t].old # None
      <4>1. tab[t].old \in Customer /\ account[tab[t].old] = tab[t].user
        BY <3>1, <2>1, <1>d DEF TabRight, TabType
      <4> QED BY <1>3, <3>1, <4>1, <1>d DEF NewCustomer
    <3>2. CASE tab[t].old = None
      BY <1>3, <3>2, <2>1, <1>d, BillingAssumption DEF NewCustomer
    <3> QED BY <3>1, <3>2
  <2>3. tab'[t].pc = "session" /\ tab'[t].cust = c /\ tab'[t].user = tab[t].user /\ tab'[t].old = tab[t].old
    BY <2>1, <2>2, <1>d DEF TabType
  <2>4. tab[t].old # None => account'[tab[t].old] = tab[t].user
    <3>1. tab[t].old # None => tab[t].old \in Customer /\ account[tab[t].old] = tab[t].user
      BY <2>1, <1>d DEF TabRight, TabType
    <3> QED BY <3>1, <2>1, <1>d, BillingAssumption DEF Grows
  <2>5. TabRight(t)'
    BY <2>1, <2>2, <2>3, <2>4, BillingAssumption DEF TabRight
  <2>6. \A r \in Tab \ {t} : tab'[r] = tab[r]
    BY <2>2, <1>d
  <2> QED BY <2>2, <2>5, <2>6, <1>d, TabStays
<1>s. ASSUME NEW t \in Tab, NewSession(t) PROVE \A r \in Tab : TabRight(r)'
  <2>1. /\ tab[t].pc = "session" /\ tab'[t].pc = "save" /\ tab'[t].cust = tab[t].cust
        /\ tab'[t].user = tab[t].user /\ tab'[t].old = tab[t].old
        /\ account' = account /\ \A r \in Tab \ {t} : tab'[r] = tab[r]
    BY <1>s, <1>d DEF NewSession, TabType, stripeVars
  <2>2. TabRight(t)'
    BY <2>1, <1>d DEF TabRight
  <2> QED BY <2>1, <2>2, <1>d, TabStays
<1>4. ASSUME NEW t \in Tab, SaveCustomer(t)
      PROVE  (\A r \in Tab : TabRight(r)') /\ \A u \in User : UserRight(u)'
  <2>1. /\ tab[t].user \in User /\ tab[t].cust \in Customer /\ account[tab[t].cust] = tab[t].user
        /\ account' = account
    BY <1>4, <1>d DEF SaveCustomer, TabRight, TabType, stripeVars
  <2>2. /\ tab'[t].pc = "page" /\ tab'[t].cust = tab[t].cust
        /\ tab'[t].user = tab[t].user /\ tab'[t].old = None
    BY <1>4, <1>d DEF SaveCustomer, TabType
  <2>3. TabRight(t)'
    BY <2>1, <2>2, <1>d, BillingAssumption DEF TabRight
  <2>4. \A r \in Tab \ {t} : tab'[r] = tab[r]
    BY <1>4, <1>d DEF SaveCustomer
  <2>5. \A u \in User : customer'[u] = customer[u] \/ (u = tab[t].user /\ customer'[u] = tab[t].cust)
    BY <1>4, <1>d DEF SaveCustomer
  <2>6. \A u \in User : UserRight(u)'
    BY <2>1, <2>5, <1>u DEF UserRight
  <2> QED BY <2>3, <2>4, <2>6, <1>d, TabStays
<1>5. ASSUME NEW t \in Tab, tab' = [tab EXCEPT ![t] = NoTab] PROVE \A r \in Tab : TabRight(r)'
  <2>1. tab'[t] = NoTab /\ \A r \in Tab \ {t} : tab'[r] = tab[r]
    BY <1>5, <1>d
  <2>2. TabRight(t)'
    BY <2>1, <1>0 DEF TabRight
  <2> QED BY <2>1, <2>2, <1>d, TabStays
<1>6. ASSUME tab' = tab PROVE \A r \in Tab : TabRight(r)'
  BY <1>6, <1>d, TabStays
<1>7. ASSUME NEW s \in Sub, NEW c \in Customer, NEW st \in Status, Subscribe(s, c, st)
      PROVE  (\A r \in Sub : LogRight(r)') /\ (\A r \in Tab : TabRight(r)')
  <2>1. /\ log' = [log EXCEPT ![s] = [cust |-> c, states |-> <<st>>]]
        /\ UNCHANGED account
    BY <1>7 DEF Subscribe
  <2>2. log'[s].cust = c /\ log'[s].states = <<st>> /\ \A r \in Sub \ {s} : log'[r] = log[r]
    BY <2>1, <1>d
  <2>3. c \notin Foreign => account[c] \in User
    <3>1. ASSUME NEW t \in Tab, tab[t].pc = "page", tab[t].cust = c PROVE account[c] \in User
      BY <3>1, <1>d DEF TabRight
    <3> QED BY <1>7, <3>1 DEF Subscribe
  <2>4. <<st>> # <<>> /\ c # None
    BY BillingAssumption
  <2>5. LogRight(s)'
    BY <2>1, <2>2, <2>3, <2>4 DEF LogRight
  <2>6. \A r \in Sub \ {s} : LogRight(r)'
    BY <2>1, <2>2, <1>l
  <2>7. \A r \in Tab : TabRight(r)'
    BY <1>7, <1>5, <1>6 DEF Subscribe
  <2> QED BY <2>5, <2>6, <2>7
<1>8. ASSUME NEW s \in Sub, NEW st \in Status, Change(s, st) PROVE \A r \in Sub : LogRight(r)'
  <2>1. /\ log' = [log EXCEPT ![s] = [cust |-> log[s].cust, states |-> Append(log[s].states, st)]]
        /\ UNCHANGED account /\ log[s].states # <<>>
    BY <1>8 DEF Change, Live
  <2>2. /\ log'[s].cust = log[s].cust /\ log'[s].states = Append(log[s].states, st)
        /\ \A r \in Sub \ {s} : log'[r] = log[r]
    BY <2>1, <1>d
  <2>3. Append(log[s].states, st) # <<>>
    BY <1>d, AppendSeen DEF LogType
  <2>4. LogRight(s)'
    BY <2>1, <2>2, <2>3, <1>d DEF LogRight
  <2> QED BY <2>1, <2>2, <2>4, <1>l
<1>9. CASE \E t \in Tab : \/ \E u \in User : OpenCheckout(t, u)
                          \/ ReadCustomer(t) \/ NewSession(t) \/ LeaveCheckout(t)
  BY <1>9, <1>1, <1>2, <1>5, <1>n, <1>s
     DEF OpenCheckout, ReadCustomer, NewSession, LeaveCheckout, dbVars, stripeVars
<1>10. CASE \E t \in Tab : NewCustomer(t)
  BY <1>10, <1>3, <1>u, <1>l DEF NewCustomer, dbVars
<1>11. CASE \E t \in Tab : SaveCustomer(t)
  <2>1. UNCHANGED <<account, log>>
    BY <1>11 DEF SaveCustomer, stripeVars
  <2> QED BY <1>11, <2>1, <1>4, <1>l, <1>d
<1>12. CASE \E s \in Sub, c \in Customer, st \in Status : Subscribe(s, c, st)
  <2>1. UNCHANGED <<account, customer>>
    BY <1>12 DEF Subscribe, dbVars
  <2> QED BY <1>12, <2>1, <1>7, <1>u, <1>d
<1>13. CASE \E s \in Sub, st \in Status : Change(s, st)
  <2>1. UNCHANGED <<account, customer, tab>>
    BY <1>13 DEF Change, dbVars
  <2> QED BY <1>13, <2>1, <1>8, <1>u, <1>6, <1>d
<1>14. CASE UNCHANGED <<customer, account, log, tab>>
  BY <1>14, <1>n, <1>6
<1> QED BY <1>9, <1>10, <1>11, <1>12, <1>13, <1>14
     DEF Next, vars, dbVars, stripeVars, Deliver, Fail, Die, Handle, LookupUser, UpsertRow, CountLicenses,
         Generate, LookupSub, MarkCanceled, RevokeAllForUser, EndFailed

(* ... of the rows ... *)
LEMMA RowsKept == ASSUME OwnInv, [Next]_vars PROVE \A s \in Sub : RowRight(s)'
<1>d. /\ TypeOK /\ TypeOK' /\ Grows
      /\ \A s \in Sub : LogRight(s) /\ RowRight(s)
      /\ \A h \in Handler : HandlerRight(h)
      /\ subs \in [Sub -> Row \cup {None}]
      /\ \A s \in Sub : log[s].states \in Seq(Status) /\ log'[s].states \in Seq(Status)
  BY GrowsKept, TypeKept DEF OwnInv, TypeOK
<1>s. ASSUME NEW s \in Sub, subs'[s] = subs[s] PROVE RowRight(s)'
  <2>1. Len(log[s].states) \in Nat /\ Len(log'[s].states) \in Nat /\ Len(log[s].states) <= Len(log'[s].states)
    BY <1>d DEF Grows
  <2>2. log'[s].states = <<>> => Len(log'[s].states) = 0
    OBVIOUS
  <2>3. Len(log[s].states) = 0 => log[s].states = <<>>
    BY <1>d
  <2> QED BY <1>d, <1>s, <2>1, <2>2, <2>3, RowStays
<1>1. ASSUME NEW h \in Handler, UpsertRow(h) PROVE \A s \in Sub : RowRight(s)'
  <2>1. /\ SubOf(h) \in Sub /\ log[SubOf(h)].states # <<>>
        /\ handler[h].user \in User /\ account[log[SubOf(h)].cust] = handler[h].user
    BY <1>1, <1>d, AtRow DEF UpsertRow, At, HandlerRight
  <2>2. subs' = [subs EXCEPT ![SubOf(h)] = Upserted(h)] /\ UNCHANGED <<account, log>>
    BY <1>1 DEF UpsertRow
  <2>3. subs'[SubOf(h)].user = account[log[SubOf(h)].cust]
    BY <2>1, <2>2, <1>d DEF Upserted, RowRight
  <2>4. \A s \in Sub \ {SubOf(h)} : subs'[s] = subs[s]
    BY <2>2, <1>d
  <2>5. ASSUME NEW s \in Sub PROVE RowRight(s)'
    <3>1. CASE s = SubOf(h)
      BY <3>1, <2>1, <2>2, <2>3 DEF RowRight
    <3> QED BY <3>1, <2>4, <1>s
  <2> QED BY <2>5
<1>2. ASSUME NEW h \in Handler, MarkCanceled(h) PROVE \A s \in Sub : RowRight(s)'
  <2>1. SubOf(h) \in Sub /\ log[SubOf(h)].states # <<>> /\ subs[SubOf(h)] # None
    BY <1>2, <1>d, AtRow DEF MarkCanceled, At, HandlerRight
  <2>2. subs' = [subs EXCEPT ![SubOf(h)].status = "canceled"] /\ UNCHANGED <<account, log>>
    BY <1>2 DEF MarkCanceled
  <2>3. subs'[SubOf(h)].user = subs[SubOf(h)].user
    BY <2>1, <1>d DEF Grows
  <2>4. \A s \in Sub \ {SubOf(h)} : subs'[s] = subs[s]
    BY <2>2, <1>d
  <2>5. ASSUME NEW s \in Sub PROVE RowRight(s)'
    <3>1. CASE s = SubOf(h)
      BY <3>1, <2>1, <2>2, <2>3, <1>d DEF RowRight
    <3> QED BY <3>1, <2>4, <1>s
  <2> QED BY <2>5
<1>3. CASE UNCHANGED subs
  BY <1>3, <1>s
<1> QED BY <1>1, <1>2, <1>3
     DEF Next, vars, dbVars, stripeVars, OpenCheckout, ReadCustomer, NewCustomer, NewSession, SaveCustomer,
         LeaveCheckout, Subscribe, Change, Deliver, Fail, Die, Handle, LookupUser, CountLicenses, Generate,
         LookupSub, RevokeAllForUser, EndFailed

(* ... of the requests, which know their user and their row ... *)
LEMMA HandlersKept == ASSUME OwnInv, [Next]_vars PROVE \A h \in Handler : HandlerRight(h)'
<1>d. /\ TypeOK /\ TypeOK' /\ Grows
      /\ \A u \in User : UserRight(u)
      /\ \A s \in Sub : LogRight(s) /\ RowRight(s)
      /\ \A h \in Handler : HandlerRight(h)
      /\ handler \in [Handler -> HandlerType] /\ subs \in [Sub -> Row \cup {None}]
      /\ \A s \in Sub : Len(log'[s].states) \in Nat
  BY GrowsKept, TypeKept DEF OwnInv, TypeOK, HandlerType, HandlerPc
<1>s. ASSUME NEW h \in Handler, handler'[h] = handler[h] PROVE HandlerRight(h)'
  BY <1>d, <1>s, AtRow, HandlerStays
<1>o. ASSUME NEW h \in Handler, handler' = [handler EXCEPT ![h] = handler'[h]], HandlerRight(h)'
      PROVE  \A g \in Handler : HandlerRight(g)'
  <2>1. \A g \in Handler \ {h} : handler'[g] = handler[g]
    BY <1>o, <1>d
  <2> QED BY <1>o, <2>1, <1>s
<1>f. ASSUME NEW h \in Handler, handler' = [handler EXCEPT ![h] = Free]
      PROVE  \A g \in Handler : HandlerRight(g)'
  <2>1. handler'[h] = Free
    BY <1>f, <1>d
  <2>2. HandlerRight(h)'
    BY <2>1 DEF HandlerRight, Free, At
  <2> QED BY <1>f, <2>1, <2>2, <1>o
<1>p. ASSUME NEW h \in Handler, ~At(h, "idle"), NEW pc \in HandlerPc, NEW u \in User \cup {None},
             handler' = [handler EXCEPT ![h].pc = pc, ![h].user = u], UNCHANGED <<account, log>>,
             pc \in {"upsert", "count", "generate", "cancel", "revoke"} => u \in User,
             pc \in {"upsert", "count", "generate"} => account[log[SubOf(h)].cust] = u,
             pc \in {"count", "generate"} => StatusOf(h) = "active",
             pc \in {"sub", "cancel", "revoke"} => StatusOf(h) = "canceled",
             pc \in {"count", "generate", "cancel", "revoke"} =>
               subs'[SubOf(h)] # None /\ subs'[SubOf(h)].user = u
      PROVE  \A g \in Handler : HandlerRight(g)'
  <2>1. handler'[h].pc = pc /\ handler'[h].user = u /\ handler'[h].event = handler[h].event
    BY <1>p, <1>d DEF HandlerType
  <2>2. SubOf(h)' = SubOf(h) /\ StatusOf(h)' = StatusOf(h)
    BY <2>1, <1>p DEF SubOf, StatusOf
  <2>3. handler[h].event \in Event /\ handler[h].event[2] <= Len(log[SubOf(h)].states)
    BY <1>p, <1>d DEF HandlerRight
  <2>4. HandlerRight(h)'
    BY <2>1, <2>2, <2>3, <1>p DEF HandlerRight, At
  <2>5. \A g \in Handler \ {h} : handler'[g] = handler[g]
    BY <1>p, <1>d
  <2> QED BY <2>4, <2>5, <1>s
<1>g. ASSUME NEW h \in Handler, ~At(h, "idle"), NEW pc \in HandlerPc, Goto(h, pc), UNCHANGED <<account, log>>,
             pc \in {"upsert", "count", "generate", "cancel", "revoke"} => handler[h].user \in User,
             pc \in {"upsert", "count", "generate"} => account[log[SubOf(h)].cust] = handler[h].user,
             pc \in {"count", "generate"} => StatusOf(h) = "active",
             pc \in {"sub", "cancel", "revoke"} => StatusOf(h) = "canceled",
             pc \in {"count", "generate", "cancel", "revoke"} =>
               subs'[SubOf(h)] # None /\ subs'[SubOf(h)].user = handler[h].user
      PROVE  \A g \in Handler : HandlerRight(g)'
  <2>1. handler[h] \in HandlerType /\ handler[h].user \in User \cup {None}
    BY <1>d DEF HandlerType
  <2>2. handler' = [handler EXCEPT ![h].pc = pc, ![h].user = handler[h].user]
    BY <2>1, <1>g, <1>d DEF Goto, HandlerType
  <2> QED BY <2>1, <2>2, <1>g, <1>p
<1>1. ASSUME NEW h \in Handler, NEW e \in Event, Deliver(h, e) PROVE \A g \in Handler : HandlerRight(g)'
  <2>1. /\ handler'[h].event = e /\ handler'[h].user = None
        /\ handler'[h].pc = IF log[e[1]].states[e[2]] = "canceled" THEN "sub" ELSE "user"
    BY <1>1, <1>d DEF Deliver, Free
  <2>2. e[2] <= Len(log[e[1]].states) /\ UNCHANGED log
    BY <1>1 DEF Deliver, Sent, stripeVars
  <2>3. HandlerRight(h)'
    BY <2>1, <2>2 DEF HandlerRight, At, SubOf, StatusOf
  <2>4. \A g \in Handler \ {h} : handler'[g] = handler[g]
    BY <1>1, <1>d DEF Deliver
  <2> QED BY <2>3, <2>4, <1>s
<1>2. ASSUME NEW h \in Handler, Fail(h) PROVE \A g \in Handler : HandlerRight(g)'
  BY <1>2, <1>p DEF Fail, Die, At, HandlerPc, stripeVars
<1>k. ASSUME NEW h \in Handler, ~At(h, "idle"), OK(h), UNCHANGED <<account, log>>
      PROVE  \A g \in Handler : HandlerRight(g)'
  <2>1. CASE Die(h)
    BY <1>k, <2>1, <1>p DEF Die, HandlerPc
  <2>2. CASE ~Die(h)
    BY <1>k, <2>2, <1>f DEF OK
  <2> QED BY <2>1, <2>2
<1>3. ASSUME NEW h \in Handler, Handle(h) PROVE \A g \in Handler : HandlerRight(g)'
  <2>a. ~At(h, "idle") /\ UNCHANGED <<account, log>>
    BY <1>3 DEF Handle, At, LookupUser, UpsertRow, CountLicenses, Generate, LookupSub, MarkCanceled,
                RevokeAllForUser, EndFailed
  <2>b. HandlerRight(h) /\ SubOf(h) \in Sub /\ StatusOf(h) \in Status /\ log[SubOf(h)].states # <<>>
    BY <2>a, <1>d, AtRow
  <2>1. CASE LookupUser(h)
    <3>1. CASE OK(h)
      BY <3>1, <2>a, <1>k
    <3>2. ASSUME NEW u \in UserOf(log[SubOf(h)].cust),
                 handler' = [handler EXCEPT ![h].pc = "upsert", ![h].user = u]
          PROVE  \A g \in Handler : HandlerRight(g)'
      <4>1. u \in User /\ account[log[SubOf(h)].cust] = u
        BY <2>b, <1>d DEF UserOf, UserRight, LogRight
      <4> QED BY <3>2, <4>1, <2>a, <1>p DEF HandlerPc
    <3> QED BY <2>1, <3>1, <3>2 DEF LookupUser
  <2>2. CASE UpsertRow(h)
    <3>1. CASE OK(h)
      BY <3>1, <2>a, <1>k
    <3>2. CASE StatusOf(h) = "active" /\ Goto(h, "count")
      <4>1. handler[h].user \in User /\ account[log[SubOf(h)].cust] = handler[h].user
        BY <2>2, <2>b DEF UpsertRow, At, HandlerRight
      <4>2. Upserted(h).user = handler[h].user /\ Upserted(h) \in Row
        BY <4>1, <2>b, <1>d DEF Upserted, Row, RowRight
      <4>3. subs'[SubOf(h)] = Upserted(h)
        BY <2>2, <2>b, <1>d DEF UpsertRow
      <4> QED BY <3>2, <4>1, <4>2, <4>3, <2>a, <1>g, BillingAssumption DEF HandlerPc
    <3> QED BY <2>2, <3>1, <3>2 DEF UpsertRow
  <2>3. CASE CountLicenses(h)
    <3>1. CASE OK(h)
      BY <3>1, <2>a, <1>k
    <3>2. CASE Goto(h, "generate")
      <4>1. /\ handler[h].user \in User /\ account[log[SubOf(h)].cust] = handler[h].user
            /\ StatusOf(h) = "active" /\ subs[SubOf(h)] # None /\ subs[SubOf(h)].user = handler[h].user
            /\ subs' = subs
        BY <2>3, <2>b DEF CountLicenses, At, HandlerRight, dbVars
      <4> QED BY <3>2, <4>1, <2>a, <1>g DEF HandlerPc
    <3> QED BY <2>3, <3>1, <3>2 DEF CountLicenses
  <2>4. CASE Generate(h)
    BY <2>4, <2>a, <1>k DEF Generate
  <2>5. CASE LookupSub(h)
    <3>1. CASE OK(h)
      BY <3>1, <2>a, <1>k
    <3>2. CASE /\ subs[SubOf(h)] # None
               /\ handler' = [handler EXCEPT ![h].pc = "cancel", ![h].user = subs[SubOf(h)].user]
      <4>1. subs[SubOf(h)].user \in User /\ StatusOf(h) = "canceled" /\ subs' = subs
        BY <2>5, <3>2, <2>b, <1>d DEF LookupSub, At, HandlerRight, Row, dbVars
      <4> QED BY <3>2, <4>1, <2>a, <1>p DEF HandlerPc
    <3> QED BY <2>5, <3>1, <3>2 DEF LookupSub
  <2>6. CASE MarkCanceled(h)
    <3>1. /\ handler[h].user \in User /\ StatusOf(h) = "canceled"
          /\ subs[SubOf(h)] # None /\ subs[SubOf(h)].user = handler[h].user
      <4>1. handler[h].pc = "cancel"
        BY <2>6 DEF MarkCanceled, At
      <4> QED BY <4>1, <2>b, <1>d DEF HandlerRight, Row
    <3>2. subs'[SubOf(h)] # None /\ subs'[SubOf(h)].user = handler[h].user
      BY <3>1, <2>b, <1>d DEF Grows
    <3>3. Goto(h, "revoke")
      BY <2>6 DEF MarkCanceled
    <3> QED BY <3>1, <3>2, <3>3, <2>a, <1>g DEF HandlerPc
  <2>7. CASE RevokeAllForUser(h)
    BY <2>7, <2>a, <1>k DEF RevokeAllForUser
  <2>8. CASE EndFailed(h)
    BY <2>8, <1>f DEF EndFailed, NotAnswered
  <2> QED BY <1>3, <2>1, <2>2, <2>3, <2>4, <2>5, <2>6, <2>7, <2>8 DEF Handle
<1>4. CASE UNCHANGED handler
  BY <1>4, <1>s
<1> QED BY <1>1, <1>2, <1>3, <1>4
     DEF Next, vars, dbVars, stripeVars, OpenCheckout, ReadCustomer, NewCustomer, NewSession, SaveCustomer,
         LeaveCheckout, Subscribe, Change

(* ... and of what backs the licenses. *)
LEMMA LicensesKept == ASSUME OwnInv, [Next]_vars PROVE LicenseBacked'
<1>d. /\ TypeOK /\ TypeOK' /\ Grows /\ LicenseBacked
      /\ \A s \in Sub : LogRight(s)
      /\ \A h \in Handler : HandlerRight(h)
      /\ \A s \in Sub : log'[s].states \in Seq(Status)
      /\ licenses \in [User -> Nat]
  BY GrowsKept, TypeKept DEF OwnInv, TypeOK
<1>b. \A u \in User : licenses[u] > 0 => Backed(u)'
  BY <1>d, BackedStays DEF LicenseBacked, Backed
<1>1. ASSUME NEW u \in User, licenses'[u] > 0 PROVE Backed(u)'
  <2>1. ASSUME NEW h \in Handler, Generate(h), u = handler[h].user PROVE Backed(u)
    <3>1. /\ SubOf(h) \in Sub /\ handler[h].event[2] \in DOMAIN log[SubOf(h)].states
          /\ StatusOf(h) = "active" /\ subs[SubOf(h)] # None /\ subs[SubOf(h)].user = u
          /\ account[log[SubOf(h)].cust] = u
      BY <2>1, <1>d, AtRow DEF Generate, At, HandlerRight
    <3> QED BY <3>1 DEF Backed, StatusOf
  <2>2. ASSUME NEW h \in Handler, Generate(h), u # handler[h].user PROVE licenses'[u] = licenses[u]
    BY <2>2, <1>d DEF Generate
  <2>3. ASSUME NEW h \in Handler, RevokeAllForUser(h) PROVE licenses'[u] = licenses[u] \/ licenses'[u] = 0
    BY <2>3, <1>d DEF RevokeAllForUser
  <2>4. CASE UNCHANGED licenses
    BY <2>4, <1>1, <1>b
  <2>5. CASE \E h \in Handler : Generate(h)
    BY <2>5, <2>1, <2>2, <1>1, <1>b, <1>d, BackedStays
  <2>6. CASE \E h \in Handler : RevokeAllForUser(h)
    BY <2>6, <2>3, <1>1, <1>b
  <2> QED BY <2>4, <2>5, <2>6
     DEF Next, vars, dbVars, stripeVars, OpenCheckout, ReadCustomer, NewCustomer, NewSession, SaveCustomer,
         LeaveCheckout, Subscribe, Change, Deliver, Fail, Die, Handle, LookupUser, UpsertRow, CountLicenses,
         LookupSub, MarkCanceled, EndFailed
<1> QED BY <1>1 DEF LicenseBacked, Backed

(* The invariant holds at the start and every step keeps it. *)
LEMMA OwnInvInductive == Spec => []OwnInv
<1>1. ASSUME OwnInv, [Next]_vars PROVE OwnInv'
  BY <1>1, TypeKept, OwnersKept, RowsKept, HandlersKept, LicensesKept DEF OwnInv
<1> QED BY <1>1, OwnInit, PTL DEF Spec

-----------------------------------------------------------------------------
(* The variables of Billing stay in their types. *)
THEOREM BillingTypeCorrect == Spec => []TypeOK
<1>1. OwnInv => TypeOK
  BY DEF OwnInv
<1> QED BY <1>1, OwnInvInductive, PTL

(* Whatever the number and the order of deliveries, checkouts and failures,  *)
(* there is no license without a subscription of the user's own that has     *)
(* been active.                                                              *)
THEOREM LicensesAreBacked == Spec => []LicenseBacked
<1>1. OwnInv => LicenseBacked
  BY DEF OwnInv
<1> QED BY <1>1, OwnInvInductive, PTL

-----------------------------------------------------------------------------
(* How many licenses a user can have. *)

(* The requests that have counted no license of u and are about to generate. *)
Gens(u) == {h \in Handler : At(h, "generate") /\ handler[h].user = u}

Room(u) == licenses[u] + Cardinality(Gens(u)) <= Cardinality(Handler)

LEMMA GensFinite ==
  /\ Cardinality(Handler) \in Nat
  /\ \A S \in SUBSET Handler : IsFiniteSet(S) /\ Cardinality(S) \in Nat /\ Cardinality(S) <= Cardinality(Handler)
  /\ \A S, T \in SUBSET Handler : S \subseteq T => Cardinality(S) <= Cardinality(T)
<1>1. IsFiniteSet(Handler)
  BY BillingAssumption
<1>2. \A S \in SUBSET Handler : IsFiniteSet(S) /\ Cardinality(S) \in Nat /\ Cardinality(S) <= Cardinality(Handler)
  BY <1>1, FS_Subset, FS_CardinalityType
<1>3. \A S, T \in SUBSET Handler : S \subseteq T => Cardinality(S) <= Cardinality(T)
  BY <1>2, FS_Subset
<1> QED BY <1>1, <1>2, <1>3, FS_CardinalityType

(* Where nobody new is about to generate and no license is added, there is   *)
(* still room.                                                               *)
LEMMA RoomStays ==
  ASSUME NEW u \in User, Room(u), licenses[u] \in Nat, licenses'[u] \in Nat,
         licenses'[u] <= licenses[u], Gens(u)' \subseteq Gens(u)
  PROVE  Room(u)'
<1>1. Gens(u) \in SUBSET Handler /\ Gens(u)' \in SUBSET Handler
  BY DEF Gens
<1>2. PICK g, m \in Nat : g = Cardinality(Gens(u)) /\ m = Cardinality(Gens(u)')
  BY <1>1, GensFinite
<1>3. m <= g
  BY <1>1, <1>2, GensFinite
<1>4. Cardinality(Handler) \in Nat
  BY GensFinite
<1>5. licenses'[u] + m <= Cardinality(Handler)
  BY <1>2, <1>3, <1>4 DEF Room
<1> QED BY <1>2, <1>5 DEF Room

LEMMA RoomKept ==
  ASSUME OwnInv, [Next]_vars, NEW u \in User, Room(u)
  PROVE  Room(u)'
<1>d. /\ handler \in [Handler -> HandlerType] /\ licenses \in [User -> Nat]
      /\ \A h \in Handler : HandlerRight(h)
      /\ licenses[u] \in Nat /\ licenses'[u] \in Nat
  BY TypeKept DEF OwnInv, TypeOK, HandlerType, HandlerPc
<1>s. ASSUME licenses'[u] <= licenses[u], NEW h \in Handler, handler'[h].pc # "generate",
             \A g \in Handler \ {h} : handler'[g] = handler[g]
      PROVE  Room(u)'
  <2>1. Gens(u)' \subseteq Gens(u)
    BY <1>s DEF Gens, At
  <2> QED BY <1>d, <1>s, <2>1, RoomStays
<1>u. ASSUME UNCHANGED <<handler, licenses>> PROVE Room(u)'
  <2>1. Gens(u)' \subseteq Gens(u)
    BY <1>u DEF Gens, At
  <2> QED BY <1>d, <1>u, <2>1, RoomStays
<1>e. licenses[u] <= licenses[u]
  BY <1>d
<1>1. ASSUME NEW h \in Handler, Handle(h) PROVE Room(u)'
  <2>1. CASE LookupUser(h) \/ UpsertRow(h) \/ LookupSub(h) \/ MarkCanceled(h) \/ EndFailed(h)
    <3>1. licenses' = licenses
      BY <2>1 DEF LookupUser, UpsertRow, LookupSub, MarkCanceled, EndFailed, dbVars
    <3>2. /\ handler'[h].pc # "generate"
          /\ \A g \in Handler \ {h} : handler'[g] = handler[g]
      BY <1>d, <2>1 DEF LookupUser, UpsertRow, LookupSub, MarkCanceled, EndFailed, OK, Die, Goto, NotAnswered,
                        Free, HandlerType
    <3> QED BY <1>e, <1>s, <3>1, <3>2
  <2>2. CASE CountLicenses(h)
    <3>1. licenses' = licenses /\ \A g \in Handler \ {h} : handler'[g] = handler[g]
      BY <1>d, <2>2 DEF CountLicenses, dbVars, OK, Die, Goto
    <3>2. CASE licenses[handler[h].user] = 0 /\ u = handler[h].user
      <4>1. Gens(u)' \in SUBSET Handler
        BY DEF Gens
      <4>2. PICK m \in Nat : m = Cardinality(Gens(u)') /\ m <= Cardinality(Handler)
        BY <4>1, GensFinite
      <4>3. licenses'[u] = 0
        BY <3>1, <3>2
      <4> QED BY <4>2, <4>3 DEF Room
    <3>3. CASE u # handler[h].user
      <4>1. handler'[h].pc = "generate" => handler'[h].user = handler[h].user
        BY <1>d, <2>2 DEF CountLicenses, OK, Die, Goto, Free, HandlerType
      <4>2. Gens(u)' \subseteq Gens(u)
        BY <3>1, <3>3, <4>1 DEF Gens, At
      <4> QED BY <1>d, <3>1, <4>2, RoomStays
    <3>4. CASE licenses[handler[h].user] # 0
      <4>1. handler'[h].pc # "generate"
        BY <1>d, <2>2, <3>4 DEF CountLicenses, OK, Die, Free, HandlerType
      <4> QED BY <1>e, <1>s, <3>1, <4>1
    <3> QED BY <3>2, <3>3, <3>4
  <2>3. CASE Generate(h)
    <3>1. /\ At(h, "generate") /\ licenses' = [licenses EXCEPT ![handler[h].user] = @ + 1]
          /\ handler'[h].pc # "generate" /\ \A g \in Handler \ {h} : handler'[g] = handler[g]
      BY <1>d, <2>3 DEF Generate, OK, Die, Free, HandlerType
    <3>2. CASE u # handler[h].user
      <4>1. licenses'[u] = licenses[u]
        BY <1>d, <3>1, <3>2
      <4> QED BY <1>e, <1>s, <3>1, <4>1
    <3>3. CASE u = handler[h].user
      <4>1. licenses'[u] = licenses[u] + 1
        BY <1>d, <3>1, <3>3
      <4>2. Gens(u)' \subseteq Gens(u) \ {h} /\ h \in Gens(u) /\ Gens(u) \in SUBSET Handler
        BY <3>1, <3>3 DEF Gens, At
      <4>3. IsFiniteSet(Gens(u)) /\ Cardinality(Gens(u)) \in Nat
        BY <4>2, GensFinite
      <4>4. Cardinality(Gens(u) \ {h}) = Cardinality(Gens(u)) - 1
        BY <4>2, <4>3, FS_RemoveElement
      <4>5. Gens(u)' \in SUBSET Handler /\ Gens(u) \ {h} \in SUBSET Handler
        BY <4>2
      <4>6. Cardinality(Gens(u)') <= Cardinality(Gens(u) \ {h}) /\ Cardinality(Gens(u)') \in Nat
        BY <4>2, <4>5, GensFinite
      <4>7. PICK g, m \in Nat : g = Cardinality(Gens(u)) /\ m = Cardinality(Gens(u)') /\ m <= g - 1
        BY <4>3, <4>4, <4>6
      <4>8. licenses'[u] + m <= Cardinality(Handler)
        BY <1>d, <4>1, <4>7, GensFinite DEF Room
      <4> QED BY <4>7, <4>8 DEF Room
    <3> QED BY <3>2, <3>3
  <2>4. CASE RevokeAllForUser(h)
    <3>1. licenses'[u] <= licenses[u]
      BY <1>d, <2>4 DEF RevokeAllForUser
    <3>2. handler'[h].pc # "generate" /\ \A g \in Handler \ {h} : handler'[g] = handler[g]
      BY <1>d, <2>4 DEF RevokeAllForUser, OK, Die, Free, HandlerType
    <3> QED BY <1>s, <3>1, <3>2
  <2> QED BY <1>1, <2>1, <2>2, <2>3, <2>4 DEF Handle
<1>2. ASSUME NEW h \in Handler, Fail(h) \/ \E e \in Event : Deliver(h, e) PROVE Room(u)'
  <2>1. handler'[h].pc # "generate" /\ \A g \in Handler \ {h} : handler'[g] = handler[g]
    BY <1>2, <1>d DEF Fail, Die, Deliver, Free, HandlerType
  <2>2. licenses' = licenses
    BY <1>2 DEF Fail, Deliver, dbVars
  <2> QED BY <1>e, <1>s, <2>1, <2>2
<1>3. CASE UNCHANGED <<handler, licenses>>
  BY <1>3, <1>u
<1> QED BY <1>1, <1>2, <1>3
     DEF Next, vars, dbVars, stripeVars, OpenCheckout, ReadCustomer, NewCustomer, NewSession, SaveCustomer,
         LeaveCheckout, Subscribe, Change

LEMMA RoomAlways == Spec => [](\A u \in User : Room(u))
<1>1. ASSUME Init PROVE \A u \in User : Room(u)
  <2>1. ASSUME NEW u \in User PROVE licenses[u] = 0 /\ Gens(u) = {}
    BY <1>1 DEF Init, Free, Gens, At
  <2> QED BY <2>1, FS_EmptySet, GensFinite DEF Room
<1>2. OwnInv /\ (\A u \in User : Room(u)) /\ [Next]_vars => (\A u \in User : Room(u))'
  BY RoomKept
<1> QED BY <1>1, <1>2, OwnInvInductive, PTL DEF Spec

(* Any number of deliveries at once, in any order and repeated: a user never *)
(* has more licenses than there are requests at once.                        *)
THEOREM NeverMoreThanHandlers == Spec => []LicensesPerHandler
<1>1. ASSUME OwnInv, \A u \in User : Room(u) PROVE LicensesPerHandler
  <2> SUFFICES ASSUME NEW u \in User PROVE licenses[u] <= Cardinality(Handler)
    BY DEF LicensesPerHandler
  <2>1. licenses[u] \in Nat /\ Gens(u) \in SUBSET Handler
    BY <1>1 DEF OwnInv, TypeOK, Gens
  <2>2. PICK g \in Nat : g = Cardinality(Gens(u))
    BY <2>1, GensFinite
  <2> QED BY <1>1, <2>1, <2>2, GensFinite DEF Room
<1> QED BY <1>1, RoomAlways, OwnInvInductive, PTL

(* What the only request has counted still holds when it generates. *)
CountHolds == /\ \A u \in User : licenses[u] <= 1
              /\ \A h \in Handler : At(h, "generate") => licenses[handler[h].user] = 0

LEMMA CountIsCurrent ==
  ASSUME \A g, h \in Handler : g = h
  PROVE  Spec => []CountHolds
<1>1. ASSUME OwnInv, \A u \in User : Room(u) PROVE CountHolds
  <2>1. Cardinality(Handler) <= 1
    <3>1. CASE Handler = {}
      BY <3>1, FS_EmptySet
    <3>2. ASSUME NEW h \in Handler PROVE Cardinality(Handler) = 1
      <4>1. Handler = {h}
        OBVIOUS
      <4> QED BY <4>1, FS_Singleton
    <3> QED BY <3>1, <3>2
  <2>2. ASSUME NEW u \in User PROVE licenses[u] \in Nat /\ \E g \in Nat : /\ g = Cardinality(Gens(u))
                                                                        /\ licenses[u] + g <= 1
    <3>1. licenses[u] \in Nat /\ Gens(u) \in SUBSET Handler
      BY <1>1 DEF OwnInv, TypeOK, Gens
    <3>2. PICK g \in Nat : g = Cardinality(Gens(u))
      BY <3>1, GensFinite
    <3> QED BY <1>1, <2>1, <3>1, <3>2, GensFinite DEF Room
  <2>3. ASSUME NEW h \in Handler, At(h, "generate") PROVE licenses[handler[h].user] = 0
    <3>1. PICK u \in User : u = handler[h].user
      BY <1>1, <2>3 DEF OwnInv, HandlerRight, At
    <3>2. Gens(u) = {h}
      BY <2>3, <3>1 DEF Gens
    <3>3. Cardinality(Gens(u)) = 1
      BY <3>2, FS_Singleton
    <3> QED BY <2>2, <3>1, <3>3
  <2>4. \A u \in User : licenses[u] <= 1
    BY <2>2
  <2> QED BY <2>3, <2>4 DEF CountHolds
<1> QED BY <1>1, RoomAlways, OwnInvInductive, PTL

-----------------------------------------------------------------------------
(* Which customers can be lost. *)

(* A customer that was created in the tab t and has not left it. *)
Unseen(c, t) ==
  /\ \A u \in User : customer[u] # c
  /\ \A s \in Sub : log[s].cust # c
  /\ \A r \in Tab \ {t} : tab[r].old # c /\ tab[r].cust # c

TabFresh(t) ==
  tab[t].pc \in {"session", "save"} =>
    IF tab[t].old = None THEN Unseen(tab[t].cust, t) ELSE tab[t].cust = tab[t].old

(* Customers of u that a page bills, has billed, or will if its checkout     *)
(* goes on; and the checkouts that will bring another one.                   *)
Held(u)    == {c \in Customer : account[c] = u /\ \E t \in Tab : tab[t].old = c}
Alive(u)   == Held(u) \cup Paid(u) \cup Payable(u)
Waiting(u) == {t \in Tab : /\ tab[t].user = u /\ tab[t].old = None
                           /\ tab[t].pc \in {"stripe", "session", "save"}}

LossRight(u) ==
  IF customer[u] = None THEN Alive(u) = {}
  ELSE /\ IsFiniteSet(Alive(u) \ {customer[u]})
       /\ Cardinality(Alive(u) \ {customer[u]}) + Cardinality(Waiting(u)) < Cardinality(Tab)

TabsInv == (\A t \in Tab : TabFresh(t)) /\ \A u \in User : LossRight(u)

LEMMA TabsFinite ==
  /\ Cardinality(Tab) \in Nat /\ Cardinality(Tab) > 0
  /\ \A S \in SUBSET Tab : IsFiniteSet(S) /\ Cardinality(S) \in Nat
  /\ \A S, T \in SUBSET Tab : S \subseteq T => Cardinality(S) <= Cardinality(T)
<1>1. IsFiniteSet(Tab) /\ Tab # {}
  BY BillingAssumption
<1>2. \A S \in SUBSET Tab : IsFiniteSet(S) /\ Cardinality(S) \in Nat
  BY <1>1, FS_Subset, FS_CardinalityType
<1>3. \A S, T \in SUBSET Tab : S \subseteq T => Cardinality(S) <= Cardinality(T)
  BY <1>2, FS_Subset
<1>4. Cardinality(Tab) \in Nat /\ Cardinality(Tab) # 0
  BY <1>1, FS_CardinalityType, FS_EmptySet
<1> QED BY <1>2, <1>3, <1>4

(* A checkout that brings no other customer loses none. *)
LEMMA LossStays ==
  ASSUME NEW u \in User, LossRight(u), customer'[u] = customer[u],
         \A c \in Alive(u)' : c \in Alive(u) \/ c = customer[u],
         customer[u] # None => Waiting(u)' \subseteq Waiting(u)
  PROVE  LossRight(u)'
<1>1. CASE customer[u] = None
  <2>1. Alive(u)' \subseteq Customer
    BY DEF Alive, Held, Paid, Payable
  <2>2. Alive(u)' = {}
    BY <1>1, <2>1, BillingAssumption DEF LossRight
  <2> QED BY <1>1, <2>2 DEF LossRight
<1>2. CASE customer[u] # None
  <2>1. PICK A, B : A = Alive(u) \ {customer[u]} /\ B = Alive(u)' \ {customer[u]}
    OBVIOUS
  <2>2. IsFiniteSet(A) /\ B \subseteq A
    BY <1>2, <2>1 DEF LossRight
  <2>3. IsFiniteSet(B) /\ Cardinality(B) <= Cardinality(A) /\ Cardinality(A) \in Nat /\ Cardinality(B) \in Nat
    BY <2>2, FS_Subset, FS_CardinalityType
  <2>4. Waiting(u) \in SUBSET Tab /\ Waiting(u)' \in SUBSET Tab
    BY DEF Waiting
  <2>5. PICK v, w \in Nat : v = Cardinality(Waiting(u)) /\ w = Cardinality(Waiting(u)') /\ w <= v
    BY <1>2, <2>4, TabsFinite
  <2>6. Cardinality(A) + v < Cardinality(Tab)
    BY <1>2, <2>1, <2>5 DEF LossRight
  <2>7. Cardinality(B) + w < Cardinality(Tab)
    BY <2>3, <2>5, <2>6, TabsFinite
  <2> QED BY <1>2, <2>1, <2>3, <2>5, <2>7 DEF LossRight
<1> QED BY <1>1, <1>2

(* One that brings another customer loses the one before at most. *)
LEMMA LossMoves ==
  ASSUME NEW u \in User, LossRight(u), NEW t \in Waiting(u), customer'[u] # None,
         \A c \in Alive(u)' : c \in Alive(u) \/ c = customer[u] \/ c = customer'[u],
         customer[u] = None => \A c \in Alive(u)' : c = customer'[u],
         Waiting(u)' \subseteq Tab \ {t},
         customer[u] # None => Waiting(u)' \subseteq Waiting(u) \ {t}
  PROVE  LossRight(u)'
<1>w. /\ Waiting(u) \in SUBSET Tab /\ Waiting(u)' \in SUBSET Tab /\ t \in Tab
      /\ Tab \ {t} \in SUBSET Tab /\ Waiting(u) \ {t} \in SUBSET Tab
  BY DEF Waiting
<1>x. PICK w \in Nat : w = Cardinality(Waiting(u)')
  BY <1>w, TabsFinite
<1>1. CASE customer[u] = None
  <2>1. Alive(u)' \ {customer'[u]} = {}
    BY <1>1
  <2>2. Cardinality(Tab \ {t}) = Cardinality(Tab) - 1
    BY <1>w, BillingAssumption, FS_RemoveElement
  <2>3. w <= Cardinality(Tab \ {t})
    BY <1>w, <1>x, TabsFinite
  <2>4. 0 + w < Cardinality(Tab)
    BY <2>2, <2>3, TabsFinite
  <2> QED BY <1>x, <2>1, <2>4, FS_EmptySet DEF LossRight
<1>2. CASE customer[u] # None
  <2>1. PICK A, B : A = Alive(u) \ {customer[u]} /\ B = Alive(u)' \ {customer'[u]}
    OBVIOUS
  <2>2. IsFiniteSet(A) /\ B \subseteq A \cup {customer[u]}
    BY <1>2, <2>1 DEF LossRight
  <2>3. /\ IsFiniteSet(A \cup {customer[u]}) /\ Cardinality(A) \in Nat
        /\ Cardinality(A \cup {customer[u]}) \in Nat
        /\ Cardinality(A \cup {customer[u]}) <= Cardinality(A) + 1
    <3>1. IsFiniteSet(A \cup {customer[u]}) /\ Cardinality(A) \in Nat
      BY <2>2, FS_AddElement, FS_CardinalityType
    <3>2. Cardinality(A \cup {customer[u]}) \in {Cardinality(A), Cardinality(A) + 1}
      BY <2>2, FS_AddElement
    <3> QED BY <3>1, <3>2
  <2>4. IsFiniteSet(B) /\ Cardinality(B) \in Nat /\ Cardinality(B) <= Cardinality(A \cup {customer[u]})
    BY <2>2, <2>3, FS_Subset, FS_CardinalityType
  <2>5. Cardinality(Waiting(u) \ {t}) = Cardinality(Waiting(u)) - 1 /\ Cardinality(Waiting(u)) \in Nat
    BY <1>w, TabsFinite, FS_RemoveElement
  <2>6. PICK v \in Nat : v = Cardinality(Waiting(u)) /\ w <= v - 1
    BY <1>2, <1>w, <1>x, <2>5, TabsFinite
  <2>7. Cardinality(A) + v < Cardinality(Tab)
    BY <1>2, <2>1, <2>6 DEF LossRight
  <2>8. Cardinality(B) + w < Cardinality(Tab)
    BY <2>3, <2>4, <2>6, <2>7, TabsFinite
  <2> QED BY <1>x, <2>1, <2>4, <2>8 DEF LossRight
<1> QED BY <1>1, <1>2

(* A customer without an account is nowhere. *)
LEMMA NoAccountUnseen ==
  ASSUME OwnInv, NEW c \in Customer \ Foreign, account[c] = None
  PROVE  /\ \A u \in User : customer[u] # c
         /\ \A s \in Sub : log[s].cust # c
         /\ \A r \in Tab : tab[r].old # c /\ tab[r].cust # c
<1>d. /\ \A u \in User : UserRight(u)
      /\ \A s \in Sub : LogRight(s)
      /\ \A r \in Tab : TabRight(r)
      /\ c # None /\ None \notin User
  BY BillingAssumption DEF OwnInv
<1>1. \A u \in User : customer[u] # c
  BY <1>d DEF UserRight
<1>2. \A s \in Sub : log[s].cust # c
  BY <1>d DEF LogRight
<1>3. ASSUME NEW r \in Tab PROVE tab[r].old # c /\ tab[r].cust # c
  <2>1. \A x \in {tab[r].old, tab[r].cust} \ {None} : account[x] \in User
    BY <1>d DEF TabRight
  <2> QED BY <1>d, <2>1
<1> QED BY <1>1, <1>2, <1>3

(* What a step about the tab t leaves of the other tabs' fresh customers.    *)
LEMMA FreshStays ==
  ASSUME \A r \in Tab : TabFresh(r), NEW t \in Tab, \A r \in Tab \ {t} : tab'[r] = tab[r],
         NEW r \in Tab \ {t},
         tab[r].pc \in {"session", "save"} /\ tab[r].old = None =>
           /\ \A u \in User : customer'[u] # tab[r].cust
           /\ \A s \in Sub : log'[s].cust # tab[r].cust
           /\ tab'[t].old # tab[r].cust /\ tab'[t].cust # tab[r].cust
  PROVE  TabFresh(r)'
<1>1. tab'[r] = tab[r] /\ TabFresh(r)
  OBVIOUS
<1>2. CASE tab[r].pc \in {"session", "save"} /\ tab[r].old = None
  <2>1. \A q \in Tab \ {r} : tab'[q].old # tab[r].cust /\ tab'[q].cust # tab[r].cust
    BY <1>1, <1>2 DEF TabFresh, Unseen
  <2> QED BY <1>1, <1>2, <2>1 DEF TabFresh, Unseen
<1>3. CASE ~(tab[r].pc \in {"session", "save"} /\ tab[r].old = None)
  BY <1>1, <1>3 DEF TabFresh
<1> QED BY <1>2, <1>3

LEMMA TabsKept == ASSUME OwnInv, TabsInv, [Next]_vars PROVE TabsInv'
<1>d. /\ TypeOK /\ tab \in [Tab -> TabType] /\ customer \in [User -> Customer \cup {None}]
      /\ log \in [Sub -> LogType] /\ account \in [Customer -> User \cup {None}]
      /\ \A t \in Tab : TabRight(t) /\ TabFresh(t)
      /\ \A s \in Sub : LogRight(s)
      /\ \A u \in User : UserRight(u) /\ LossRight(u)
      /\ None \notin User \cup Customer
  BY BillingAssumption DEF OwnInv, TabsInv, TypeOK, TabType, TabPc, LogType
(* A step in the tab t that changes neither users nor subscriptions. *)
<1>t. ASSUME NEW t \in Tab, UNCHANGED <<customer, log>>, \A r \in Tab \ {t} : tab'[r] = tab[r],
             TabFresh(t)',
             \A r \in Tab \ {t} : tab[r].pc \in {"session", "save"} /\ tab[r].old = None =>
               tab'[t].old # tab[r].cust /\ tab'[t].cust # tab[r].cust,
             \A u \in User : \A c \in Alive(u)' : c \in Alive(u) \/ c = customer[u],
             tab'[t].pc \in {"stripe", "session", "save"} /\ tab'[t].old = None =>
               t \in Waiting(tab'[t].user) \/ customer[tab'[t].user] = None
      PROVE  TabsInv'
  <2>1. ASSUME NEW r \in Tab \ {t} PROVE TabFresh(r)'
    <3>1. tab[r].pc \in {"session", "save"} /\ tab[r].old = None =>
            /\ \A u \in User : customer'[u] # tab[r].cust
            /\ \A s \in Sub : log'[s].cust # tab[r].cust
            /\ tab'[t].old # tab[r].cust /\ tab'[t].cust # tab[r].cust
      BY <1>d, <1>t DEF TabFresh, Unseen
    <3> QED BY <1>d, <1>t, <3>1, FreshStays
  <2>2. ASSUME NEW u \in User, customer[u] # None PROVE Waiting(u)' \subseteq Waiting(u)
    BY <1>t, <2>2 DEF Waiting
  <2>3. ASSUME NEW u \in User PROVE LossRight(u)'
    BY <1>d, <1>t, <2>2, LossStays
  <2> QED BY <1>t, <2>1, <2>3 DEF TabsInv
<1>a. ASSUME NEW t \in Tab, UNCHANGED <<account, log>>, \A r \in Tab \ {t} : tab'[r] = tab[r],
             NEW u \in User,
             \A c \in Customer : account[c] = u /\ (tab'[t].old = c \/ (tab'[t].pc = "page" /\ tab'[t].cust = c))
               => c \in Alive(u) \/ c = customer[u]
      PROVE  \A c \in Alive(u)' : c \in Alive(u) \/ c = customer[u]
  BY <1>a DEF Alive, Held, Paid, Payable
<1>1. ASSUME NEW t \in Tab, (\E u \in User : OpenCheckout(t, u)) \/ LeaveCheckout(t) PROVE TabsInv'
  <2>0. /\ \/ \E u \in User : tab' = [tab EXCEPT ![t] = [NoTab EXCEPT !.pc = "read", !.user = u]]
           \/ tab' = [tab EXCEPT ![t] = NoTab]
        /\ UNCHANGED <<customer, log, account>>
    BY <1>1 DEF OpenCheckout, LeaveCheckout, dbVars, stripeVars
  <2>1. /\ tab'[t].old = None /\ tab'[t].cust = None /\ tab'[t].pc \in {"idle", "read"}
        /\ \A r \in Tab \ {t} : tab'[r] = tab[r]
        /\ UNCHANGED <<customer, log, account>>
    <3>1. CASE tab' = [tab EXCEPT ![t] = NoTab]
      BY <1>d, <2>0, <3>1 DEF NoTab
    <3>2. CASE \E u \in User : tab' = [tab EXCEPT ![t] = [NoTab EXCEPT !.pc = "read", !.user = u]]
      BY <1>d, <2>0, <3>2 DEF NoTab
    <3> QED BY <2>0, <3>1, <3>2
  <2>2. \A u \in User : \A c \in Alive(u)' : c \in Alive(u) \/ c = customer[u]
    BY <1>a, <1>d, <2>1
  <2>3. TabFresh(t)'
    BY <2>1 DEF TabFresh
  <2>4. \A r \in Tab : tab[r].pc \in {"session", "save"} => tab[r].cust # None
    BY <1>d DEF TabRight
  <2> QED BY <1>t, <2>1, <2>2, <2>3, <2>4
<1>2. ASSUME NEW t \in Tab, ReadCustomer(t) PROVE TabsInv'
  <2>1. /\ tab[t].user \in User /\ tab'[t].pc = "stripe" /\ tab'[t].user = tab[t].user
        /\ tab'[t].old = customer[tab[t].user] /\ tab'[t].cust = tab[t].cust
        /\ tab[t].pc = "read"
        /\ \A r \in Tab \ {t} : tab'[r] = tab[r]
        /\ UNCHANGED <<customer, log, account>>
    BY <1>2, <1>d DEF ReadCustomer, TabRight, TabType, dbVars, stripeVars
  <2>2. ASSUME NEW u \in User PROVE \A c \in Alive(u)' : c \in Alive(u) \/ c = customer[u]
    <3>1. ASSUME NEW c \in Customer, account[c] = u, tab'[t].old = c PROVE c = customer[u]
      BY <1>d, <2>1, <3>1 DEF UserRight
    <3> QED BY <1>a, <2>1, <3>1
  <2>3. TabFresh(t)'
    BY <2>1 DEF TabFresh
  <2>4. ASSUME NEW r \in Tab \ {t}, tab[r].pc \in {"session", "save"}, tab[r].old = None
        PROVE  tab'[t].old # tab[r].cust /\ tab'[t].cust # tab[r].cust
    BY <1>d, <2>1, <2>4 DEF TabFresh, Unseen
  <2> QED BY <1>t, <2>1, <2>2, <2>3, <2>4
<1>3. ASSUME NEW t \in Tab, NewCustomer(t) PROVE TabsInv'
  <2>1. /\ tab[t].pc = "stripe" /\ tab[t] \in TabType /\ tab[t].user \in User
        /\ UNCHANGED <<customer, log>>
    BY <1>3, <1>d DEF NewCustomer, dbVars, TabRight
  <2>2. PICK c \in Customer :
          /\ tab' = [tab EXCEPT ![t].pc = "session", ![t].cust = c]
          /\ IF tab[t].old # None THEN c = tab[t].old /\ account' = account
             ELSE /\ c \notin Foreign /\ account[c] = None
                  /\ account' = [account EXCEPT ![c] = tab[t].user]
    BY <1>3, <1>d, <2>1 DEF NewCustomer, TabType
  <2>3. /\ tab'[t].pc = "session" /\ tab'[t].cust = c /\ tab'[t].user = tab[t].user
        /\ tab'[t].old = tab[t].old /\ \A r \in Tab \ {t} : tab'[r] = tab[r]
    BY <1>d, <2>1, <2>2 DEF TabType
  <2>4. tab[t].old = None => /\ \A u \in User : customer[u] # c
                             /\ \A s \in Sub : log[s].cust # c
                             /\ \A r \in Tab : tab[r].old # c /\ tab[r].cust # c
    BY <2>2, NoAccountUnseen
  <2>5. TabFresh(t)'
    BY <2>1, <2>2, <2>3, <2>4 DEF TabFresh, Unseen
  <2>6. ASSUME NEW r \in Tab \ {t}, tab[r].pc \in {"session", "save"}, tab[r].old = None
        PROVE  tab'[t].old # tab[r].cust /\ tab'[t].cust # tab[r].cust
    BY <1>d, <2>2, <2>3, <2>4, <2>6 DEF TabFresh, Unseen
  <2>7. ASSUME NEW u \in User, NEW x \in Alive(u)' PROVE x \in Alive(u)
    <3>1. /\ x \in Customer /\ account'[x] = u
          /\ \/ \E r \in Tab : tab'[r].old = x
             \/ \E s \in Sub : log[s].cust = x
             \/ \E r \in Tab : tab'[r].pc = "page" /\ tab'[r].cust = x
      BY <2>1, <2>7 DEF Alive, Held, Paid, Payable
    <3>2. \/ \E r \in Tab : tab[r].old = x
          \/ \E s \in Sub : log[s].cust = x
          \/ \E r \in Tab : tab[r].pc = "page" /\ tab[r].cust = x
      BY <2>3, <3>1
    <3>3. account[x] = u
      BY <1>d, <2>2, <2>4, <3>1, <3>2
    <3> QED BY <3>1, <3>2, <3>3 DEF Alive, Held, Paid, Payable
  <2>8. tab'[t].old = None => t \in Waiting(tab'[t].user)
    BY <2>1, <2>3 DEF Waiting
  <2> QED BY <1>t, <2>1, <2>3, <2>5, <2>6, <2>7, <2>8
<1>4. ASSUME NEW t \in Tab, NewSession(t) PROVE TabsInv'
  <2>1. /\ tab[t].pc = "session" /\ tab'[t].pc = "save" /\ tab'[t].cust = tab[t].cust
        /\ tab'[t].user = tab[t].user /\ tab'[t].old = tab[t].old
        /\ UNCHANGED <<customer, log, account>> /\ \A r \in Tab \ {t} : tab'[r] = tab[r]
    BY <1>4, <1>d DEF NewSession, TabType, dbVars, stripeVars
  <2>2. TabFresh(t)'
    BY <1>d, <2>1 DEF TabFresh, Unseen
  <2>3. ASSUME NEW r \in Tab \ {t}, tab[r].pc \in {"session", "save"}, tab[r].old = None
        PROVE  tab'[t].old # tab[r].cust /\ tab'[t].cust # tab[r].cust
    BY <1>d, <2>1, <2>3 DEF TabFresh, Unseen
  <2>4. ASSUME NEW u \in User PROVE \A c \in Alive(u)' : c \in Alive(u) \/ c = customer[u]
    <3>1. ASSUME NEW c \in Customer, account[c] = u, tab'[t].old = c PROVE c \in Alive(u)
      BY <2>1, <3>1 DEF Alive, Held
    <3> QED BY <1>a, <2>1, <3>1
  <2>5. tab'[t].old = None => t \in Waiting(tab'[t].user)
    BY <2>1 DEF Waiting
  <2> QED BY <1>t, <2>1, <2>2, <2>3, <2>4, <2>5
<1>5. ASSUME NEW t \in Tab, SaveCustomer(t) PROVE TabsInv'
  <2>0. PICK v, c : v = tab[t].user /\ c = tab[t].cust
    OBVIOUS
  <2>1. /\ tab[t].pc = "save" /\ v \in User /\ c \in Customer /\ account[c] = v
        /\ tab'[t].pc = "page" /\ tab'[t].old = None /\ tab'[t].cust = c /\ tab'[t].user = v
        /\ UNCHANGED <<account, log>> /\ \A r \in Tab \ {t} : tab'[r] = tab[r]
        /\ customer' = IF c # tab[t].old THEN [customer EXCEPT ![v] = c] ELSE customer
    BY <1>5, <1>d, <2>0 DEF SaveCustomer, TabRight, TabType, stripeVars
  <2>2. TabFresh(t)'
    BY <2>1 DEF TabFresh
  <2>3. CASE tab[t].old # None
    <3>1. c = tab[t].old /\ customer' = customer
      BY <1>d, <2>0, <2>1, <2>3 DEF TabFresh
    <3>2. ASSUME NEW r \in Tab \ {t}, tab[r].pc \in {"session", "save"}, tab[r].old = None
          PROVE  tab'[t].old # tab[r].cust /\ tab'[t].cust # tab[r].cust
      BY <1>d, <2>0, <2>1, <2>3, <3>2 DEF TabFresh, Unseen, TabRight
    <3>3. ASSUME NEW u \in User PROVE \A x \in Alive(u)' : x \in Alive(u) \/ x = customer[u]
      <4>1. ASSUME NEW x \in Customer, account[x] = u, tab'[t].old = x \/ tab'[t].cust = x PROVE x \in Alive(u)
        BY <1>d, <2>0, <2>1, <3>1, <4>1 DEF Alive, Held
      <4> QED BY <1>a, <2>1, <4>1
    <3> QED BY <1>t, <2>1, <2>2, <3>1, <3>2, <3>3
  <2>4. CASE tab[t].old = None
    <3>1. /\ customer' = [customer EXCEPT ![v] = c] /\ c # None
      BY <1>d, <2>1, <2>4
    <3>2. customer'[v] = c /\ \A u \in User \ {v} : customer'[u] = customer[u]
      BY <1>d, <2>1, <3>1
    <3>3. ASSUME NEW r \in Tab \ {t} PROVE TabFresh(r)'
      <4>1. ASSUME tab[r].pc \in {"session", "save"}, tab[r].old = None
            PROVE  /\ \A u \in User : customer'[u] # tab[r].cust
                   /\ \A s \in Sub : log'[s].cust # tab[r].cust
                   /\ tab'[t].old # tab[r].cust /\ tab'[t].cust # tab[r].cust
        <5>1. /\ \A u \in User : customer[u] # tab[r].cust
              /\ \A s \in Sub : log[s].cust # tab[r].cust
              /\ tab[t].cust # tab[r].cust /\ tab[r].cust # None
          BY <1>d, <4>1 DEF TabFresh, Unseen, TabRight
        <5> QED BY <2>0, <2>1, <3>2, <5>1
      <4> QED BY <1>d, <2>1, <4>1, FreshStays
    <3>4. ASSUME NEW u \in User, NEW x \in Alive(u)' PROVE x \in Alive(u) \/ (u = v /\ x = c)
      <4>1. /\ x \in Customer /\ account[x] = u
            /\ \/ \E r \in Tab : tab'[r].old = x
               \/ \E s \in Sub : log[s].cust = x
               \/ \E r \in Tab : tab'[r].pc = "page" /\ tab'[r].cust = x
        BY <2>1, <3>4 DEF Alive, Held, Paid, Payable
      <4>2. \/ \E r \in Tab : tab[r].old = x
            \/ \E s \in Sub : log[s].cust = x
            \/ \E r \in Tab : tab[r].pc = "page" /\ tab[r].cust = x
            \/ x = c
        BY <1>d, <2>1, <4>1
      <4> QED BY <2>1, <4>1, <4>2 DEF Alive, Held, Paid, Payable
    <3>5. ASSUME NEW u \in User PROVE /\ Waiting(u)' \subseteq Waiting(u)
                                      /\ t \notin Waiting(u)' /\ Waiting(u)' \subseteq Tab
      BY <2>1 DEF Waiting
    <3>6. ASSUME NEW u \in User, u # v PROVE LossRight(u)'
      BY <1>d, <3>2, <3>4, <3>5, <3>6, LossStays
    <3>7. LossRight(v)'
      <4>1. t \in Waiting(v)
        BY <2>0, <2>1, <2>4 DEF Waiting
      <4>2. customer[v] = None => Alive(v) = {}
        BY <1>d, <2>1 DEF LossRight
      <4>3. \A x \in Alive(v)' : x \in Alive(v) \/ x = c
        BY <2>1, <3>4
      <4>4. Waiting(v)' \subseteq Tab \ {t} /\ Waiting(v)' \subseteq Waiting(v) \ {t}
        BY <2>1, <3>5
      <4>5. LossRight(v) /\ customer'[v] = c
        BY <1>d, <2>1, <3>2
      <4> QED BY <2>1, <3>1, <4>1, <4>2, <4>3, <4>4, <4>5, LossMoves
    <3> QED BY <2>2, <3>3, <3>6, <3>7 DEF TabsInv
  <2> QED BY <2>3, <2>4
(* A step of Stripe or of the webhook. *)
<1>s. ASSUME UNCHANGED <<customer, account>>,
             tab' = tab \/ \E t \in Tab : tab' = [tab EXCEPT ![t] = NoTab],
             \A s \in Sub : \/ log'[s].cust = log[s].cust
                            \/ log'[s].cust \in Foreign
                            \/ \E t \in Tab : tab[t].pc = "page" /\ tab[t].cust = log'[s].cust
      PROVE  TabsInv'
  <2>0. NoTab.old = None /\ NoTab.cust = None /\ NoTab.pc = "idle" /\ NoTab.user = None
    BY DEF NoTab
  <2>1. \A t \in Tab : tab'[t] = tab[t] \/ tab'[t] = NoTab
    BY <1>d, <1>s
  <2>f. \A c \in Foreign : account[c] = None
    BY DEF OwnInv
  <2>2. ASSUME NEW t \in Tab PROVE TabFresh(t)'
    <3>1. CASE tab'[t] = NoTab
      BY <2>0, <3>1 DEF TabFresh
    <3>2. CASE tab'[t] = tab[t] /\ tab[t].pc \in {"session", "save"} /\ tab[t].old = None
      <4>1. /\ Unseen(tab[t].cust, t) /\ tab[t].cust # None /\ account[tab[t].cust] \in User
        BY <1>d, <3>2 DEF TabFresh, TabRight
      <4>2. \A s \in Sub : log'[s].cust # tab[t].cust
        BY <1>d, <1>s, <2>f, <3>2, <4>1 DEF Unseen
      <4>3. \A r \in Tab \ {t} : tab'[r].old # tab[t].cust /\ tab'[r].cust # tab[t].cust
        BY <2>0, <2>1, <4>1 DEF Unseen
      <4>4. \A u \in User : customer'[u] # tab[t].cust
        BY <1>s, <4>1 DEF Unseen
      <4> QED BY <3>2, <4>2, <4>3, <4>4 DEF TabFresh, Unseen
    <3>3. CASE tab'[t] = tab[t] /\ ~(tab[t].pc \in {"session", "save"} /\ tab[t].old = None)
      BY <1>d, <3>3 DEF TabFresh
    <3> QED BY <2>1, <3>1, <3>2, <3>3
  <2>3. ASSUME NEW u \in User PROVE LossRight(u)'
    <3>1. ASSUME NEW c \in Alive(u)' PROVE c \in Alive(u)
      <4>1. /\ c \in Customer /\ account[c] = u
            /\ \/ \E r \in Tab : tab'[r].old = c
               \/ \E s \in Sub : log'[s].cust = c
               \/ \E r \in Tab : tab'[r].pc = "page" /\ tab'[r].cust = c
        BY <1>s, <3>1 DEF Alive, Held, Paid, Payable
      <4>2. \/ \E r \in Tab : tab[r].old = c
            \/ \E s \in Sub : log[s].cust = c
            \/ \E r \in Tab : tab[r].pc = "page" /\ tab[r].cust = c
        BY <1>d, <1>s, <2>0, <2>1, <2>f, <4>1
      <4> QED BY <4>1, <4>2 DEF Alive, Held, Paid, Payable
    <3>2. Waiting(u)' \subseteq Waiting(u)
      BY <2>0, <2>1 DEF Waiting
    <3> QED BY <1>d, <1>s, <3>1, <3>2, LossStays
  <2> QED BY <2>2, <2>3 DEF TabsInv
<1>6. ASSUME NEW s \in Sub, NEW c \in Customer, NEW st \in Status, Subscribe(s, c, st) PROVE TabsInv'
  <2>1. /\ UNCHANGED <<customer, account>>
        /\ log' = [log EXCEPT ![s] = [cust |-> c, states |-> <<st>>]]
        /\ \/ c \in Foreign /\ tab' = tab
           \/ \E t \in Tab : tab[t].pc = "page" /\ tab[t].cust = c /\ tab' = [tab EXCEPT ![t] = NoTab]
    BY <1>6 DEF Subscribe, dbVars
  <2>2. \A r \in Sub : log'[r].cust = log[r].cust \/ (r = s /\ log'[r].cust = c)
    BY <1>d, <2>1
  <2> QED BY <1>s, <2>1, <2>2
<1>7. ASSUME NEW s \in Sub, NEW st \in Status, Change(s, st) PROVE TabsInv'
  <2>1. /\ UNCHANGED <<customer, account, tab>>
        /\ log' = [log EXCEPT ![s] = [cust |-> log[s].cust, states |-> Append(log[s].states, st)]]
    BY <1>7 DEF Change, dbVars
  <2>2. \A r \in Sub : log'[r].cust = log[r].cust
    BY <1>d, <2>1
  <2> QED BY <1>s, <2>1, <2>2
<1>8. CASE UNCHANGED <<customer, account, tab, log>>
  BY <1>8, <1>s
<1> QED BY <1>1, <1>2, <1>3, <1>4, <1>5, <1>6, <1>7, <1>8
     DEF Next, vars, dbVars, stripeVars, Deliver, Fail, Handle, LookupUser, UpsertRow, CountLicenses,
         Generate, LookupSub, MarkCanceled, RevokeAllForUser, EndFailed

LEMMA TabsAlways == Spec => []TabsInv
<1>1. ASSUME Init PROVE TabsInv
  <2>1. /\ \A t \in Tab : tab[t].pc = "idle" /\ tab[t].old = None /\ tab[t].cust = None
        /\ \A u \in User : customer[u] = None
        /\ \A s \in Sub : log[s].cust = None
    BY <1>1 DEF Init, NoTab
  <2>2. \A t \in Tab : TabFresh(t)
    BY <2>1 DEF TabFresh
  <2>3. \A u \in User : LossRight(u)
    BY <2>1, BillingAssumption DEF LossRight, Alive, Held, Paid, Payable
  <2> QED BY <2>2, <2>3 DEF TabsInv
<1>2. OwnInv /\ TabsInv /\ [Next]_vars => TabsInv'
  BY TabsKept
<1> QED BY <1>1, <1>2, OwnInvInductive, PTL DEF Spec

(* Any number of checkouts at once, finished, failed or abandoned: a user    *)
(* loses fewer customers than there are checkouts at once; with one, none.   *)
THEOREM CheckoutsLoseFew == Spec => []FewLost
<1>1. ASSUME TabsInv PROVE FewLost
  <2> SUFFICES ASSUME NEW u \in User
               PROVE  Cardinality((Paid(u) \cup Payable(u)) \ {customer[u]}) < Cardinality(Tab)
    BY DEF FewLost
  <2>1. PICK A, B : A = Alive(u) \ {customer[u]} /\ B = (Paid(u) \cup Payable(u)) \ {customer[u]}
    OBVIOUS
  <2>2. B \subseteq A
    BY <2>1 DEF Alive
  <2>3. CASE customer[u] = None
    <3>1. B = {}
      BY <1>1, <2>1, <2>2, <2>3 DEF TabsInv, LossRight
    <3> QED BY <2>1, <3>1, FS_EmptySet, TabsFinite
  <2>4. CASE customer[u] # None
    <3>1. IsFiniteSet(A) /\ Cardinality(A) + Cardinality(Waiting(u)) < Cardinality(Tab)
      BY <1>1, <2>1, <2>4 DEF TabsInv, LossRight
    <3>2. Cardinality(B) <= Cardinality(A) /\ Cardinality(A) \in Nat /\ Cardinality(B) \in Nat
      BY <2>2, <3>1, FS_Subset, FS_CardinalityType
    <3>3. Waiting(u) \in SUBSET Tab
      BY DEF Waiting
    <3>4. PICK w \in Nat : w = Cardinality(Waiting(u))
      BY <3>3, TabsFinite
    <3>5. Cardinality(B) < Cardinality(Tab)
      BY <3>1, <3>2, <3>4, TabsFinite
    <3> QED BY <2>1, <3>5
  <2> QED BY <2>3, <2>4
<1> QED BY <1>1, TabsAlways, PTL

(* What is lost stays lost. *)
LEMMA LostGrows ==
  ASSUME OwnInv, TabsInv, [Next]_vars, NEW u \in User
  PROVE  Lost(u) \subseteq Lost(u)'
<1> SUFFICES ASSUME NEW c \in Lost(u) PROVE c \in Lost(u)'
  OBVIOUS
<1>1. /\ c \in Customer /\ account[c] = u /\ customer[u] # c /\ c # None /\ u # None
      /\ tab \in [Tab -> TabType] /\ customer \in [User -> Customer \cup {None}]
  BY BillingAssumption DEF Lost, Paid, OwnInv, TypeOK, TabType, TabPc
<1>2. PICK s \in Sub : log[s].cust = c
  BY DEF Lost, Paid
<1>3. account'[c] = u /\ log'[s].cust = c
  BY <1>1, <1>2, GrowsKept DEF Grows, OwnInv, LogRight
<1>4. ASSUME NEW t \in Tab, SaveCustomer(t) PROVE customer'[u] # c
  <2>1. /\ tab[t].pc = "save"
        /\ customer' = IF tab[t].cust # tab[t].old THEN [customer EXCEPT ![tab[t].user] = tab[t].cust] ELSE customer
    BY <1>4 DEF SaveCustomer
  <2>2. TabFresh(t)
    BY DEF TabsInv
  <2>3. tab[t].cust = c => tab[t].cust = tab[t].old
    BY <1>2, <2>1, <2>2 DEF TabFresh, Unseen
  <2>4. CASE tab[t].cust = tab[t].old
    BY <1>1, <2>1, <2>4
  <2>5. CASE tab[t].cust # tab[t].old
    <3>1. customer' = [customer EXCEPT ![tab[t].user] = tab[t].cust] /\ tab[t].cust # c
      BY <2>1, <2>3, <2>5
    <3> QED BY <1>1, <3>1
  <2> QED BY <2>4, <2>5
<1>5. ASSUME customer' = customer PROVE customer'[u] # c
  BY <1>1, <1>5
<1>6. customer'[u] # c
  BY <1>4, <1>5
     DEF Next, vars, dbVars, stripeVars, OpenCheckout, ReadCustomer, NewCustomer, NewSession, LeaveCheckout,
         Subscribe, Change, Deliver, Fail, Handle, LookupUser, UpsertRow, CountLicenses,
         Generate, LookupSub, MarkCanceled, RevokeAllForUser, EndFailed
<1> QED BY <1>1, <1>3, <1>6 DEF Lost, Paid

(* The webhook knows the user of a customer of ours that is not lost. *)
LEMMA KnownUser ==
  ASSUME OwnInv, NEW s \in Sub, log[s].states # <<>>, UserOf(log[s].cust) = {}
  PROVE  \/ log[s].cust \in Foreign /\ account[log[s].cust] = None
         \/ /\ account[log[s].cust] \in User /\ log[s].cust \in Lost(account[log[s].cust])
<1>1. /\ log[s].cust # None /\ log[s].cust \in Customer \cup {None}
      /\ log[s].cust \notin Foreign => account[log[s].cust] \in User
      /\ \A c \in Foreign : account[c] = None
  BY DEF OwnInv, LogRight, TypeOK
<1> QED BY <1>1 DEF UserOf, Lost, Paid

-----------------------------------------------------------------------------
(* A subscription of the user u's own that has been in the state x. *)
Was(u, x) == \E s \in Sub : /\ log[s].cust # None /\ account[log[s].cust] = u
                            /\ \E n \in DOMAIN log[s].states : log[s].states[n] = x

(* What the state of Billing is for Entitlement. *)
LEMMA Mapped ==
  /\ {u \in User : \E s \in OwnSubs(u) : WasActive(s)} = {u \in User : Was(u, "active")}
  /\ {u \in User : \E s \in OwnSubs(u) : \E n \in DOMAIN log[s].states : log[s].states[n] = "canceled"}
       = {u \in User : Was(u, "canceled")}
  BY DEF Was, OwnSubs, WasActive

(* A step that begins no subscription and changes none keeps their history. *)
LEMMA WasStays ==
  ASSUME OwnInv, [Next]_vars, log' = log, NEW u \in User, NEW x,
         \A c \in Foreign : account'[c] = None
  PROVE  Was(u, x)' <=> Was(u, x)
<1>1. /\ Grows /\ \A s \in Sub : LogRight(s) /\ log[s].cust \in Customer \cup {None}
      /\ \A c \in Foreign : account[c] = None
  BY GrowsKept DEF OwnInv, TypeOK
<1>2. \A s \in Sub : log[s].cust # None => account'[log[s].cust] = account[log[s].cust]
  BY <1>1, BillingAssumption DEF LogRight, Grows
<1> QED BY <1>2 DEF Was

(* Every step of Billing is a step of Entitlement or none of its business.   *)
LEMMA StepRefines == ASSUME OwnInv, [Next]_vars PROVE [E!Next]_(E!vars)
<1> DEFINE paid     == {u \in User : Was(u, "active")}
           ended    == {u \in User : Was(u, "canceled")}
           licensed == {u \in User : licenses[u] > 0}
<1>d. /\ TypeOK /\ \A h \in Handler : HandlerRight(h)
      /\ \A s \in Sub : LogRight(s)
      /\ log \in [Sub -> LogType] /\ licenses \in [User -> Nat]
      /\ \A c \in Foreign : account'[c] = None
  BY OwnersKept DEF OwnInv, TypeOK, LogType
<1>m. /\ E!vars = <<paid, ended, licensed>>
      /\ E!vars' = <<paid', ended', licensed'>>
  BY Mapped DEF E!vars, OwnSubs, Was, WasActive
<1>s. ASSUME UNCHANGED <<paid, ended, licensed>> PROVE E!vars' = E!vars
  BY <1>s, <1>m
<1>p. ASSUME NEW u \in User, paid' = paid \cup {u}, UNCHANGED <<ended, licensed>> PROVE E!Next
  <2>1. E!Pay(u)
    BY <1>p, <1>m, Mapped DEF E!Pay, OwnSubs, Was, WasActive
  <2> QED BY <2>1 DEF E!Next
<1>e. ASSUME NEW u \in User, ended' = ended \cup {u}, UNCHANGED <<paid, licensed>> PROVE E!Next
  <2>1. E!End(u)
    BY <1>e, <1>m, Mapped DEF E!End, OwnSubs, Was, WasActive
  <2> QED BY <2>1 DEF E!Next
<1>g. ASSUME NEW u \in paid, licensed' = licensed \cup {u}, UNCHANGED <<paid, ended>> PROVE E!Next
  <2>1. E!Grant(u)
    BY <1>g, <1>m, Mapped DEF E!Grant, OwnSubs, Was, WasActive
  <2> QED BY <2>1 DEF E!Next
<1>r. ASSUME NEW u \in ended, licensed' = licensed \ {u}, UNCHANGED <<paid, ended>> PROVE E!Next
  <2>1. E!Revoke(u)
    BY <1>r, <1>m, Mapped DEF E!Revoke, OwnSubs, Was, WasActive
  <2> QED BY <2>1 DEF E!Next
<1>c. ASSUME log' = log PROVE UNCHANGED <<paid, ended>>
  BY <1>c, <1>d, WasStays
<1>1. CASE UNCHANGED <<log, licenses>>
  BY <1>1, <1>c, <1>s
<1>2. ASSUME NEW s \in Sub, NEW c \in Customer, NEW st \in Status, Subscribe(s, c, st)
      PROVE  [E!Next]_(E!vars)
  <2>1. /\ log' = [log EXCEPT ![s] = [cust |-> c, states |-> <<st>>]] /\ UNCHANGED <<account, licenses>>
        /\ log[s].cust = None /\ st # "canceled"
    BY <1>2, <1>d DEF Subscribe, Unused, dbVars, LogRight
  <2>2. log'[s].cust = c /\ log'[s].states = <<st>> /\ c # None /\ \A r \in Sub \ {s} : log'[r] = log[r]
    BY <2>1, <1>d, BillingAssumption
  <2>3. \A x : (\E n \in DOMAIN <<st>> : <<st>>[n] = x) <=> x = st
    <3>1. DOMAIN <<st>> = {1} /\ <<st>>[1] = st
      OBVIOUS
    <3> QED BY <3>1
  <2>4. ASSUME NEW u \in User, NEW x PROVE Was(u, x)' <=> Was(u, x) \/ (account[c] = u /\ x = st)
    <3>1. ASSUME Was(u, x) PROVE Was(u, x)'
      BY <3>1, <2>1, <2>2 DEF Was
    <3>2. ASSUME account[c] = u, x = st PROVE Was(u, x)'
      BY <3>2, <2>1, <2>2, <2>3 DEF Was
    <3>3. ASSUME Was(u, x)' PROVE Was(u, x) \/ (account[c] = u /\ x = st)
      <4>1. PICK r \in Sub : /\ log'[r].cust # None /\ account'[log'[r].cust] = u
                             /\ \E n \in DOMAIN log'[r].states : log'[r].states[n] = x
        BY <3>3 DEF Was
      <4>2. CASE r = s
        BY <4>1, <4>2, <2>1, <2>2, <2>3
      <4>3. CASE r # s
        BY <4>1, <4>3, <2>1, <2>2 DEF Was
      <4> QED BY <4>2, <4>3
    <3> QED BY <3>1, <3>2, <3>3
  <2>5. UNCHANGED <<ended, licensed>>
    BY <2>1, <2>4
  <2>6. CASE st = "active" /\ account[c] \in User
    <3>1. paid' = paid \cup {account[c]}
      BY <2>4, <2>6
    <3> QED BY <3>1, <2>5, <2>6, <1>p
  <2>7. CASE ~(st = "active" /\ account[c] \in User)
    <3>1. paid' = paid
      BY <2>4, <2>7
    <3> QED BY <3>1, <2>5, <1>s
  <2> QED BY <2>6, <2>7
<1>3. ASSUME NEW s \in Sub, NEW st \in Status, Change(s, st) PROVE [E!Next]_(E!vars)
  <2>1. /\ log' = [log EXCEPT ![s] = [cust |-> log[s].cust, states |-> Append(log[s].states, st)]]
        /\ UNCHANGED <<account, licenses>>
    BY <1>3 DEF Change, dbVars
  <2>2. /\ log'[s].cust = log[s].cust /\ log'[s].states = Append(log[s].states, st)
        /\ log[s].states \in Seq(Status) /\ \A r \in Sub \ {s} : log'[r] = log[r]
    BY <2>1, <1>d DEF LogType
  <2>3. ASSUME NEW x
        PROVE  (\E n \in DOMAIN log'[s].states : log'[s].states[n] = x)
                <=> (\E n \in DOMAIN log[s].states : log[s].states[n] = x) \/ st = x
    <3> DEFINE q == log[s].states
    <3>1. q \in Seq(Status) /\ log'[s].states = Append(q, st)
      BY <2>2
    <3> HIDE DEF q
    <3>2. (\E n \in DOMAIN Append(q, st) : Append(q, st)[n] = x) <=> (\E n \in DOMAIN q : q[n] = x) \/ st = x
      BY <3>1, AppendSeen
    <3> QED BY <3>1, <3>2 DEF q
  <2>c. log[s].cust # None
    BY <1>3, <1>d DEF Change, Live, LogRight
  <2>4. ASSUME NEW u \in User, NEW x
        PROVE  Was(u, x)' <=> Was(u, x) \/ (account[log[s].cust] = u /\ x = st)
    <3>1. ASSUME Was(u, x) PROVE Was(u, x)'
      <4>1. PICK r \in Sub : /\ log[r].cust # None /\ account[log[r].cust] = u
                             /\ \E n \in DOMAIN log[r].states : log[r].states[n] = x
        BY <3>1 DEF Was
      <4>2. /\ log'[r].cust # None /\ account'[log'[r].cust] = u
            /\ \E n \in DOMAIN log'[r].states : log'[r].states[n] = x
        BY <4>1, <2>1, <2>2, <2>3
      <4> QED BY <4>2 DEF Was
    <3>2. ASSUME account[log[s].cust] = u, x = st PROVE Was(u, x)'
      BY <3>2, <2>1, <2>2, <2>3, <2>c DEF Was
    <3>3. ASSUME Was(u, x)' PROVE Was(u, x) \/ (account[log[s].cust] = u /\ x = st)
      <4>1. PICK r \in Sub : /\ log'[r].cust # None /\ account'[log'[r].cust] = u
                             /\ \E n \in DOMAIN log'[r].states : log'[r].states[n] = x
        BY <3>3 DEF Was
      <4>2. CASE r = s
        BY <4>1, <4>2, <2>1, <2>2, <2>3 DEF Was
      <4>3. CASE r # s
        BY <4>1, <4>3, <2>1, <2>2 DEF Was
      <4> QED BY <4>2, <4>3
    <3> QED BY <3>1, <3>2, <3>3
  <2>5. licensed' = licensed
    BY <2>1
  <2>6. CASE account[log[s].cust] \notin User \/ st \notin {"active", "canceled"}
    <3>1. UNCHANGED <<paid, ended>>
      BY <2>4, <2>6
    <3> QED BY <3>1, <2>5, <1>s
  <2>7. CASE account[log[s].cust] \in User /\ st = "active"
    <3>1. paid' = paid \cup {account[log[s].cust]} /\ ended' = ended
      BY <2>4, <2>7
    <3> QED BY <3>1, <2>5, <2>7, <1>p
  <2>8. CASE account[log[s].cust] \in User /\ st = "canceled"
    <3>1. ended' = ended \cup {account[log[s].cust]} /\ paid' = paid
      BY <2>4, <2>8
    <3> QED BY <3>1, <2>5, <2>8, <1>e
  <2> QED BY <2>6, <2>7, <2>8
<1>4. ASSUME NEW h \in Handler, Generate(h) PROVE [E!Next]_(E!vars)
  <2>1. /\ SubOf(h) \in Sub /\ handler[h].event[2] \in DOMAIN log[SubOf(h)].states
        /\ log[SubOf(h)].states # <<>> /\ StatusOf(h) = "active"
        /\ handler[h].user \in User /\ account[log[SubOf(h)].cust] = handler[h].user
    BY <1>4, <1>d, AtRow DEF Generate, At, HandlerRight
  <2>2. handler[h].user \in paid
    BY <2>1, <1>d DEF Was, StatusOf, LogRight
  <2>3. log' = log /\ licenses' = [licenses EXCEPT ![handler[h].user] = licenses[handler[h].user] + 1]
    BY <1>4 DEF Generate
  <2>4. licensed' = licensed \cup {handler[h].user}
    BY <2>1, <2>3, <1>d
  <2> QED BY <2>2, <2>3, <2>4, <1>c, <1>g
<1>5. ASSUME NEW h \in Handler, RevokeAllForUser(h) PROVE [E!Next]_(E!vars)
  <2>0. handler[h].pc = "revoke"
    BY <1>5 DEF RevokeAllForUser, At
  <2>1. /\ SubOf(h) \in Sub /\ handler[h].event[2] \in DOMAIN log[SubOf(h)].states
        /\ log[SubOf(h)].states # <<>> /\ StatusOf(h) = "canceled"
        /\ subs[SubOf(h)] # None /\ subs[SubOf(h)].user = handler[h].user
    BY <2>0, <1>d, AtRow DEF At, HandlerRight
  <2>2. handler[h].user \in User /\ account[log[SubOf(h)].cust] = handler[h].user
    BY <2>1 DEF OwnInv, TypeOK, Row, RowRight
  <2>3. handler[h].user \in ended
    BY <2>1, <2>2, <1>d DEF Was, StatusOf, LogRight
  <2>4. log' = log /\ licenses' = [licenses EXCEPT ![handler[h].user] = 0]
    BY <1>5 DEF RevokeAllForUser
  <2>5. licensed' = licensed \ {handler[h].user}
    BY <2>2, <2>4, <1>d
  <2> QED BY <2>3, <2>4, <2>5, <1>c, <1>r
<1> QED BY <1>1, <1>2, <1>3, <1>4, <1>5
     DEF Next, vars, dbVars, stripeVars, OpenCheckout, ReadCustomer, NewCustomer, NewSession, SaveCustomer,
         LeaveCheckout, Deliver, Fail, Die, Handle, LookupUser, UpsertRow, CountLicenses, LookupSub,
         MarkCanceled, EndFailed

(* For any users, customers, handlers and deliveries, the checkout and the   *)
(* webhook together implement Entitlement: a license is granted only to a    *)
(* user who has paid, and taken only from one with a subscription that ended.*)
THEOREM BillingEntitles == Spec => Entitled
<1>1. Init => E!Init
  BY DEF Init, E!Init, OwnSubs, WasActive
<1>2. ASSUME OwnInv, [Next]_vars PROVE [E!Next]_(E!vars)
  BY <1>2, StepRefines
<1> QED BY <1>1, <1>2, OwnInvInductive, PTL DEF Spec, Entitled, E!Spec

-----------------------------------------------------------------------------
(* Row and license of a user's only subscription. *)

(* An event that will be handled (again): it is due, or a request has it.    *)
InHand(e)      == e \in due \/ \E h \in Handler : ~At(h, "idle") /\ handler[h].event = e
Pending(s, st) == \E n \in DOMAIN log[s].states : log[s].states[n] = st /\ InHand(<<s, n>>)

(* Row and license agree, or the event that will make them agree is at hand. *)
RowRule(u, s) ==
  /\ subs[s].status = "active" /\ licenses[u] # 1 => Pending(s, "active")
  /\ subs[s].status = "canceled" /\ licenses[u] # 0 => Pending(s, "canceled")

(* The row is as the only request that writes rows has left it.              *)
RowStands(h) ==
  /\ handler[h].pc \in {"user", "upsert"} => StatusOf(h) # "canceled"
  /\ handler[h].pc \in {"count", "generate"} => subs[SubOf(h)].status = "active"
  /\ handler[h].pc = "revoke" => subs[SubOf(h)].status = "canceled"

RuleInv == /\ \A u \in User, s \in Sub : RowsOf(u) = {s} /\ Lost(u) = {} => RowRule(u, s)
           /\ \A h \in Handler : RowStands(h)

(* An event that stays at hand stays pending. *)
LEMMA PendingStays ==
  ASSUME OwnInv, [Next]_vars, NEW s \in Sub, NEW st, Pending(s, st),
         \A n \in Nat : log[s].states[n] = st /\ InHand(<<s, n>>) => InHand(<<s, n>>)'
  PROVE  Pending(s, st)'
<1>1. /\ log[s].states \in Seq(Status) /\ log'[s].states \in Seq(Status)
      /\ Len(log[s].states) <= Len(log'[s].states)
      /\ \A n \in 1 .. Len(log[s].states) : log'[s].states[n] = log[s].states[n]
  BY TypeKept, GrowsKept DEF OwnInv, TypeOK, Grows
<1>2. PICK n \in DOMAIN log[s].states : log[s].states[n] = st /\ InHand(<<s, n>>)
  BY DEF Pending
<1>3. n \in Nat /\ n \in DOMAIN log'[s].states /\ log'[s].states[n] = st
  BY <1>1, <1>2
<1> QED BY <1>2, <1>3 DEF Pending

(* A step that writes no row and no license and drops no event keeps the     *)
(* rule.                                                                     *)
LEMMA RuleStays ==
  ASSUME OwnInv, TabsInv, [Next]_vars, UNCHANGED <<subs, licenses>>,
         \A s \in Sub, n \in Nat : InHand(<<s, n>>) => InHand(<<s, n>>)',
         NEW u \in User, NEW s \in Sub, RowsOf(u) = {s} /\ Lost(u) = {} => RowRule(u, s),
         RowsOf(u)' = {s}, Lost(u)' = {}
  PROVE  RowRule(u, s)'
<1>1. RowRule(u, s)
  <2>1. Lost(u) = {}
    BY LostGrows
  <2>2. RowsOf(u) = {s}
    BY DEF RowsOf
  <2> QED BY <2>1, <2>2
<1>2. Pending(s, "active") => Pending(s, "active")'
  BY PendingStays
<1>3. Pending(s, "canceled") => Pending(s, "canceled")'
  BY PendingStays
<1> QED BY <1>1, <1>2, <1>3 DEF RowRule

(* A step about one subscription keeps the rule where another is the only    *)
(* one.                                                                      *)
LEMMA RuleElsewhere ==
  ASSUME OwnInv, TabsInv, [Next]_vars, NEW r \in Sub,
         \A s \in Sub \ {r} : subs'[s] = subs[s],
         \A s \in Sub \ {r}, n \in Nat : InHand(<<s, n>>) => InHand(<<s, n>>)',
         NEW u \in User, NEW s \in Sub \ {r}, RowsOf(u) = {s} /\ Lost(u) = {} => RowRule(u, s),
         RowsOf(u)' = {s}, Lost(u)' = {}, licenses'[u] = licenses[u]
  PROVE  RowRule(u, s)'
<1>1. \A t \in Sub : subs[t] # None => subs'[t] # None /\ subs'[t].user = subs[t].user
  BY GrowsKept DEF Grows
<1>2. r \notin RowsOf(u) /\ \A t \in Sub \ {r} : t \in RowsOf(u) <=> t \in {s}
  BY <1>1 DEF RowsOf
<1>3. RowsOf(u) = {s}
  BY <1>2 DEF RowsOf
<1>4. RowRule(u, s)
  BY <1>3, LostGrows
<1>5. Pending(s, "active") => Pending(s, "active")'
  BY PendingStays
<1>6. Pending(s, "canceled") => Pending(s, "canceled")'
  BY PendingStays
<1> QED BY <1>4, <1>5, <1>6 DEF RowRule

(* The answer to the only request drops no other event. *)
LEMMA AnswerDropsOwn ==
  ASSUME \A g, h \in Handler : g = h, TypeOK, NEW h \in Handler, ~At(h, "idle"), HandlerRight(h), OK(h)
  PROVE  /\ \A s \in Sub, n \in Nat : InHand(<<s, n>>) /\ <<s, n>> # handler[h].event => InHand(<<s, n>>)'
         /\ \A s \in Sub \ {SubOf(h)}, n \in Nat : InHand(<<s, n>>) => InHand(<<s, n>>)'
         /\ \A g \in Handler : handler'[g].pc \in {"idle", "failed"}
<1>0. handler[h].event \in Event /\ handler \in [Handler -> HandlerType]
  BY DEF TypeOK, HandlerRight, HandlerType, HandlerPc
<1>1. /\ due \ {handler[h].event} \subseteq due' /\ handler'[h].pc \in {"idle", "failed"}
  BY <1>0 DEF OK, Die, Free, HandlerType
<1>2. \A s \in Sub, n \in Nat : InHand(<<s, n>>) /\ <<s, n>> # handler[h].event => InHand(<<s, n>>)'
  BY <1>1 DEF InHand
<1>3. \A s \in Sub \ {SubOf(h)}, n \in Nat : <<s, n>> # handler[h].event
  BY DEF SubOf
<1> QED BY <1>1, <1>2, <1>3

(* A request keeps its subscription and the status that it was told. *)
LEMMA ToldStays ==
  ASSUME OwnInv, [Next]_vars, NEW h \in Handler, ~At(h, "idle"),
         handler'[h].event = handler[h].event
  PROVE  SubOf(h)' = SubOf(h) /\ StatusOf(h)' = StatusOf(h) /\ SubOf(h) \in Sub
<1>1. TypeOK /\ HandlerRight(h) /\ Grows
  BY GrowsKept DEF OwnInv
<1>2. SubOf(h) \in Sub /\ handler[h].event[2] \in DOMAIN log[SubOf(h)].states
  BY <1>1, AtRow
<1>3. log[SubOf(h)].states \in Seq(Status)
  BY <1>1, <1>2 DEF TypeOK
<1>4. handler[h].event[2] \in 1 .. Len(log[SubOf(h)].states)
  BY <1>2, <1>3
<1>5. SubOf(h)' = SubOf(h)
  BY DEF SubOf
<1> QED BY <1>1, <1>2, <1>4, <1>5 DEF Grows, StatusOf

(* Each statement of the one request keeps the rule. *)
LEMMA RuleHandled ==
  ASSUME \A g, h \in Handler : g = h,
         OwnInv, TabsInv, RuleInv, CountHolds, [Next]_vars, NEW h \in Handler, Handle(h)
  PROVE  RuleInv'
<1>z. PICK r : r = SubOf(h)
  OBVIOUS
<1>d. /\ TypeOK /\ HandlerRight(h) /\ ~At(h, "idle") /\ handler[h] \in HandlerType
      /\ handler \in [Handler -> HandlerType] /\ subs \in [Sub -> Row \cup {None}]
      /\ licenses \in [User -> Nat] /\ RowStands(h) /\ Handler = {h}
      /\ \A s \in Sub : LogRight(s) /\ RowRight(s)
      /\ \A u \in User, s \in Sub : RowsOf(u) = {s} /\ Lost(u) = {} => RowRule(u, s)
  BY DEF OwnInv, TypeOK, HandlerType, HandlerPc, RuleInv, Row, At, Handle, LookupUser, UpsertRow,
         CountLicenses, Generate, LookupSub, MarkCanceled, RevokeAllForUser, EndFailed
<1>e. r \in Sub /\ StatusOf(h) \in Status
  BY <1>d, <1>z, AtRow
<1>i. ASSUME \A g \in Handler : handler'[g].pc \in {"idle", "failed"}
      PROVE  \A g \in Handler : RowStands(g)'
  BY <1>i DEF RowStands
(* A step whose rule is clear for its own subscription. *)
<1>r. ASSUME \A s \in Sub \ {r} : subs'[s] = subs[s],
             \A s \in Sub \ {r}, n \in Nat : InHand(<<s, n>>) => InHand(<<s, n>>)',
             \A u \in User : licenses'[u] = licenses[u] \/ r \in RowsOf(u)',
             \A u \in User : RowsOf(u)' = {r} /\ Lost(u)' = {} => RowRule(u, r)',
             RowStands(h)'
      PROVE  RuleInv'
  <2>1. ASSUME NEW u \in User, NEW s \in Sub, RowsOf(u)' = {s}, Lost(u)' = {} PROVE RowRule(u, s)'
    <3>1. CASE s = r
      BY <1>r, <2>1, <3>1
    <3>2. CASE s # r
      <4>1. licenses'[u] = licenses[u]
        BY <1>r, <2>1, <3>2
      <4> QED BY <1>d, <1>e, <1>r, <2>1, <3>2, <4>1, RuleElsewhere
    <3> QED BY <3>1, <3>2
  <2> QED BY <1>d, <1>r, <2>1 DEF RuleInv
<1>q. ASSUME UNCHANGED <<subs, licenses>>, RowStands(h)',
             \A s \in Sub, n \in Nat : InHand(<<s, n>>) => InHand(<<s, n>>)'
      PROVE  RuleInv'
  BY <1>d, <1>q, RuleStays DEF RuleInv
<1>a. ASSUME OK(h)
      PROVE  /\ \A s \in Sub \ {r}, n \in Nat : InHand(<<s, n>>) => InHand(<<s, n>>)'
             /\ RowStands(h)'
  BY <1>a, <1>d, <1>i, AnswerDropsOwn, <1>z
(* A statement after which the request goes on. *)
<1>g. ASSUME NEW pc, handler' = [handler EXCEPT ![h].pc = pc] \/ \E u : handler' = [handler EXCEPT ![h].pc = pc, ![h].user = u],
             due' = due, pc # "idle"
      PROVE  /\ \A s \in Sub, n \in Nat : InHand(<<s, n>>) => InHand(<<s, n>>)'
             /\ handler'[h].pc = pc /\ handler'[h].event = handler[h].event
             /\ SubOf(h)' = r /\ StatusOf(h)' = StatusOf(h)
  <2>1. handler'[h].pc = pc /\ handler'[h].event = handler[h].event
    BY <1>d, <1>g DEF HandlerType
  <2>2. SubOf(h)' = r /\ StatusOf(h)' = StatusOf(h)
    BY <1>d, <2>1, ToldStays, <1>z
  <2>3. \A s \in Sub, n \in Nat : InHand(<<s, n>>) => InHand(<<s, n>>)'
    BY <1>d, <1>g, <2>1 DEF InHand, At
  <2> QED BY <2>1, <2>2, <2>3
(* The user of the request is the row's. *)
<1>u. ASSUME handler[h].pc \in {"count", "generate", "cancel", "revoke"}
      PROVE  /\ subs[r] \in Row /\ subs[r].user = handler[h].user /\ handler[h].user \in User
             /\ \A u \in User : r \in RowsOf(u) <=> u = handler[h].user
  <2>1. subs[r] # None /\ subs[r].user = handler[h].user
    BY <1>d, <1>u, <1>z DEF HandlerRight
  <2>2. subs[r] \in Row
    BY <1>d, <1>e, <2>1
  <2> QED BY <1>e, <2>1, <2>2 DEF Row, RowsOf
<1>1. CASE LookupUser(h)
  <2>1. ASSUME UserOf(log[r].cust) = {}, OK(h) PROVE RuleInv'
    <3>1. ASSUME NEW u \in User, r \in RowsOf(u) PROVE Lost(u)' # {}
      <4>1. log[r].states # <<>> /\ account[log[r].cust] = u /\ u # None
        BY <1>d, <1>e, <3>1, BillingAssumption DEF RowRight, RowsOf
      <4>2. Lost(u) # {}
        BY <1>e, <2>1, <4>1, KnownUser
      <4> QED BY <4>2, LostGrows
    <3>2. UNCHANGED <<subs, licenses>>
      BY <1>1 DEF LookupUser, dbVars
    <3>3. \A u \in User : RowsOf(u)' = {r} => Lost(u)' # {}
      BY <3>1, <3>2 DEF RowsOf
    <3> QED BY <1>a, <1>r, <2>1, <3>2, <3>3
  <2>2. ASSUME NEW u, handler' = [handler EXCEPT ![h].pc = "upsert", ![h].user = u], due' = due PROVE RuleInv'
    <3>1. UNCHANGED <<subs, licenses>> /\ StatusOf(h) # "canceled"
      BY <1>1, <1>d DEF LookupUser, dbVars, RowStands, At
    <3>2. /\ handler'[h].pc = "upsert" /\ StatusOf(h)' = StatusOf(h)
          /\ \A s \in Sub, n \in Nat : InHand(<<s, n>>) => InHand(<<s, n>>)'
      BY <1>g, <2>2
    <3>3. RowStands(h)'
      BY <3>1, <3>2 DEF RowStands
    <3> QED BY <1>q, <3>1, <3>2, <3>3
  <2> QED BY <1>1, <2>1, <2>2, <1>z DEF LookupUser
<1>2. CASE UpsertRow(h)
  <2>1. /\ At(h, "upsert") /\ StatusOf(h) # "canceled" /\ handler[h].user \in User
        /\ subs' = [subs EXCEPT ![r] = Upserted(h)] /\ licenses' = licenses
    BY <1>2, <1>d, <1>z DEF UpsertRow, RowStands, At, HandlerRight
  <2>2. subs'[r] = Upserted(h) /\ \A s \in Sub \ {r} : subs'[s] = subs[s]
    BY <1>d, <1>e, <2>1
  <2>3. subs'[r].status = StatusOf(h)
    BY <2>2 DEF Upserted
  <2>4. CASE StatusOf(h) = "active"
    <3>1. handler' = [handler EXCEPT ![h].pc = "count"] /\ due' = due
      BY <1>2, <2>4 DEF UpsertRow, Goto
    <3>2. handler'[h].pc = "count" /\ handler'[h].event = handler[h].event /\ SubOf(h)' = r
          /\ StatusOf(h)' = StatusOf(h)
          /\ \A s \in Sub, n \in Nat : InHand(<<s, n>>) => InHand(<<s, n>>)'
      BY <1>g, <3>1
    <3>3. RowStands(h)'
      BY <2>3, <2>4, <3>2 DEF RowStands
    <3>4. Pending(r, "active")'
      <4>1. /\ handler[h].event[2] \in DOMAIN log[r].states /\ log[r].states[handler[h].event[2]] = "active"
            /\ handler[h].event = <<r, handler[h].event[2]>>
        BY <1>d, <2>4, AtRow, <1>z DEF StatusOf, SubOf, HandlerRight, Event
      <4>2. log' = log
        BY <1>2 DEF UpsertRow
      <4>3. PICK e : e = handler[h].event
        OBVIOUS
      <4>4. InHand(e)'
        BY <3>2, <4>3 DEF InHand, At
      <4>5. PICK n : n = handler[h].event[2]
        OBVIOUS
      <4>6. e = <<r, n>> /\ n \in DOMAIN log'[r].states /\ log'[r].states[n] = "active"
        BY <4>1, <4>2, <4>3, <4>5
      <4> QED BY <4>4, <4>6 DEF Pending
    <3>5. \A u \in User : RowRule(u, r)'
      BY <2>3, <2>4, <3>4 DEF RowRule
    <3> QED BY <1>r, <2>1, <2>2, <3>2, <3>3, <3>5
  <2>5. CASE StatusOf(h) # "active"
    <3>1. OK(h)
      BY <1>2, <2>5 DEF UpsertRow
    <3>2. \A u \in User : RowRule(u, r)'
      BY <2>1, <2>3, <2>5 DEF RowRule
    <3> QED BY <1>a, <1>r, <2>1, <2>2, <3>1, <3>2
  <2> QED BY <2>4, <2>5
<1>3. CASE CountLicenses(h)
  <2>1. /\ At(h, "count") /\ UNCHANGED <<subs, licenses>> /\ subs[r].status = "active"
        /\ licenses[handler[h].user] # 0 => OK(h)
        /\ licenses[handler[h].user] = 0 => Goto(h, "generate")
    BY <1>3, <1>d, <1>z DEF CountLicenses, dbVars, RowStands, At
  <2>2. CASE licenses[handler[h].user] = 0
    <3>1. handler' = [handler EXCEPT ![h].pc = "generate"] /\ due' = due
      BY <2>1, <2>2 DEF Goto
    <3>2. RowStands(h)'
      BY <1>g, <2>1, <3>1 DEF RowStands
    <3> QED BY <1>g, <1>q, <2>1, <3>1, <3>2
  <2>3. CASE licenses[handler[h].user] # 0
    <3>1. handler[h].user \in User /\ \A u \in User : r \in RowsOf(u) <=> u = handler[h].user
      BY <1>u, <2>1 DEF At
    <3>2. licenses[handler[h].user] = 1
      BY <1>d, <2>3, <3>1 DEF CountHolds
    <3>3. ASSUME NEW u \in User, RowsOf(u)' = {r} PROVE RowRule(u, r)'
      <4>1. u = handler[h].user
        BY <2>1, <3>1, <3>3 DEF RowsOf
      <4> QED BY <2>1, <3>2, <4>1 DEF RowRule
    <3> QED BY <1>a, <1>r, <2>1, <2>3, <3>3
  <2> QED BY <2>2, <2>3
<1>4. CASE Generate(h) \/ RevokeAllForUser(h)
  <2>1. /\ handler[h].pc \in {"generate", "revoke"} /\ subs' = subs /\ OK(h)
        /\ At(h, "generate") => /\ licenses' = [licenses EXCEPT ![handler[h].user] = @ + 1]
                                /\ subs[r].status = "active" /\ licenses[handler[h].user] = 0
        /\ At(h, "revoke") => /\ licenses' = [licenses EXCEPT ![handler[h].user] = 0]
                              /\ subs[r].status = "canceled"
    BY <1>4, <1>d, <1>z DEF Generate, RevokeAllForUser, RowStands, At, CountHolds
  <2>2. handler[h].user \in User /\ \A u \in User : r \in RowsOf(u) <=> u = handler[h].user
    BY <1>u, <2>1
  <2>3. \A u \in User \ {handler[h].user} : licenses'[u] = licenses[u]
    BY <1>d, <2>1 DEF At
  <2>4. /\ At(h, "generate") => licenses'[handler[h].user] = 1
        /\ At(h, "revoke") => licenses'[handler[h].user] = 0
    BY <1>d, <2>1, <2>2
  <2>5. \A u \in User : RowsOf(u)' = RowsOf(u)
    BY <2>1 DEF RowsOf
  <2>6. ASSUME NEW u \in User, RowsOf(u)' = {r} PROVE RowRule(u, r)'
    <3>1. u = handler[h].user
      BY <2>2, <2>5, <2>6
    <3> QED BY <2>1, <2>4, <3>1 DEF RowRule, At
  <2>7. \A u \in User : licenses'[u] = licenses[u] \/ r \in RowsOf(u)'
    BY <2>2, <2>3, <2>5
  <2> QED BY <1>a, <1>r, <2>1, <2>6, <2>7
<1>5. CASE LookupSub(h)
  <2>1. UNCHANGED <<subs, licenses>> /\ StatusOf(h) = "canceled" /\ At(h, "sub")
    BY <1>5, <1>d DEF LookupSub, dbVars, HandlerRight, At
  <2>2. CASE subs[r] = None
    <3>1. OK(h)
      BY <1>5, <2>2, <1>z DEF LookupSub
    <3>2. \A u \in User : RowsOf(u)' # {r}
      BY <2>1, <2>2 DEF RowsOf
    <3> QED BY <1>a, <1>r, <2>1, <3>1, <3>2
  <2>3. CASE subs[r] # None
    <3>1. PICK u : handler' = [handler EXCEPT ![h].pc = "cancel", ![h].user = u] /\ due' = due
      BY <1>5, <2>3, <1>z DEF LookupSub
    <3>2. /\ handler'[h].pc = "cancel"
          /\ \A s \in Sub, n \in Nat : InHand(<<s, n>>) => InHand(<<s, n>>)'
      BY <1>g, <3>1
    <3>3. RowStands(h)'
      BY <3>2 DEF RowStands
    <3> QED BY <1>q, <2>1, <3>2, <3>3
  <2> QED BY <2>2, <2>3
<1>6. CASE MarkCanceled(h)
  <2>1. /\ At(h, "cancel") /\ StatusOf(h) = "canceled" /\ licenses' = licenses /\ log' = log
        /\ subs' = [subs EXCEPT ![r].status = "canceled"]
        /\ handler' = [handler EXCEPT ![h].pc = "revoke"] /\ due' = due
    BY <1>6, <1>d, <1>z DEF MarkCanceled, Goto, HandlerRight, At
  <2>2. subs'[r].status = "canceled" /\ \A s \in Sub \ {r} : subs'[s] = subs[s]
    BY <1>d, <1>e, <1>u, <2>1 DEF Row, At
  <2>3. handler'[h].pc = "revoke" /\ handler'[h].event = handler[h].event /\ SubOf(h)' = r
        /\ StatusOf(h)' = StatusOf(h)
        /\ \A s \in Sub, n \in Nat : InHand(<<s, n>>) => InHand(<<s, n>>)'
    BY <1>g, <2>1
  <2>4. RowStands(h)'
    BY <2>2, <2>3 DEF RowStands
  <2>5. Pending(r, "canceled")'
    <3>1. /\ handler[h].event[2] \in DOMAIN log[r].states /\ log[r].states[handler[h].event[2]] = "canceled"
          /\ handler[h].event = <<r, handler[h].event[2]>>
      BY <1>d, <2>1, AtRow, <1>z DEF StatusOf, SubOf, HandlerRight, Event
    <3>2. InHand(handler[h].event)'
      BY <2>3 DEF InHand, At
    <3> QED BY <2>1, <3>1, <3>2 DEF Pending
  <2>6. \A u \in User : RowRule(u, r)'
    BY <2>2, <2>5 DEF RowRule
  <2> QED BY <1>r, <2>1, <2>2, <2>3, <2>4, <2>6
<1>7. CASE EndFailed(h)
  <2>1. UNCHANGED <<subs, licenses>> /\ due' = due \cup {handler[h].event} /\ handler'[h].pc = "idle"
    BY <1>7, <1>d DEF EndFailed, NotAnswered, Free, dbVars
  <2>2. \A s \in Sub, n \in Nat : InHand(<<s, n>>) => InHand(<<s, n>>)'
    BY <1>d, <2>1 DEF InHand
  <2> QED BY <1>d, <1>i, <1>q, <2>1, <2>2
<1> QED BY <1>1, <1>2, <1>3, <1>4, <1>5, <1>6, <1>7 DEF Handle

(* With one request at a time every step keeps the rule. *)
LEMMA RuleNext ==
  ASSUME \A g, h \in Handler : g = h,
         OwnInv, TabsInv, RuleInv, CountHolds, [Next]_vars
  PROVE  RuleInv'
<1>d. /\ TypeOK /\ handler \in [Handler -> HandlerType]
      /\ \A h \in Handler : HandlerRight(h) /\ RowStands(h)
      /\ \A u \in User, s \in Sub : RowsOf(u) = {s} /\ Lost(u) = {} => RowRule(u, s)
  BY DEF OwnInv, TypeOK, HandlerType, HandlerPc, RuleInv
<1>q. ASSUME UNCHANGED <<subs, licenses>>, \A h \in Handler : RowStands(h)',
             \A s \in Sub, n \in Nat : InHand(<<s, n>>) => InHand(<<s, n>>)'
      PROVE  RuleInv'
  BY <1>d, <1>q, RuleStays DEF RuleInv
<1>1. ASSUME NEW h \in Handler, Handle(h) PROVE RuleInv'
  BY <1>1, RuleHandled
<1>2. ASSUME NEW h \in Handler, NEW e \in Event, Deliver(h, e) PROVE RuleInv'
  <2>1. /\ UNCHANGED <<subs, licenses, due, log>> /\ handler[h].pc = "idle" /\ Handler = {h}
        /\ handler' = [handler EXCEPT ![h] = [Free EXCEPT !.event = e,
                         !.pc = IF log[e[1]].states[e[2]] = "canceled" THEN "sub" ELSE "user"]]
    BY <1>2 DEF Deliver, dbVars, stripeVars
  <2>2. /\ handler'[h].event = e
        /\ handler'[h].pc = (IF log[e[1]].states[e[2]] = "canceled" THEN "sub" ELSE "user")
    BY <1>d, <2>1 DEF Free
  <2>3. RowStands(h)'
    BY <2>1, <2>2 DEF RowStands, StatusOf, SubOf
  <2>4. \A s \in Sub, n \in Nat : InHand(<<s, n>>) => InHand(<<s, n>>)'
    BY <2>1 DEF InHand, At
  <2> QED BY <1>q, <2>1, <2>3, <2>4
<1>3. ASSUME NEW h \in Handler, Fail(h) PROVE RuleInv'
  <2>1. /\ UNCHANGED <<subs, licenses, due>> /\ Handler = {h}
        /\ handler' = [handler EXCEPT ![h].pc = "failed", ![h].user = None]
    BY <1>3 DEF Fail, Die, dbVars, stripeVars
  <2>2. handler'[h].pc = "failed" /\ handler'[h].event = handler[h].event
    BY <1>d, <2>1 DEF HandlerType
  <2>3. \A s \in Sub, n \in Nat : InHand(<<s, n>>) => InHand(<<s, n>>)'
    BY <2>1, <2>2 DEF InHand, At
  <2> QED BY <1>q, <2>1, <2>2, <2>3 DEF RowStands
<1>4. ASSUME UNCHANGED <<subs, licenses, handler>>, due \subseteq due' PROVE RuleInv'
  <2>1. \A s \in Sub, n \in Nat : InHand(<<s, n>>) => InHand(<<s, n>>)'
    BY <1>4 DEF InHand, At
  <2>2. ASSUME NEW h \in Handler PROVE RowStands(h)'
    <3>1. CASE At(h, "idle")
      BY <1>4, <3>1 DEF RowStands, At
    <3>2. CASE ~At(h, "idle")
      <4>1. SubOf(h)' = SubOf(h) /\ StatusOf(h)' = StatusOf(h)
        BY <1>4, <3>2, ToldStays
      <4> QED BY <1>4, <1>d, <4>1 DEF RowStands
    <3> QED BY <3>1, <3>2
  <2> QED BY <1>4, <1>q, <2>1, <2>2
<1>5. ASSUME NEW t \in Tab, \/ \E u \in User : OpenCheckout(t, u)
                            \/ ReadCustomer(t) \/ NewCustomer(t) \/ NewSession(t) \/ SaveCustomer(t)
                            \/ LeaveCheckout(t)
      PROVE  RuleInv'
  BY <1>4, <1>5 DEF OpenCheckout, ReadCustomer, NewCustomer, NewSession, SaveCustomer, LeaveCheckout,
                    dbVars, stripeVars
<1>6. ASSUME NEW s \in Sub, NEW st \in Status, Change(s, st) \/ \E c \in Customer : Subscribe(s, c, st)
      PROVE  RuleInv'
  BY <1>4, <1>6 DEF Change, Subscribe, dbVars
<1>7. CASE UNCHANGED vars
  BY <1>4, <1>7 DEF vars
<1> QED BY <1>1, <1>2, <1>3, <1>5, <1>6, <1>7 DEF Next

(* However late, often and in whatever order the deliveries come: when all   *)
(* are answered, the row of a user's only subscription and the license of    *)
(* the user agree, provided that one delivery is handled at a time and that  *)
(* no checkout has overwritten a customer of the user that was paid.         *)
THEOREM OnlyRowRules ==
  ASSUME \A g, h \in Handler : g = h
  PROVE  Spec => []RowRulesLicense
<1>1. Init => RuleInv
  <2> SUFFICES ASSUME Init PROVE RuleInv
    OBVIOUS
  <2>1. \A u \in User, s \in Sub : RowsOf(u) # {s}
    BY DEF Init, RowsOf
  <2>2. \A h \in Handler : handler[h].pc = "idle"
    BY DEF Init, Free
  <2> QED BY <2>1, <2>2 DEF RuleInv, RowStands
<1>2. OwnInv /\ TabsInv /\ CountHolds /\ RuleInv /\ [Next]_vars => RuleInv'
  BY RuleNext
<1>3. OwnInv /\ RuleInv => RowRulesLicense
  <2> SUFFICES ASSUME OwnInv, RuleInv, Settled, NEW u \in User, NEW s \in Sub, RowsOf(u) = {s}, Lost(u) = {}
               PROVE  /\ subs[s].status = "canceled" => licenses[u] = 0
                      /\ subs[s].status = "active" => licenses[u] = 1
    BY DEF RowRulesLicense
  <2>1. \A e : ~InHand(e)
    BY DEF Settled, InHand, At
  <2>2. \A st : ~Pending(s, st)
    BY <2>1 DEF Pending
  <2> QED BY <2>2 DEF RuleInv, RowRule
<1> QED BY <1>1, <1>2, <1>3, OwnInvInductive, TabsAlways, CountIsCurrent, PTL DEF Spec

-----------------------------------------------------------------------------
(* Deliveries in order. *)

(* The last event of a subscription. *)
Top(s) == <<s, Len(log[s].states)>>

(* What is due has been sent, and with an event every later one is due.      *)
DueRight == \A e \in due : e[2] <= Len(log[e[1]].states) /\ Top(e[1]) \in due

(* A request has the first due event of its subscription, to itself.         *)
HeldRight(h) ==
  ~At(h, "idle") => /\ handler[h].event \in due
                    /\ \A d \in due : d[1] = SubOf(h) => handler[h].event[2] <= d[2]
                    /\ \A g \in Handler : ~At(g, "idle") /\ SubOf(g) = SubOf(h) => g = h

(* What a request knows: the kind of its event, and the row it has written.  *)
StatusRight(h) ==
  /\ handler[h].pc \in {"user", "upsert"} => StatusOf(h) # "canceled"
  /\ handler[h].pc \in {"count", "generate", "revoke"} => subs[SubOf(h)].status = StatusOf(h)

(* A subscription is canceled once, at its end, and never at its start.      *)
StoryRight(s) ==
  \A n \in DOMAIN log[s].states :
    log[s].states[n] = "canceled" => n = Len(log[s].states) /\ n # 1

(* No checkout has overwritten the customer of the subscription.             *)
Sound(s) == \A u \in User : log[s].cust \notin Lost(u)

(* A row is behind only while the last event is due; without a row nothing   *)
(* has been answered for a customer of ours.                                 *)
RowCurrent(s) ==
  Sound(s) =>
    /\ subs[s] # None /\ Top(s) \notin due => subs[s].status = Last(s)
    /\ subs[s] = None /\ log[s].cust \notin Foreign => \A n \in DOMAIN log[s].states : <<s, n>> \in due

OrderInv == /\ DueRight
            /\ \A h \in Handler : HeldRight(h) /\ StatusRight(h)
            /\ \A s \in Sub : StoryRight(s) /\ RowCurrent(s)

(* What is overwritten stays so. *)
LEMMA SoundBefore ==
  ASSUME OwnInv, TabsInv, [Next]_vars, NEW s \in Sub
  PROVE  /\ Sound(s)' => Sound(s)
         /\ \A u \in User : log[s].cust \in Lost(u) => ~Sound(s)'
<1>1. ASSUME NEW u \in User, log[s].cust \in Lost(u) PROVE ~Sound(s)'
  <2>1. log[s].cust # None
    BY <1>1, BillingAssumption DEF Lost, Paid
  <2>2. log'[s].cust = log[s].cust
    BY <2>1, GrowsKept DEF Grows, OwnInv, LogRight
  <2>3. log[s].cust \in Lost(u)'
    BY <1>1, LostGrows
  <2> QED BY <2>2, <2>3 DEF Sound
<1> QED BY <1>1 DEF Sound

(* The event of a request, as a subscription and a number. *)
LEMMA HeldEvent ==
  ASSUME TypeOK, NEW h \in Handler, HandlerRight(h), ~At(h, "idle")
  PROVE  \E s \in Sub, n \in Nat :
           /\ handler[h].event = <<s, n>> /\ SubOf(h) = s
           /\ log[s].states \in Seq(Status) /\ n \in 1 .. Len(log[s].states)
           /\ StatusOf(h) = log[s].states[n]
<1>1. PICK s \in Sub, n \in 1 .. MaxVersion : handler[h].event = <<s, n>> /\ n <= Len(log[s].states)
  BY DEF HandlerRight, Event, SubOf
<1>2. log[s].states \in Seq(Status) /\ n \in Nat /\ n \in 1 .. Len(log[s].states)
  BY <1>1, BillingAssumption DEF TypeOK
<1> QED BY <1>1, <1>2 DEF SubOf, StatusOf

(* Stripe has a new event about the subscription s. *)
Posted(s, st) ==
  /\ log[s].states # <<>> => st # "incomplete" /\ Last(s) # "canceled"
  /\ log[s].states = <<>> => st # "canceled"
  /\ \E c : log' = [log EXCEPT ![s] = [cust |-> c, states |-> Append(log[s].states, st)]]
            /\ (log[s].states # <<>> => c = log[s].cust)
  /\ due' = due \cup {<<s, Len(log[s].states) + 1>>}
  /\ UNCHANGED <<customer, subs, licenses, handler>>

LEMMA PostedBy ==
  ASSUME TypeOK, NEW s \in Sub, NEW st \in Status, Change(s, st) \/ \E c \in Customer : Subscribe(s, c, st)
  PROVE  Posted(s, st)
<1>1. CASE Change(s, st)
  BY <1>1 DEF Change, Posted, Live, Last, dbVars
<1>2. ASSUME NEW c \in Customer, Subscribe(s, c, st) PROVE Posted(s, st)
  <2>1. log[s].states = <<>> /\ Append(<<>>, st) = <<st>> /\ Len(<<>>) = 0
    BY <1>2 DEF Subscribe, Unused
  <2>2. Append(log[s].states, st) = <<st>> /\ Len(log[s].states) + 1 = 1
    BY <2>1
  <2>3. /\ st # "canceled" /\ log' = [log EXCEPT ![s] = [cust |-> c, states |-> <<st>>]]
        /\ due' = due \cup {<<s, 1>>} /\ UNCHANGED <<customer, subs, licenses, handler>>
    BY <1>2 DEF Subscribe, dbVars
  <2> QED BY <2>1, <2>2, <2>3 DEF Posted
<1> QED BY <1>1, <1>2

(* What a new event does to the history. *)
LEMMA PostedAppends ==
  ASSUME TypeOK, NEW s \in Sub, NEW st \in Status, Posted(s, st)
  PROVE  /\ \A t \in Sub \ {s} : log'[t] = log[t]
         /\ log[s].states \in Seq(Status) /\ Len(log[s].states) \in Nat
         /\ Len(log'[s].states) = Len(log[s].states) + 1
         /\ DOMAIN log'[s].states = 1 .. (Len(log[s].states) + 1)
         /\ \A n \in 1 .. Len(log[s].states) : log'[s].states[n] = log[s].states[n]
         /\ log'[s].states[Len(log[s].states) + 1] = st
         /\ log[s].states # <<>> => log'[s].cust = log[s].cust
<1>1. PICK c : log' = [log EXCEPT ![s] = [cust |-> c, states |-> Append(log[s].states, st)]]
               /\ (log[s].states # <<>> => c = log[s].cust)
  BY DEF Posted
<1>2. log[s].states \in Seq(Status) /\ log \in [Sub -> LogType]
  BY DEF TypeOK, LogType
<1>3. log'[s].states = Append(log[s].states, st) /\ log'[s].cust = c /\ \A t \in Sub \ {s} : log'[t] = log[t]
  BY <1>1, <1>2
<1>4. /\ Len(Append(log[s].states, st)) = Len(log[s].states) + 1 /\ Len(log[s].states) \in Nat
      /\ Append(log[s].states, st) \in Seq(Status)
      /\ \A n \in 1 .. Len(log[s].states) : Append(log[s].states, st)[n] = log[s].states[n]
      /\ Append(log[s].states, st)[Len(log[s].states) + 1] = st
  BY <1>2, AppendSeen
<1>5. DOMAIN Append(log[s].states, st) = 1 .. (Len(log[s].states) + 1)
  BY <1>4
<1> QED BY <1>1, <1>2, <1>3, <1>4, <1>5

(* A new event keeps the order: it is the last of its subscription. *)
LEMMA PostedInOrder ==
  ASSUME OwnInv, TabsInv, OrderInv, [Next]_vars, NEW s \in Sub, NEW st \in Status, Posted(s, st)
  PROVE  OrderInv'
<1>d. /\ TypeOK /\ DueRight /\ due \in SUBSET Event
      /\ \A h \in Handler : HeldRight(h) /\ StatusRight(h) /\ HandlerRight(h)
      /\ \A t \in Sub : StoryRight(t) /\ RowCurrent(t) /\ RowRight(t)
  BY DEF OrderInv, OwnInv, TypeOK
<1>p. PICK m \in Nat :
      /\ m = Len(log[s].states) /\ Len(log'[s].states) = m + 1 /\ log[s].states \in Seq(Status)
      /\ DOMAIN log'[s].states = 1 .. (m + 1) /\ DOMAIN log[s].states = 1 .. m
      /\ \A n \in 1 .. m : log'[s].states[n] = log[s].states[n]
      /\ log'[s].states[m + 1] = st
      /\ \A t \in Sub \ {s} : log'[t] = log[t]
      /\ log[s].states # <<>> => log'[s].cust = log[s].cust
  BY <1>d, PostedAppends
<1>u. due' = due \cup {<<s, m + 1>>} /\ UNCHANGED <<subs, handler>>
  BY <1>p DEF Posted
<1>t. Top(s)' = <<s, m + 1>> /\ \A t \in Sub \ {s} : Top(t)' = Top(t)
  BY <1>p DEF Top
<1>e. \A e \in due : e[1] \in Sub /\ e[2] \in Nat /\ e[2] <= Len(log[e[1]].states)
  BY <1>d, BillingAssumption DEF DueRight, Event
<1>1. DueRight'
  <2>1. ASSUME NEW e \in due' PROVE e[2] <= Len(log'[e[1]].states) /\ (Top(e[1]) \in due)'
    <3>1. CASE e = <<s, m + 1>>
      BY <1>p, <1>t, <1>u, <3>1
    <3>2. CASE e \in due /\ e[1] = s
      BY <1>e, <1>p, <1>t, <1>u, <3>2
    <3>3. CASE e \in due /\ e[1] # s
      <4>1. Top(e[1]) \in due /\ e[2] <= Len(log[e[1]].states) /\ e[1] \in Sub \ {s}
        BY <1>d, <1>e, <3>3 DEF DueRight
      <4> QED BY <1>p, <1>t, <1>u, <4>1
    <3> QED BY <1>u, <2>1, <3>1, <3>2, <3>3
  <2> QED BY <2>1 DEF DueRight
<1>2. ASSUME NEW h \in Handler PROVE HeldRight(h)' /\ StatusRight(h)'
  <2>1. CASE At(h, "idle")
    BY <1>u, <2>1 DEF HeldRight, StatusRight, At
  <2>2. CASE ~At(h, "idle")
    <3>1. PICK r \in Sub, n \in Nat :
            /\ handler[h].event = <<r, n>> /\ SubOf(h) = r
            /\ log[r].states \in Seq(Status) /\ n \in 1 .. Len(log[r].states)
      BY <1>d, <2>2, HeldEvent
    <3>2. SubOf(h)' = SubOf(h) /\ StatusOf(h)' = StatusOf(h)
      BY <1>u, <2>2, ToldStays
    <3>3. r = s => n <= m + 1
      BY <1>p, <3>1
    <3>4. HeldRight(h)'
      BY <1>d, <1>u, <3>1, <3>2, <3>3 DEF HeldRight, At, SubOf
    <3>5. StatusRight(h)'
      BY <1>d, <1>u, <3>2 DEF StatusRight
    <3> QED BY <3>4, <3>5
  <2> QED BY <2>1, <2>2
<1>3. ASSUME NEW t \in Sub PROVE StoryRight(t)' /\ RowCurrent(t)'
  <2>1. CASE t # s
    <3>1. log'[t] = log[t] /\ Top(t)' = Top(t) /\ \A n : <<t, n>> \in due' <=> <<t, n>> \in due
      BY <1>p, <1>t, <1>u, <2>1
    <3>2. StoryRight(t)'
      BY <1>d, <3>1 DEF StoryRight
    <3>3. Top(t)' \in due' <=> Top(t) \in due
      BY <3>1 DEF Top
    <3>4. RowCurrent(t)'
      <4>1. Sound(t)' => Sound(t)
        BY SoundBefore
      <4> QED BY <1>d, <1>u, <3>1, <3>3, <4>1 DEF RowCurrent, Last
    <3> QED BY <3>2, <3>4
  <2>2. CASE t = s
    <3>1. m # 0 => log[s].states # <<>> /\ log[s].states[m] # "canceled"
      BY <1>p DEF Posted, Last
    <3>2. m = 0 => st # "canceled"
      BY <1>p DEF Posted
    <3>3. \A n \in 1 .. m : log[s].states[n] # "canceled"
      BY <1>d, <1>p, <3>1 DEF StoryRight
    <3>4. StoryRight(s)'
      <4>1. ASSUME NEW n \in 1 .. (m + 1), log'[s].states[n] = "canceled" PROVE n = m + 1 /\ n # 1
        <5>1. n \notin 1 .. m
          BY <1>p, <3>3, <4>1
        <5>2. n = m + 1
          BY <4>1, <5>1
        <5>3. st = "canceled"
          BY <1>p, <4>1, <5>2
        <5> QED BY <3>2, <5>2, <5>3
      <4>2. DOMAIN log'[s].states = 1 .. (m + 1) /\ Len(log'[s].states) = m + 1
        BY <1>p
      <4> QED BY <4>1, <4>2 DEF StoryRight
    <3>5. m = 0 => subs[s] = None
      <4>1. m = 0 => log[s].states = <<>>
        <5>1. ASSUME NEW q \in Seq(Status), Len(q) = 0 PROVE q = <<>>
          BY <5>1
        <5> QED BY <1>p, <5>1
      <4> QED BY <1>d, <4>1 DEF RowRight
    <3>6. RowCurrent(s)'
      <4>1. Top(s)' \in due'
        BY <1>t, <1>u
      <4>2. ASSUME Sound(s)', subs'[s] = None, log'[s].cust \notin Foreign, NEW n \in 1 .. (m + 1)
            PROVE  <<s, n>> \in due'
        <5>1. CASE n = m + 1
          BY <1>u, <5>1
        <5>2. CASE n \in 1 .. m
          <6>1. log[s].cust \notin Foreign
            BY <1>p, <4>2, <5>2
          <6>2. subs[s] = None /\ n \in DOMAIN log[s].states
            BY <1>p, <1>u, <4>2, <5>2
          <6>s. Sound(s)
            BY <4>2, SoundBefore
          <6>3. <<s, n>> \in due
            BY <1>d, <6>1, <6>2, <6>s DEF RowCurrent
          <6> QED BY <1>u, <6>3
        <5>3. n = m + 1 \/ n \in 1 .. m
          BY <4>2
        <5> QED BY <5>1, <5>2, <5>3
      <4> QED BY <1>p, <4>1, <4>2 DEF RowCurrent
    <3> QED BY <2>2, <3>4, <3>6
  <2> QED BY <2>1, <2>2
<1> QED BY <1>1, <1>2, <1>3 DEF OrderInv

(* An answered request leaves the later events of its subscription due, and  *)
(* its own status behind when there are none.                                *)
LEMMA AnswerInOrder ==
  ASSUME OwnInv, OrderInv, NEW h \in Handler, ~At(h, "idle"), log' = log,
         handler' = [handler EXCEPT ![h] = Free],
         due' = due \/ due' = due \ {handler[h].event}
  PROVE  /\ DueRight' /\ \A g \in Handler : HeldRight(g)'
         /\ \A s \in Sub \ {SubOf(h)}, n \in Nat : <<s, n>> \in due' <=> <<s, n>> \in due
         /\ Top(SubOf(h)) \notin due' => StatusOf(h) = Last(SubOf(h))
<1>d. /\ TypeOK /\ DueRight /\ due \in SUBSET Event /\ handler \in [Handler -> HandlerType]
      /\ \A g \in Handler : HeldRight(g) /\ HandlerRight(g)
  BY DEF OrderInv, OwnInv, TypeOK, HandlerType, HandlerPc
<1>1. PICK r \in Sub, n \in Nat :
        /\ handler[h].event = <<r, n>> /\ SubOf(h) = r
        /\ log[r].states \in Seq(Status) /\ n \in 1 .. Len(log[r].states)
        /\ StatusOf(h) = log[r].states[n]
  BY <1>d, HeldEvent
<1>2. \A e \in due : e[1] \in Sub /\ e[2] \in Nat /\ e = <<e[1], e[2]>>
  BY <1>d, BillingAssumption DEF Event
<1>3. <<r, n>> \in due /\ \A d \in due : d[1] = r => n <= d[2]
  BY <1>d, <1>1 DEF HeldRight
<1>4. DueRight'
  <2>1. ASSUME NEW e \in due' PROVE e[2] <= Len(log[e[1]].states) /\ Top(e[1]) \in due'
    <3>1. e \in due /\ e[2] <= Len(log[e[1]].states) /\ Top(e[1]) \in due
      BY <1>d DEF DueRight
    <3>2. ASSUME due' = due \ {<<r, n>>}, Top(e[1]) = <<r, n>> PROVE FALSE
      <4>1. e[1] = r /\ Len(log[r].states) = n
        BY <3>2 DEF Top
      <4>2. e[2] <= n /\ n <= e[2] /\ e[2] \in Nat /\ n \in Nat
        BY <1>2, <1>3, <3>1, <4>1
      <4>3. e = <<r, n>>
        BY <1>2, <3>1, <4>1, <4>2
      <4> QED BY <2>1, <3>2, <4>3
    <3> QED BY <1>1, <3>1, <3>2
  <2> QED BY <2>1 DEF DueRight, Top
<1>5. ASSUME NEW g \in Handler PROVE HeldRight(g)'
  <2>1. CASE g = h
    BY <1>d, <2>1 DEF HeldRight, At, Free
  <2>2. CASE g # h /\ ~At(g, "idle")
    <3>1. handler'[g] = handler[g] /\ handler[g].event \in due /\ SubOf(g) # SubOf(h)
          /\ \A f \in Handler : ~At(f, "idle") /\ SubOf(f) = SubOf(g) => f = g
      BY <1>d, <2>2 DEF HeldRight
    <3>2. handler[g].event # handler[h].event
      BY <3>1 DEF SubOf
    <3>3. handler[g].event \in due' /\ due' \subseteq due
      BY <3>1, <3>2
    <3>4. \A f \in Handler : (~At(f, "idle"))' => ~At(f, "idle") /\ handler'[f] = handler[f]
      BY <1>d DEF At, Free
    <3>5. \A f \in Handler : (~At(f, "idle"))' => SubOf(f)' = SubOf(f)
      BY <3>4 DEF SubOf
    <3>6. SubOf(g)' = SubOf(g)
      BY <3>1 DEF SubOf
    <3>7. \A d \in due' : d[1] = SubOf(g) => handler[g].event[2] <= d[2]
      BY <1>d, <2>2, <3>3 DEF HeldRight
    <3> QED BY <3>1, <3>3, <3>4, <3>5, <3>6, <3>7 DEF HeldRight
  <2>3. CASE g # h /\ At(g, "idle")
    BY <1>d, <2>3 DEF HeldRight, At
  <2> QED BY <2>1, <2>2, <2>3
<1>6. \A s \in Sub \ {r}, k \in Nat : <<s, k>> \in due' <=> <<s, k>> \in due
  BY <1>1
<1>7. ASSUME Top(r) \notin due' PROVE log[r].states[n] = Last(r)
  <2>1. Top(r) \in due
    BY <1>d, <1>3 DEF DueRight
  <2>2. Top(r) = <<r, n>>
    BY <1>1, <1>7, <2>1
  <2> QED BY <2>2 DEF Top, Last
<1> QED BY <1>1, <1>4, <1>5, <1>6, <1>7

(* A request that goes on keeps the order. *)
LEMMA GoesOnInOrder ==
  ASSUME OrderInv, NEW h \in Handler, ~At(h, "idle"), log' = log, due' = due,
         handler'[h].pc # "idle", handler'[h].event = handler[h].event,
         \A g \in Handler \ {h} : handler'[g] = handler[g]
  PROVE  DueRight' /\ \A g \in Handler : HeldRight(g)'
<1>1. \A g \in Handler : SubOf(g)' = SubOf(g) /\ handler'[g].event = handler[g].event
                         /\ (At(g, "idle")' <=> At(g, "idle"))
  BY DEF SubOf, At
<1>2. \A g \in Handler : HeldRight(g)'
  BY <1>1 DEF OrderInv, HeldRight
<1>3. DueRight'
  BY DEF OrderInv, DueRight, Top
<1> QED BY <1>2, <1>3

(* A request that works on one subscription keeps the order of the others.   *)
LEMMA OrderElsewhere ==
  ASSUME OwnInv, TabsInv, OrderInv, [Next]_vars, NEW h \in Handler, ~At(h, "idle"), log' = log,
         DueRight', \A g \in Handler : HeldRight(g)',
         \A g \in Handler \ {h} : handler'[g] = handler[g],
         \A s \in Sub \ {SubOf(h)} : subs'[s] = subs[s],
         \A s \in Sub \ {SubOf(h)}, n \in Nat : <<s, n>> \in due' <=> <<s, n>> \in due,
         NEW r, r = SubOf(h), RowCurrent(r)', StatusRight(h)'
  PROVE  OrderInv'
<1>d. /\ \A g \in Handler : HeldRight(g) /\ StatusRight(g) /\ HandlerRight(g)
      /\ TypeOK /\ \A s \in Sub : StoryRight(s) /\ RowCurrent(s) /\ log[s].states \in Seq(Status)
  BY DEF OrderInv, OwnInv, TypeOK
<1>1. ASSUME NEW s \in Sub PROVE StoryRight(s)'
  BY <1>d DEF StoryRight
<1>2. ASSUME NEW s \in Sub, s # r PROVE RowCurrent(s)'
  <2>1. /\ Len(log[s].states) \in Nat /\ DOMAIN log[s].states = 1 .. Len(log[s].states)
        /\ subs'[s] = subs[s] /\ Top(s)' = Top(s) /\ Last(s)' = Last(s) /\ RowCurrent(s)
    BY <1>d, <1>2 DEF Top, Last
  <2>2. \A n \in Nat : <<s, n>> \in due' <=> <<s, n>> \in due
    BY <1>2
  <2>3. Top(s) \in due' <=> Top(s) \in due
    BY <2>1, <2>2 DEF Top
  <2>4. Sound(s)' => Sound(s)
    BY SoundBefore
  <2> QED BY <2>1, <2>2, <2>3, <2>4 DEF RowCurrent
<1>3. ASSUME NEW g \in Handler, g # h PROVE StatusRight(g)'
  <2>1. handler'[g] = handler[g] /\ SubOf(g)' = SubOf(g) /\ StatusOf(g)' = StatusOf(g)
    BY <1>3 DEF SubOf, StatusOf
  <2>2. CASE At(g, "idle")
    BY <2>1, <2>2 DEF StatusRight, At
  <2>3. CASE ~At(g, "idle")
    <3>1. SubOf(g) # r /\ SubOf(g) \in Sub
      BY <1>d, <1>3, <2>3, HeldEvent DEF HeldRight
    <3> QED BY <1>d, <2>1, <3>1 DEF StatusRight
  <2> QED BY <2>2, <2>3
<1>4. \A g \in Handler : StatusRight(g)'
  BY <1>3
<1>5. \A s \in Sub : RowCurrent(s)'
  BY <1>2
<1> QED BY <1>1, <1>4, <1>5 DEF OrderInv

(* Each statement of a request keeps the order. *)
LEMMA OrderHandled ==
  ASSUME OwnInv, TabsInv, OrderInv, [Next]_vars, NEW h \in Handler, Handle(h)
  PROVE  OrderInv'
<1>d. /\ TypeOK /\ DueRight /\ HandlerRight(h) /\ HeldRight(h) /\ StatusRight(h)
      /\ ~At(h, "idle") /\ handler[h] \in HandlerType /\ log' = log
      /\ handler \in [Handler -> HandlerType] /\ subs \in [Sub -> Row \cup {None}]
      /\ \A s \in Sub : LogRight(s) /\ RowRight(s) /\ StoryRight(s) /\ RowCurrent(s)
  BY DEF OwnInv, OrderInv, TypeOK, HandlerType, HandlerPc, Row, At, Handle, LookupUser, UpsertRow,
         CountLicenses, Generate, LookupSub, MarkCanceled, RevokeAllForUser, EndFailed
<1>e. PICK r \in Sub, k \in Nat :
        /\ handler[h].event = <<r, k>> /\ SubOf(h) = r
        /\ log[r].states \in Seq(Status) /\ k \in 1 .. Len(log[r].states)
        /\ StatusOf(h) = log[r].states[k]
  BY <1>d, HeldEvent
<1>f. /\ <<r, k>> \in due /\ \A d \in due : d[1] = r => k <= d[2]
      /\ Top(r) \in due /\ log[r].states # <<>>
  BY <1>d, <1>e DEF HeldRight, DueRight
(* The request is answered ... *)
<1>a. ASSUME handler' = [handler EXCEPT ![h] = Free], due' = due \ {handler[h].event},
             \A s \in Sub \ {r} : subs'[s] = subs[s], RowCurrent(r)'
      PROVE  OrderInv'
  <2>1. handler' = [handler EXCEPT ![h] = Free] /\ due' = due \ {handler[h].event}
    BY <1>a
  <2>2. handler'[h].pc = "idle" /\ \A g \in Handler \ {h} : handler'[g] = handler[g]
    BY <1>d, <2>1 DEF Free
  <2>3. StatusRight(h)'
    BY <2>2 DEF StatusRight
  <2>4. /\ DueRight' /\ \A g \in Handler : HeldRight(g)'
        /\ \A s \in Sub \ {SubOf(h)}, n \in Nat : <<s, n>> \in due' <=> <<s, n>> \in due
    BY <1>d, <2>1, AnswerInOrder
  <2> QED BY <1>a, <1>d, <1>e, <2>2, <2>3, <2>4, OrderElsewhere
(* ... with its row as it should be ... *)
<1>k. ASSUME handler' = [handler EXCEPT ![h] = Free], due' = due \ {handler[h].event},
             subs'[r] # None, subs'[r].status = StatusOf(h)
      PROVE  RowCurrent(r)'
  <2>1. handler' = [handler EXCEPT ![h] = Free] /\ due' = due \ {handler[h].event}
    BY <1>k
  <2>2. Top(r) \notin due' => StatusOf(h) = Last(r)
    BY <1>d, <1>e, <2>1, AnswerInOrder
  <2>3. Top(r)' = Top(r) /\ Last(r)' = Last(r)
    BY <1>d DEF Top, Last
  <2> QED BY <1>k, <2>2, <2>3 DEF RowCurrent
(* It goes on. *)
<1>c. ASSUME NEW pc, NEW u, \/ handler' = [handler EXCEPT ![h].pc = pc]
                            \/ handler' = [handler EXCEPT ![h].pc = pc, ![h].user = u]
      PROVE  /\ handler'[h].pc = pc /\ handler'[h].event = handler[h].event
             /\ \A g \in Handler \ {h} : handler'[g] = handler[g]
  BY <1>c, <1>d DEF HandlerType
<1>g. ASSUME handler'[h].pc # "idle", handler'[h].event = handler[h].event,
             \A g \in Handler \ {h} : handler'[g] = handler[g],
             due' = due, \A s \in Sub \ {r} : subs'[s] = subs[s],
             subs'[r] # None \/ subs'[r] = subs[r],
             handler'[h].pc \in {"user", "upsert"} => StatusOf(h) # "canceled",
             handler'[h].pc \in {"count", "generate", "revoke"} => subs'[r].status = StatusOf(h)
      PROVE  OrderInv'
  <2>2. SubOf(h)' = r /\ StatusOf(h)' = StatusOf(h)
    BY <1>d, <1>e, <1>g DEF SubOf, StatusOf
  <2>3. StatusRight(h)'
    BY <1>g, <2>2 DEF StatusRight
  <2>4. DueRight' /\ \A g \in Handler : HeldRight(g)'
    BY <1>d, <1>g, GoesOnInOrder
  <2>5. RowCurrent(r)'
    <3>1. Top(r)' = Top(r) /\ Top(r) \in due'
      BY <1>d, <1>f, <1>g DEF Top
    <3>2. CASE subs'[r] # None
      BY <3>1, <3>2 DEF RowCurrent
    <3>3. CASE subs'[r] = subs[r]
      <4>1. Sound(r)' => Sound(r)
        BY SoundBefore
      <4> QED BY <1>d, <1>g, <3>1, <3>3, <4>1 DEF RowCurrent
    <3> QED BY <1>g, <3>2, <3>3
  <2>6. \A s \in Sub \ {r}, n \in Nat : <<s, n>> \in due' <=> <<s, n>> \in due
    BY <1>g
  <2> QED BY <1>d, <1>e, <1>g, <2>3, <2>4, <2>5, <2>6, OrderElsewhere
(* After its last statement it is answered or dies. *)
<1>o. ASSUME OK(h), \A s \in Sub \ {r} : subs'[s] = subs[s], subs'[r] # None \/ subs'[r] = subs[r],
             handler' = [handler EXCEPT ![h] = Free] /\ due' = due \ {handler[h].event} => RowCurrent(r)'
      PROVE  OrderInv'
  <2>1. CASE handler' = [handler EXCEPT ![h] = Free] /\ due' = due \ {handler[h].event}
    BY <1>a, <1>o, <2>1
  <2>2. CASE Die(h)
    <3>1. handler' = [handler EXCEPT ![h].pc = "failed", ![h].user = None] /\ due' = due
      BY <2>2 DEF Die
    <3>2. handler'[h].pc = "failed" /\ handler'[h].event = handler[h].event
          /\ \A g \in Handler \ {h} : handler'[g] = handler[g]
      BY <1>c, <3>1
    <3> QED BY <1>g, <1>o, <3>1, <3>2
  <2> QED BY <1>o, <2>1, <2>2 DEF OK
(* Without a row, for another product or an overwritten customer. *)
<1>n. ASSUME OK(h), subs' = subs, subs[r] = None, log[r].cust \in Foreign \/ ~Sound(r) PROVE OrderInv'
  <2>1. RowCurrent(r)'
    BY <1>d, <1>n, SoundBefore DEF RowCurrent
  <2> QED BY <1>n, <1>o, <2>1
<1>1. CASE LookupUser(h)
  <2>1. subs' = subs /\ StatusOf(h) # "canceled"
    BY <1>1, <1>d DEF LookupUser, dbVars, StatusRight, At
  <2>2. ASSUME UserOf(log[r].cust) = {}, OK(h) PROVE OrderInv'
    <3>1. CASE log[r].cust \in Foreign /\ account[log[r].cust] = None
      <4>1. subs[r] # None => subs[r].user \in User
        BY <1>d DEF Row
      <4>2. subs[r] = None
        BY <1>d, <3>1, <4>1, BillingAssumption DEF RowRight
      <4> QED BY <1>n, <2>1, <2>2, <3>1, <4>2
    <3>2. ASSUME NEW u \in User, log[r].cust \in Lost(u) PROVE OrderInv'
      <4>1. ~Sound(r)'
        BY <3>2, SoundBefore
      <4>2. RowCurrent(r)'
        BY <4>1 DEF RowCurrent
      <4> QED BY <1>o, <2>1, <2>2, <4>2
    <3> QED BY <1>f, <2>2, <3>1, <3>2, KnownUser
  <2>3. ASSUME NEW u, handler' = [handler EXCEPT ![h].pc = "upsert", ![h].user = u], due' = due PROVE OrderInv'
    <3>1. handler'[h].pc = "upsert" /\ handler'[h].event = handler[h].event
          /\ \A g \in Handler \ {h} : handler'[g] = handler[g]
      BY <1>c, <2>3
    <3> QED BY <1>g, <2>1, <2>3, <3>1
  <2> QED BY <1>1, <1>e, <2>2, <2>3 DEF LookupUser
<1>2. CASE UpsertRow(h)
  <2>1. /\ handler[h].user \in User /\ StatusOf(h) \in Status
        /\ subs' = [subs EXCEPT ![r] = Upserted(h)]
        /\ StatusOf(h) = "active" => Goto(h, "count")
        /\ StatusOf(h) # "active" => OK(h)
    BY <1>2, <1>d, <1>e DEF UpsertRow, At, HandlerRight
  <2>2. subs'[r] = Upserted(h) /\ \A s \in Sub \ {r} : subs'[s] = subs[s]
    BY <1>d, <2>1
  <2>3. subs'[r] # None /\ subs'[r].status = StatusOf(h)
    <3>1. subs[r] # None => subs[r].user \in User
      BY <1>d DEF Row
    <3>2. \E u \in User : Upserted(h) = [user |-> u, status |-> StatusOf(h)]
      BY <1>e, <2>1, <3>1 DEF Upserted
    <3>3. Upserted(h) \in Row /\ Upserted(h).status = StatusOf(h)
      BY <2>1, <3>2 DEF Row
    <3> QED BY <2>2, <3>3, BillingAssumption
  <2>4. CASE StatusOf(h) = "active"
    <3>1. handler' = [handler EXCEPT ![h].pc = "count"] /\ due' = due
      BY <2>1, <2>4 DEF Goto
    <3>2. handler'[h].pc = "count" /\ handler'[h].event = handler[h].event
          /\ \A g \in Handler \ {h} : handler'[g] = handler[g]
      BY <1>c, <3>1
    <3> QED BY <1>g, <2>2, <2>3, <2>4, <3>1, <3>2
  <2>5. CASE StatusOf(h) # "active"
    BY <1>k, <1>o, <2>1, <2>2, <2>3, <2>5
  <2> QED BY <2>4, <2>5
<1>3. CASE CountLicenses(h) \/ Generate(h) \/ RevokeAllForUser(h)
  <2>1. /\ subs' = subs /\ subs[r] # None /\ subs[r].status = StatusOf(h)
        /\ Goto(h, "generate") \/ OK(h)
    BY <1>3, <1>d, <1>e DEF CountLicenses, Generate, RevokeAllForUser, dbVars, At, StatusRight, HandlerRight
  <2>2. CASE Goto(h, "generate")
    <3>1. handler' = [handler EXCEPT ![h].pc = "generate"] /\ due' = due
      BY <2>2 DEF Goto
    <3>2. handler'[h].pc = "generate" /\ handler'[h].event = handler[h].event
          /\ \A g \in Handler \ {h} : handler'[g] = handler[g]
      BY <1>c, <3>1
    <3> QED BY <1>g, <2>1, <3>1, <3>2
  <2>3. CASE OK(h)
    BY <1>k, <1>o, <2>1, <2>3
  <2> QED BY <2>1, <2>2, <2>3
<1>4. CASE LookupSub(h)
  <2>1. subs' = subs /\ StatusOf(h) = "canceled"
    BY <1>4, <1>d DEF LookupSub, dbVars, HandlerRight, At
  <2>2. CASE subs[r] = None
    <3>1. OK(h)
      BY <1>4, <1>e, <2>2 DEF LookupSub
    <3>2. k # 1 /\ 1 \in DOMAIN log[r].states /\ ~(k <= 1)
      <4>1. k \in DOMAIN log[r].states /\ log[r].states[k] = "canceled"
        BY <1>e, <2>1
      <4>2. k # 1
        BY <1>d, <4>1 DEF StoryRight
      <4> QED BY <1>e, <4>2
    <3>3. <<r, 1>> \notin due
      BY <1>f, <3>2
    <3>4. log[r].cust \in Foreign \/ ~Sound(r)
      BY <1>d, <2>2, <3>2, <3>3 DEF RowCurrent
    <3> QED BY <1>n, <2>1, <2>2, <3>1, <3>4
  <2>3. CASE subs[r] # None
    <3>1. PICK u : handler' = [handler EXCEPT ![h].pc = "cancel", ![h].user = u] /\ due' = due
      BY <1>4, <1>e, <2>3 DEF LookupSub
    <3>2. handler'[h].pc = "cancel" /\ handler'[h].event = handler[h].event
          /\ \A g \in Handler \ {h} : handler'[g] = handler[g]
      BY <1>c, <3>1
    <3> QED BY <1>g, <2>1, <3>1, <3>2
  <2> QED BY <2>2, <2>3
<1>5. CASE MarkCanceled(h)
  <2>1. /\ StatusOf(h) = "canceled" /\ subs[r] # None
        /\ subs' = [subs EXCEPT ![r].status = "canceled"]
        /\ handler' = [handler EXCEPT ![h].pc = "revoke"] /\ due' = due
    BY <1>5, <1>d, <1>e DEF MarkCanceled, Goto, HandlerRight, At
  <2>2. subs[r] \in Row
    BY <1>d, <2>1
  <2>3. subs'[r] = [subs[r] EXCEPT !.status = "canceled"] /\ \A s \in Sub \ {r} : subs'[s] = subs[s]
    BY <1>d, <2>1
  <2>4. subs'[r] \in Row /\ subs'[r].status = "canceled"
    BY <2>2, <2>3 DEF Row, Status
  <2>5. subs'[r] # None
    BY <2>4, BillingAssumption
  <2>6. handler'[h].pc = "revoke" /\ handler'[h].event = handler[h].event
        /\ \A g \in Handler \ {h} : handler'[g] = handler[g]
    BY <1>c, <2>1
  <2> QED BY <1>g, <2>1, <2>3, <2>4, <2>5, <2>6
<1>6. CASE EndFailed(h)
  <2>1. subs' = subs /\ due' = due /\ handler' = [handler EXCEPT ![h] = Free]
    BY <1>6, <1>e, <1>f DEF EndFailed, NotAnswered, dbVars
  <2>2. handler'[h].pc = "idle" /\ \A g \in Handler \ {h} : handler'[g] = handler[g]
    BY <1>d, <2>1 DEF Free
  <2>3. StatusRight(h)'
    BY <2>2 DEF StatusRight
  <2>4. /\ DueRight' /\ \A g \in Handler : HeldRight(g)'
        /\ \A s \in Sub \ {SubOf(h)}, n \in Nat : <<s, n>> \in due' <=> <<s, n>> \in due
    BY <1>d, <2>1, AnswerInOrder
  <2>5. RowCurrent(r)'
    <3>1. Top(r)' = Top(r) /\ Last(r)' = Last(r)
      BY <1>d DEF Top, Last
    <3> QED BY <1>d, <2>1, <3>1, SoundBefore DEF RowCurrent
  <2> QED BY <1>d, <1>e, <2>1, <2>2, <2>3, <2>4, <2>5, OrderElsewhere
<1> QED BY <1>1, <1>2, <1>3, <1>4, <1>5, <1>6 DEF Handle

(* With deliveries in order every step keeps the order. *)
LEMMA OrderNext ==
  ASSUME Ordered, OwnInv, TabsInv, OrderInv, [Next]_vars
  PROVE  OrderInv'
<1>d. /\ TypeOK /\ DueRight /\ handler \in [Handler -> HandlerType]
      /\ \A h \in Handler : HandlerRight(h) /\ HeldRight(h) /\ StatusRight(h)
      /\ \A s \in Sub : StoryRight(s) /\ RowCurrent(s)
  BY DEF OwnInv, OrderInv, TypeOK, HandlerType, HandlerPc
(* A row that no step has touched is as current as it was. *)
<1>r. ASSUME UNCHANGED <<subs, due, log>>, NEW s \in Sub PROVE StoryRight(s)' /\ RowCurrent(s)'
  <2>1. Top(s)' = Top(s) /\ Last(s)' = Last(s) /\ (Sound(s)' => Sound(s))
    BY <1>r, SoundBefore DEF Top, Last
  <2> QED BY <1>d, <1>r, <2>1 DEF StoryRight, RowCurrent
<1>1. ASSUME NEW h \in Handler, Handle(h) PROVE OrderInv'
  BY <1>1, OrderHandled
<1>2. ASSUME NEW h \in Handler, NEW e \in Event, Deliver(h, e) PROVE OrderInv'
  <2>1. /\ UNCHANGED <<subs, due, log>> /\ At(h, "idle") /\ e \in due
        /\ \A d \in due : d[1] = e[1] => e[2] <= d[2]
        /\ \A g \in Handler : ~At(g, "idle") => SubOf(g) # e[1]
        /\ handler' = [handler EXCEPT ![h] = [Free EXCEPT !.event = e,
                         !.pc = IF log[e[1]].states[e[2]] = "canceled" THEN "sub" ELSE "user"]]
    BY <1>2 DEF Deliver, dbVars, stripeVars, At, SubOf
  <2>2. /\ handler'[h].event = e /\ handler'[h].pc # "idle"
        /\ handler'[h].pc = (IF log[e[1]].states[e[2]] = "canceled" THEN "sub" ELSE "user")
        /\ \A g \in Handler \ {h} : handler'[g] = handler[g]
    BY <1>d, <2>1 DEF Free
  <2>3. ASSUME NEW g \in Handler PROVE HeldRight(g)'
    <3>1. \A f \in Handler \ {h} : SubOf(f)' = SubOf(f) /\ (At(f, "idle")' <=> At(f, "idle"))
      BY <2>2 DEF SubOf, At
    <3>2. SubOf(h)' = e[1]
      BY <2>2 DEF SubOf
    <3>3. CASE g = h
      BY <2>1, <2>2, <3>1, <3>2, <3>3 DEF HeldRight
    <3>4. CASE g # h
      BY <1>d, <2>1, <2>2, <3>1, <3>2, <3>4 DEF HeldRight
    <3> QED BY <3>3, <3>4
  <2>4. ASSUME NEW g \in Handler PROVE StatusRight(g)'
    <3>1. CASE g = h
      BY <2>1, <2>2, <3>1 DEF StatusRight, StatusOf, SubOf
    <3>2. CASE g # h
      BY <1>d, <2>1, <2>2, <3>2 DEF StatusRight, StatusOf, SubOf
    <3> QED BY <3>1, <3>2
  <2>5. DueRight'
    BY <1>d, <2>1 DEF DueRight, Top
  <2>6. ASSUME NEW s \in Sub PROVE StoryRight(s)' /\ RowCurrent(s)'
    BY <1>r, <2>1
  <2> QED BY <2>3, <2>4, <2>5, <2>6 DEF OrderInv
<1>3. ASSUME NEW h \in Handler, Fail(h) PROVE OrderInv'
  <2>1. /\ UNCHANGED <<subs, due, log>> /\ ~At(h, "idle")
        /\ handler' = [handler EXCEPT ![h].pc = "failed", ![h].user = None]
    BY <1>3 DEF Fail, Die, dbVars, stripeVars, At
  <2>2. /\ handler'[h].pc = "failed" /\ handler'[h].event = handler[h].event
        /\ \A g \in Handler \ {h} : handler'[g] = handler[g]
    BY <1>d, <2>1 DEF HandlerType
  <2>3. DueRight' /\ \A g \in Handler : HeldRight(g)'
    BY <2>1, <2>2, GoesOnInOrder
  <2>4. StatusRight(h)' /\ SubOf(h) \in Sub
    BY <1>d, <2>1, <2>2, AtRow DEF StatusRight
  <2>5. PICK r \in Sub : r = SubOf(h)
    BY <2>4
  <2>6. RowCurrent(r)'
    BY <1>r, <2>1
  <2> QED BY <2>1, <2>2, <2>3, <2>4, <2>5, <2>6, OrderElsewhere
<1>4. ASSUME NEW s \in Sub, NEW st \in Status, Change(s, st) \/ \E c \in Customer : Subscribe(s, c, st)
      PROVE  OrderInv'
  BY <1>4, <1>d, PostedBy, PostedInOrder
<1>5. ASSUME UNCHANGED <<subs, handler, log, due>> PROVE OrderInv'
  <2>1. \A h \in Handler : HeldRight(h)' /\ StatusRight(h)'
    BY <1>d, <1>5 DEF HeldRight, StatusRight, StatusOf, SubOf, At
  <2>2. \A s \in Sub : StoryRight(s)' /\ RowCurrent(s)'
    BY <1>5, <1>r
  <2>3. DueRight'
    BY <1>d, <1>5 DEF DueRight, Top
  <2> QED BY <2>1, <2>2, <2>3 DEF OrderInv
<1>6. ASSUME NEW t \in Tab, \/ \E u \in User : OpenCheckout(t, u)
                            \/ ReadCustomer(t) \/ NewCustomer(t) \/ NewSession(t) \/ SaveCustomer(t)
                            \/ LeaveCheckout(t)
      PROVE  OrderInv'
  BY <1>5, <1>6 DEF OpenCheckout, ReadCustomer, NewCustomer, NewSession, SaveCustomer, LeaveCheckout,
                    dbVars, stripeVars
<1>7. CASE UNCHANGED vars
  BY <1>5, <1>7 DEF vars
<1> QED BY <1>1, <1>2, <1>3, <1>4, <1>6, <1>7 DEF Next

-----------------------------------------------------------------------------
(* Licenses, when the deliveries come in order. *)

(* A subscription whose cancellation has been answered. *)
Over(s) == Top(s) \notin due /\ Last(s) = "canceled"

(* A license needs a row whose subscription is not over ... *)
EndsRight(u) == licenses[u] > 0 => \E s \in RowsOf(u) : ~Over(s)

(* ... and an active one brings it, unless a cancellation has taken it.      *)
GetsRight(u) ==
  \A s \in RowsOf(u) : \A n \in DOMAIN log[s].states :
    log[s].states[n] = "active" =>
      <<s, n>> \in due \/ licenses[u] > 0 \/ \E t \in RowsOf(u) : Last(t) = "canceled"

(* What one request does to the rows, licenses and due events of a user whose*)
(* customers are all known: it adds the row                                  *)
(* of its own subscription only, generates for an active and revokes for a   *)
(* canceled one, and answers neither before the license is seen to.          *)
LEMMA Effects ==
  ASSUME OwnInv, OrderInv, [Next]_vars, NEW h \in Handler, Handle(h), NEW u \in User, Lost(u) = {}
  PROVE  /\ log' = log /\ (due' = due \/ due' = due \ {handler[h].event})
         /\ RowsOf(u) \subseteq RowsOf(u)' /\ RowsOf(u)' \subseteq RowsOf(u) \cup {SubOf(h)}
         /\ SubOf(h) \in RowsOf(u)' \ RowsOf(u) =>
              \A n \in DOMAIN log[SubOf(h)].states : <<SubOf(h), n>> \in due
         /\ licenses'[u] > licenses[u] => SubOf(h) \in RowsOf(u) /\ StatusOf(h) = "active"
         /\ licenses'[u] < licenses[u] => SubOf(h) \in RowsOf(u) /\ StatusOf(h) = "canceled"
         /\ due' # due /\ StatusOf(h) = "active" /\ SubOf(h) \in RowsOf(u)' => licenses'[u] > 0
         /\ due' # due /\ StatusOf(h) = "canceled" /\ SubOf(h) \in RowsOf(u)' => licenses'[u] = 0
<1>d. /\ TypeOK /\ HandlerRight(h) /\ HeldRight(h) /\ StatusRight(h) /\ ~At(h, "idle")
      /\ licenses \in [User -> Nat] /\ licenses[u] \in Nat
      /\ subs \in [Sub -> Row \cup {None}]
      /\ \A s \in Sub : RowCurrent(s) /\ RowRight(s)
      /\ \A c \in Foreign : account[c] = None
  BY DEF OwnInv, OrderInv, TypeOK, Row, At, Handle, LookupUser, UpsertRow,
         CountLicenses, Generate, LookupSub, MarkCanceled, RevokeAllForUser, EndFailed
<1>e. PICK r \in Sub : r = SubOf(h)
  BY <1>d, AtRow
<1>g. /\ \A s \in Sub : subs[s] # None => subs'[s] # None /\ subs'[s].user = subs[s].user
      /\ RowsOf(u) \subseteq RowsOf(u)'
  BY GrowsKept DEF Grows, RowsOf
<1>l. log' = log /\ (due' = due \/ due' = due \ {handler[h].event})
  <2>1. handler[h].event \in due
    BY <1>d DEF HeldRight
  <2> QED BY <2>1 DEF Handle, LookupUser, UpsertRow, CountLicenses, Generate, LookupSub, MarkCanceled,
                     RevokeAllForUser, EndFailed, OK, Die, Goto, NotAnswered
(* The user whose row a request has read or written. *)
<1>u. ASSUME handler[h].pc \in {"count", "generate", "revoke"}
      PROVE  handler[h].user \in User /\ (r \in RowsOf(u) <=> u = handler[h].user)
  <2>1. subs[r] # None /\ subs[r].user = handler[h].user
    BY <1>d, <1>e, <1>u DEF HandlerRight
  <2>2. subs[r] \in Row
    BY <1>d, <2>1
  <2> QED BY <2>1, <2>2 DEF Row, RowsOf
<1>s. ASSUME UNCHANGED <<subs, licenses>>,
             due' = due \/ r \notin RowsOf(u) \/ (StatusOf(h) = "active" /\ licenses[u] > 0)
      PROVE  /\ RowsOf(u)' \subseteq RowsOf(u) \cup {r}
             /\ r \notin RowsOf(u)' \ RowsOf(u)
             /\ ~(licenses'[u] > licenses[u]) /\ ~(licenses'[u] < licenses[u])
             /\ due' # due /\ StatusOf(h) = "active" /\ r \in RowsOf(u)' => licenses'[u] > 0
             /\ due' # due /\ StatusOf(h) = "canceled" /\ r \in RowsOf(u)' => licenses'[u] = 0
  <2>1. RowsOf(u)' = RowsOf(u) /\ licenses'[u] = licenses[u]
    BY <1>s DEF RowsOf
  <2> QED BY <1>d, <1>s, <2>1
<1>1. CASE LookupUser(h) \/ LookupSub(h) \/ EndFailed(h)
  <2>1. UNCHANGED <<subs, licenses>>
    BY <1>1 DEF LookupUser, LookupSub, EndFailed, dbVars
  <2>2. CASE LookupUser(h)
    <3>1. UserOf(log[r].cust) = {} \/ due' = due
      BY <1>e, <2>2 DEF LookupUser
    <3>2. ASSUME UserOf(log[r].cust) = {}, r \in RowsOf(u) PROVE FALSE
      <4>1. subs[r] # None /\ subs[r].user \in User /\ account[log[r].cust] = subs[r].user
            /\ log[r].states # <<>>
        BY <1>d, <3>2 DEF RowsOf, RowRight
      <4>2. subs[r].user = u
        BY <3>2 DEF RowsOf
      <4> QED BY <3>2, <4>1, <4>2, KnownUser, BillingAssumption
    <3> QED BY <1>e, <1>g, <1>l, <1>s, <2>1, <3>1, <3>2
  <2>3. CASE LookupSub(h)
    <3>1. subs[r] = None \/ due' = due
      BY <1>e, <2>3 DEF LookupSub
    <3>2. subs[r] = None => r \notin RowsOf(u)
      BY DEF RowsOf
    <3> QED BY <1>e, <1>g, <1>l, <1>s, <2>1, <3>1, <3>2
  <2>4. CASE EndFailed(h)
    <3>1. due' = due
      BY <1>d, <2>4 DEF EndFailed, NotAnswered, HeldRight
    <3> QED BY <1>e, <1>g, <1>l, <1>s, <2>1, <3>1
  <2> QED BY <1>1, <2>2, <2>3, <2>4
<1>2. CASE UpsertRow(h)
  <2>1. /\ At(h, "upsert") /\ licenses' = licenses /\ StatusOf(h) # "canceled"
        /\ subs' = [subs EXCEPT ![r] = Upserted(h)]
        /\ StatusOf(h) = "active" => due' = due
        /\ handler[h].user \in User /\ account[log[r].cust] = handler[h].user
    BY <1>2, <1>d, <1>e DEF UpsertRow, Goto, StatusRight, HandlerRight, At
  <2>2. \A s \in Sub \ {r} : subs'[s] = subs[s]
    BY <1>d, <2>1
  <2>3. RowsOf(u)' \subseteq RowsOf(u) \cup {r}
    BY <2>2 DEF RowsOf
  <2>4. ASSUME r \in RowsOf(u)' \ RowsOf(u) PROVE \A n \in DOMAIN log[r].states : <<r, n>> \in due
    <3>1. subs[r] = None
      BY <1>g, <2>4 DEF RowsOf
    <3>2. log[r].cust \notin Foreign
      BY <1>d, <2>1, BillingAssumption
    <3>3. handler[h].user = u
      <4>1. subs'[r] = [user |-> handler[h].user, status |-> StatusOf(h)]
        BY <1>d, <1>e, <2>1, <3>1 DEF Upserted
      <4> QED BY <2>4, <4>1 DEF RowsOf
    <3>4. Sound(r)
      BY <2>1, <3>3 DEF Sound, Lost, Paid
    <3> QED BY <1>d, <3>1, <3>2, <3>4 DEF RowCurrent
  <2>5. ~(licenses'[u] > licenses[u]) /\ ~(licenses'[u] < licenses[u])
    BY <1>d, <2>1
  <2> QED BY <1>e, <1>g, <1>l, <2>1, <2>3, <2>4, <2>5
<1>3. CASE CountLicenses(h)
  <2>1. /\ At(h, "count") /\ UNCHANGED <<subs, licenses>> /\ StatusOf(h) = "active"
        /\ licenses[handler[h].user] # 0 \/ due' = due
    BY <1>3, <1>d DEF CountLicenses, Goto, HandlerRight, At, dbVars
  <2>2. u = handler[h].user \/ r \notin RowsOf(u)
    BY <1>u, <2>1 DEF At
  <2>3. due' = due \/ r \notin RowsOf(u) \/ (StatusOf(h) = "active" /\ licenses[u] > 0)
    BY <1>d, <2>1, <2>2
  <2> QED BY <1>e, <1>g, <1>l, <1>s, <2>1, <2>3
<1>4. CASE Generate(h) \/ RevokeAllForUser(h)
  <2>1. /\ handler[h].pc \in {"generate", "revoke"} /\ subs' = subs
        /\ \/ StatusOf(h) = "active" /\ licenses' = [licenses EXCEPT ![handler[h].user] = @ + 1]
           \/ StatusOf(h) = "canceled" /\ licenses' = [licenses EXCEPT ![handler[h].user] = 0]
    BY <1>4, <1>d DEF Generate, RevokeAllForUser, HandlerRight, At
  <2>2. handler[h].user \in User /\ (r \in RowsOf(u) <=> u = handler[h].user)
    BY <1>u, <2>1
  <2>3. RowsOf(u)' = RowsOf(u)
    BY <2>1 DEF RowsOf
  <2>4. CASE u # handler[h].user
    <3>1. licenses'[u] = licenses[u] /\ r \notin RowsOf(u)'
      BY <1>d, <2>1, <2>2, <2>3, <2>4
    <3>2. ~(licenses'[u] > licenses[u]) /\ ~(licenses'[u] < licenses[u])
      BY <1>d, <3>1
    <3> QED BY <1>e, <1>l, <2>3, <3>1, <3>2
  <2>5. CASE u = handler[h].user
    <3>1. \/ StatusOf(h) = "active" /\ licenses'[u] = licenses[u] + 1
          \/ StatusOf(h) = "canceled" /\ licenses'[u] = 0
      BY <1>d, <2>1, <2>5
    <3>2. \/ StatusOf(h) = "active" /\ licenses'[u] > 0 /\ ~(licenses'[u] < licenses[u])
          \/ StatusOf(h) = "canceled" /\ licenses'[u] = 0 /\ ~(licenses'[u] > licenses[u])
      BY <1>d, <3>1
    <3> QED BY <1>e, <1>l, <2>2, <2>3, <2>5, <3>2
  <2> QED BY <2>4, <2>5
<1>5. CASE MarkCanceled(h)
  <2>1. /\ At(h, "cancel") /\ licenses' = licenses /\ due' = due /\ subs[r] # None
        /\ subs' = [subs EXCEPT ![r].status = "canceled"]
    BY <1>5, <1>d, <1>e DEF MarkCanceled, Goto, HandlerRight, At
  <2>2. subs[r] \in Row
    BY <1>d, <2>1
  <2>3. \A s \in Sub : subs'[s] = subs[s] \/ (s = r /\ subs'[s].user = subs[s].user)
    BY <1>d, <2>1, <2>2 DEF Row
  <2>4. RowsOf(u)' \subseteq RowsOf(u)
    BY <2>1, <2>3 DEF RowsOf
  <2>5. ~(licenses'[u] > licenses[u]) /\ ~(licenses'[u] < licenses[u])
    BY <1>d, <2>1
  <2> QED BY <1>e, <1>g, <1>l, <2>1, <2>4, <2>5
<1> QED BY <1>1, <1>2, <1>3, <1>4, <1>5 DEF Handle

(* A request keeps both. *)
LEMMA LicensesHandled ==
  ASSUME OwnInv, OrderInv, [Next]_vars, NEW h \in Handler, Handle(h),
         NEW u \in User, Lost(u) = {}, EndsRight(u), GetsRight(u)
  PROVE  EndsRight(u)' /\ GetsRight(u)'
<1>d. /\ TypeOK /\ HandlerRight(h) /\ ~At(h, "idle") /\ licenses[u] \in Nat /\ licenses'[u] \in Nat
      /\ DueRight /\ HeldRight(h) /\ \A s \in Sub : StoryRight(s) /\ log[s].states \in Seq(Status)
  BY TypeKept DEF OwnInv, OrderInv, TypeOK, At, Handle, LookupUser, UpsertRow,
         CountLicenses, Generate, LookupSub, MarkCanceled, RevokeAllForUser, EndFailed
<1>e. PICK r \in Sub, k \in Nat :
        /\ handler[h].event = <<r, k>> /\ SubOf(h) = r
        /\ log[r].states \in Seq(Status) /\ k \in 1 .. Len(log[r].states)
        /\ StatusOf(h) = log[r].states[k]
  BY <1>d, HeldEvent
<1>f. PICK rows : rows = RowsOf(u)'
  OBVIOUS
<1>1. /\ log' = log /\ (due' = due \/ due' = due \ {<<r, k>>})
      /\ RowsOf(u) \subseteq rows /\ rows \subseteq RowsOf(u) \cup {r}
      /\ r \in rows \ RowsOf(u) => \A n \in DOMAIN log[r].states : <<r, n>> \in due
      /\ licenses'[u] > licenses[u] => r \in RowsOf(u) /\ StatusOf(h) = "active"
      /\ licenses'[u] < licenses[u] => r \in RowsOf(u) /\ StatusOf(h) = "canceled"
      /\ due' # due /\ StatusOf(h) = "active" /\ r \in rows => licenses'[u] > 0
      /\ due' # due /\ StatusOf(h) = "canceled" /\ r \in rows => licenses'[u] = 0
  BY <1>e, <1>f, Effects
<1>2. /\ \A s \in Sub : Last(s)' = Last(s) /\ Top(s)' = Top(s)
      /\ \A s \in RowsOf(u) : s \in Sub
  BY <1>1 DEF Last, Top, RowsOf
(* The last event of the request's subscription has its status. *)
<1>3. Top(r) = <<r, k>> => Last(r) = StatusOf(h)
  BY <1>e DEF Top, Last
<1>4. Top(r) \in due
  BY <1>d, <1>e DEF HeldRight, DueRight
<1>5. ASSUME licenses'[u] > 0 PROVE \E s \in rows : ~Over(s)'
  <2>1. CASE licenses[u] > 0
    <3>1. PICK s \in RowsOf(u) : ~Over(s)
      BY <2>1 DEF EndsRight
    <3>2. ASSUME Over(s)' PROVE FALSE
      <4>1. Top(s) \notin due' /\ Last(s) = "canceled" /\ Top(s) \in due
        BY <1>2, <3>1, <3>2 DEF Over
      <4>2. Top(s) = <<r, k>> /\ due' # due
        BY <1>1, <4>1
      <4>3. s = r
        BY <4>2 DEF Top
      <4> QED BY <1>1, <1>3, <1>5, <3>1, <4>1, <4>2, <4>3
    <3> QED BY <1>1, <3>1, <3>2
  <2>2. CASE ~(licenses[u] > 0)
    <3>1. licenses'[u] > licenses[u]
      BY <1>d, <1>5, <2>2
    <3>2. r \in RowsOf(u) /\ StatusOf(h) = "active"
      BY <1>1, <3>1
    <3>3. ASSUME Over(r)' PROVE FALSE
      <4>1. Top(r) \notin due' /\ Last(r) = "canceled"
        BY <1>2, <3>3 DEF Over
      <4> QED BY <1>1, <1>3, <1>4, <3>2, <4>1
    <3> QED BY <1>1, <3>2, <3>3
  <2> QED BY <2>1, <2>2
<1>6. ASSUME NEW s \in rows, NEW n \in DOMAIN log[s].states, log[s].states[n] = "active",
             ~(licenses'[u] > 0), <<s, n>> \notin due'
      PROVE  \E t \in rows : Last(t) = "canceled"
  <2>1. CASE licenses[u] > 0
    <3>1. licenses'[u] < licenses[u]
      BY <1>d, <1>6, <2>1
    <3>2. r \in RowsOf(u) /\ StatusOf(h) = "canceled"
      BY <1>1, <3>1
    <3>3. k \in DOMAIN log[r].states /\ log[r].states[k] = "canceled"
      BY <1>e, <3>2
    <3>4. Last(r) = "canceled"
      BY <1>d, <3>3 DEF StoryRight, Last
    <3> QED BY <1>1, <3>2, <3>4
  <2>2. CASE <<s, n>> \in due
    <3>1. <<s, n>> = <<r, k>> /\ due' # due
      BY <1>1, <1>6, <2>2
    <3>2. s = r /\ StatusOf(h) = "active"
      BY <1>e, <1>6, <3>1
    <3> QED BY <1>1, <1>6, <3>1, <3>2
  <2>3. CASE <<s, n>> \notin due /\ ~(licenses[u] > 0)
    <3>1. s \in RowsOf(u)
      BY <1>1, <1>6, <2>3
    <3>2. \E t \in RowsOf(u) : Last(t) = "canceled"
      BY <1>6, <2>3, <3>1 DEF GetsRight
    <3> QED BY <1>1, <3>2
  <2> QED BY <2>1, <2>2, <2>3
<1>7. EndsRight(u)'
  BY <1>5, <1>f DEF EndsRight
<1>8. GetsRight(u)'
  <2>1. \A s \in rows : s \in Sub
    BY <1>1, <1>2
  <2>2. \A t \in rows : Last(t)' = Last(t)
    BY <1>2, <2>1
  <2>3. SUFFICES ASSUME NEW s \in rows, NEW n \in DOMAIN log[s].states, log[s].states[n] = "active",
                        ~(licenses'[u] > 0), <<s, n>> \notin due'
                 PROVE  \E t \in rows : Last(t)' = "canceled"
    BY <1>1, <1>f DEF GetsRight
  <2> QED BY <1>6, <2>2, <2>3
<1> QED BY <1>7, <1>8

(* So does a new event. *)
LEMMA LicensesPosted ==
  ASSUME OwnInv, OrderInv, NEW s \in Sub, NEW st \in Status, Posted(s, st),
         NEW u \in User, EndsRight(u), GetsRight(u)
  PROVE  EndsRight(u)' /\ GetsRight(u)'
<1>d. TypeOK /\ \A t \in Sub : RowRight(t)
  BY DEF OwnInv
<1>p. PICK m \in Nat :
      /\ m = Len(log[s].states) /\ Len(log'[s].states) = m + 1 /\ log[s].states \in Seq(Status)
      /\ DOMAIN log'[s].states = 1 .. (m + 1) /\ DOMAIN log[s].states = 1 .. m
      /\ \A n \in 1 .. m : log'[s].states[n] = log[s].states[n]
      /\ \A t \in Sub \ {s} : log'[t] = log[t]
  BY <1>d, PostedAppends
<1>u. due' = due \cup {<<s, m + 1>>} /\ UNCHANGED <<subs, licenses>>
  BY <1>p DEF Posted
<1>r. RowsOf(u)' = RowsOf(u)
  BY <1>u DEF RowsOf
<1>1. ~Over(s)'
  BY <1>p, <1>u DEF Over, Top
<1>2. ASSUME NEW t \in RowsOf(u), t # s
      PROVE  /\ log'[t] = log[t] /\ Last(t)' = Last(t) /\ Top(t)' = Top(t) /\ (~Over(t) => ~Over(t)')
  <2>1. t \in Sub /\ log'[t] = log[t]
    BY <1>p, <1>2 DEF RowsOf
  <2>2. Top(t) # <<s, m + 1>> /\ Top(t)' = Top(t) /\ Last(t)' = Last(t)
    BY <1>2, <2>1 DEF Top, Last
  <2> QED BY <1>u, <2>1, <2>2 DEF Over
<1>3. EndsRight(u)'
  BY <1>1, <1>2, <1>r, <1>u DEF EndsRight
<1>4. ASSUME NEW t \in RowsOf(u), Last(t) = "canceled" PROVE Last(t)' = "canceled"
  <2>1. log[t].states # <<>>
    BY <1>d DEF RowsOf, RowRight
  <2>2. t # s
    BY <1>4, <2>1 DEF Posted
  <2> QED BY <1>2, <1>4, <2>2
<1>5. ASSUME NEW t \in RowsOf(u), NEW n \in DOMAIN log'[t].states, log'[t].states[n] = "active",
             <<t, n>> \notin due'
      PROVE  licenses[u] > 0 \/ \E x \in RowsOf(u) : Last(x)' = "canceled"
  <2>1. n \in DOMAIN log[t].states /\ log[t].states[n] = "active" /\ <<t, n>> \notin due
    <3>1. CASE t = s
      <4>1. n # m + 1 /\ n \in 1 .. (m + 1)
        BY <1>5, <1>p, <1>u, <3>1
      <4>2. n \in 1 .. m
        BY <4>1
      <4> QED BY <1>5, <1>p, <1>u, <3>1, <4>2
    <3>2. CASE t # s
      BY <1>2, <1>5, <1>u, <3>2
    <3> QED BY <3>1, <3>2
  <2> QED BY <1>4, <2>1 DEF GetsRight
<1>6. GetsRight(u)'
  BY <1>5, <1>r, <1>u DEF GetsRight
<1> QED BY <1>3, <1>6

(* The rows whose request has counted no license and is about to generate.   *)
Claims(u) == {s \in RowsOf(u) : \E h \in Handler : At(h, "generate") /\ SubOf(h) = s}

(* Each license, and each that is about to come, is of a row of its own.     *)
CountRight(u) == /\ IsFiniteSet(RowsOf(u))
                 /\ licenses[u] + Cardinality(Claims(u)) <= Cardinality(RowsOf(u))

(* Counting when the rows only grow: the claims may fall, turn into a        *)
(* license, or be made where there is none.                                  *)
LEMMA Counting ==
  ASSUME NEW R, NEW C, NEW l \in Nat, NEW R2, NEW C2, NEW l2 \in Nat,
         IsFiniteSet(R), C \subseteq R, l + Cardinality(C) <= Cardinality(R),
         IsFiniteSet(R2), R \subseteq R2, C2 \subseteq R2,
         \/ l2 = 0
         \/ l2 = l /\ C2 \subseteq C
         \/ l2 = l + 1 /\ \E x \in C : C2 \subseteq C \ {x}
  PROVE  l2 + Cardinality(C2) <= Cardinality(R2)
<1>1. IsFiniteSet(C) /\ IsFiniteSet(C2)
  BY FS_Subset
<1>2. Cardinality(R) <= Cardinality(R2) /\ Cardinality(C2) <= Cardinality(R2)
  BY FS_Subset
<1>3. /\ Cardinality(R) \in Nat /\ Cardinality(R2) \in Nat
      /\ Cardinality(C) \in Nat /\ Cardinality(C2) \in Nat
  BY <1>1, FS_CardinalityType
<1>4. CASE l2 = 0
  BY <1>2, <1>3, <1>4
<1>5. CASE l2 = l /\ C2 \subseteq C
  <2>1. Cardinality(C2) <= Cardinality(C)
    BY <1>1, <1>5, FS_Subset
  <2> QED BY <1>2, <1>3, <1>5, <2>1
<1>6. ASSUME l2 = l + 1, NEW x \in C, C2 \subseteq C \ {x} PROVE l2 + Cardinality(C2) <= Cardinality(R2)
  <2>1. IsFiniteSet(C \ {x}) /\ Cardinality(C \ {x}) = Cardinality(C) - 1
    BY <1>1, FS_RemoveElement
  <2>2. Cardinality(C2) <= Cardinality(C \ {x})
    BY <1>6, <2>1, FS_Subset
  <2> QED BY <1>2, <1>3, <1>6, <2>1, <2>2
<1> QED BY <1>4, <1>5, <1>6

(* Every step writes at most one row. *)
LEMMA OneRowWritten ==
  ASSUME OwnInv, [Next]_vars
  PROVE  subs' = subs \/ \E r \in Sub : \A s \in Sub \ {r} : subs'[s] = subs[s]
<1>d. TypeOK /\ \A h \in Handler : HandlerRight(h)
  BY DEF OwnInv
<1>1. ASSUME NEW h \in Handler, UpsertRow(h) \/ MarkCanceled(h)
      PROVE  \E r \in Sub : \A s \in Sub \ {r} : subs'[s] = subs[s]
  <2>1. SubOf(h) \in Sub
    BY <1>1, <1>d, AtRow DEF UpsertRow, MarkCanceled, At
  <2>2. \E row : subs' = [subs EXCEPT ![SubOf(h)] = row]
    BY <1>1 DEF UpsertRow, MarkCanceled
  <2> QED BY <1>d, <2>1, <2>2 DEF TypeOK
<1> QED BY <1>1 DEF Next, vars, dbVars, stripeVars, OpenCheckout, ReadCustomer, NewCustomer, NewSession,
          SaveCustomer, LeaveCheckout, Subscribe, Change, Deliver, Fail, Die, Handle, LookupUser, CountLicenses,
          Generate, LookupSub, RevokeAllForUser, EndFailed

(* A step after which no other request is about to generate makes no claim.  *)
LEMMA NoNewClaim ==
  ASSUME OwnInv, [Next]_vars, NEW u \in User,
         \A g \in Handler : At(g, "generate")' => At(g, "generate") /\ handler'[g].event = handler[g].event
  PROVE  Claims(u)' \subseteq Claims(u)
<1>1. SUFFICES ASSUME NEW s \in RowsOf(u)', NEW g \in Handler, At(g, "generate")', SubOf(g)' = s
               PROVE  s \in RowsOf(u) /\ At(g, "generate") /\ SubOf(g) = s
  BY DEF Claims
<1>2. At(g, "generate") /\ SubOf(g) = s
  BY <1>1 DEF SubOf
<1>3. subs[s] # None
  BY <1>2 DEF OwnInv, HandlerRight, At
<1>4. s \in Sub /\ subs'[s].user = u
  BY <1>1 DEF RowsOf
<1>5. subs'[s].user = subs[s].user
  BY <1>3, <1>4, GrowsKept DEF Grows
<1> QED BY <1>2, <1>3, <1>4, <1>5 DEF RowsOf

(* Every step keeps the count. *)
LEMMA CountNext ==
  ASSUME OwnInv, OrderInv, [Next]_vars, NEW u \in User, CountRight(u)
  PROVE  CountRight(u)'
<1>d. /\ TypeOK /\ handler \in [Handler -> HandlerType] /\ licenses \in [User -> Nat]
      /\ licenses[u] \in Nat /\ licenses'[u] \in Nat
      /\ \A h \in Handler : HandlerRight(h) /\ HeldRight(h)
  BY TypeKept DEF OwnInv, OrderInv, TypeOK, HandlerType, HandlerPc
<1>1. RowsOf(u) \subseteq RowsOf(u)'
  BY GrowsKept DEF Grows, RowsOf
<1>2. IsFiniteSet(RowsOf(u)')
  <2>1. CASE subs' = subs
    BY <2>1 DEF CountRight, RowsOf
  <2>2. ASSUME NEW r \in Sub, \A s \in Sub \ {r} : subs'[s] = subs[s] PROVE IsFiniteSet(RowsOf(u)')
    <3>1. RowsOf(u)' \subseteq RowsOf(u) \cup {r}
      BY <2>2 DEF RowsOf
    <3>2. IsFiniteSet(RowsOf(u) \cup {r})
      BY FS_AddElement DEF CountRight
    <3> QED BY <3>1, <3>2, FS_Subset
  <2> QED BY <2>1, <2>2, OneRowWritten
<1>3. Claims(u) \subseteq RowsOf(u) /\ Claims(u)' \subseteq RowsOf(u)'
  BY DEF Claims
<1>c. ASSUME \/ licenses'[u] = 0
             \/ licenses'[u] = licenses[u] /\ Claims(u)' \subseteq Claims(u)
             \/ licenses'[u] = licenses[u] + 1 /\ \E x \in Claims(u) : Claims(u)' \subseteq Claims(u) \ {x}
      PROVE  CountRight(u)'
  <2>1. PICK R2, C2, l2 : R2 = RowsOf(u)' /\ C2 = Claims(u)' /\ l2 = licenses'[u]
    OBVIOUS
  <2>2. l2 + Cardinality(C2) <= Cardinality(R2)
    BY <1>1, <1>2, <1>3, <1>c, <1>d, <2>1, Counting DEF CountRight
  <2> QED BY <1>2, <2>1, <2>2 DEF CountRight
(* Steps that make neither a claim nor a license. *)
<1>k. ASSUME licenses' = licenses,
             \A g \in Handler : At(g, "generate")' => At(g, "generate") /\ handler'[g].event = handler[g].event
      PROVE  CountRight(u)'
  BY <1>c, <1>k, NoNewClaim
<1>f. ASSUME NEW h \in Handler, handler'[h].pc # "generate", \A g \in Handler \ {h} : handler'[g] = handler[g]
      PROVE  \A g \in Handler : At(g, "generate")' => At(g, "generate") /\ handler'[g].event = handler[g].event
  BY <1>f DEF At
<1>4. ASSUME NEW h \in Handler, Handle(h) PROVE CountRight(u)'
  <2>1. CASE LookupUser(h) \/ LookupSub(h) \/ UpsertRow(h) \/ MarkCanceled(h) \/ EndFailed(h)
    <3>1. handler'[h].pc # "generate" /\ \A g \in Handler \ {h} : handler'[g] = handler[g]
      BY <1>d, <2>1 DEF LookupUser, LookupSub, UpsertRow, MarkCanceled, EndFailed, OK, Die, Goto, NotAnswered,
                        Free, HandlerType
    <3>2. licenses' = licenses
      BY <2>1 DEF LookupUser, LookupSub, UpsertRow, MarkCanceled, EndFailed, dbVars
    <3> QED BY <1>f, <1>k, <3>1, <3>2
  <2>2. CASE CountLicenses(h)
    <3>1. licenses' = licenses /\ At(h, "count")
      BY <2>2 DEF CountLicenses, dbVars
    <3>2. CASE licenses[handler[h].user] = 0
      <4>1. handler' = [handler EXCEPT ![h].pc = "generate"]
        BY <2>2, <3>2 DEF CountLicenses, Goto
      <4>2. CASE u = handler[h].user
        BY <1>c, <3>1, <3>2, <4>2
      <4>3. CASE u # handler[h].user
        <5>1. SUFFICES Claims(u)' \subseteq Claims(u)
          BY <1>c, <3>1
        <5>2. SUFFICES ASSUME NEW s \in RowsOf(u)', NEW g \in Handler, At(g, "generate")', SubOf(g)' = s
                       PROVE  s \in RowsOf(u) /\ At(g, "generate") /\ SubOf(g) = s
          BY DEF Claims
        <5>3. s \in RowsOf(u) /\ SubOf(g) = s
          BY <1>d, <2>2, <4>1, <5>2 DEF CountLicenses, dbVars, RowsOf, SubOf, HandlerType
        <5>4. g # h
          BY <1>d, <3>1, <4>3, <5>3 DEF HandlerRight, At, RowsOf
        <5> QED BY <1>d, <4>1, <5>2, <5>3, <5>4 DEF At
      <4> QED BY <4>2, <4>3
    <3>3. CASE licenses[handler[h].user] # 0
      <4>1. handler'[h].pc # "generate" /\ \A g \in Handler \ {h} : handler'[g] = handler[g]
        BY <1>d, <2>2, <3>3 DEF CountLicenses, OK, Die, Free, HandlerType
      <4> QED BY <1>f, <1>k, <3>1, <4>1
    <3> QED BY <3>2, <3>3
  <2>3. CASE Generate(h)
    <3>1. /\ At(h, "generate") /\ licenses' = [licenses EXCEPT ![handler[h].user] = @ + 1] /\ subs' = subs
          /\ \/ handler' = [handler EXCEPT ![h] = Free]
             \/ handler' = [handler EXCEPT ![h].pc = "failed", ![h].user = None]
      BY <2>3 DEF Generate, OK, Die
    <3>2. handler'[h].pc # "generate" /\ \A g \in Handler \ {h} : handler'[g] = handler[g]
      BY <1>d, <3>1 DEF Free, HandlerType
    <3>3. \A g \in Handler : At(g, "generate")' => At(g, "generate") /\ handler'[g].event = handler[g].event
      BY <1>f, <3>2
    <3>4. CASE u # handler[h].user
      <4>1. licenses'[u] = licenses[u]
        BY <1>d, <3>1, <3>4
      <4> QED BY <1>c, <3>3, <4>1, NoNewClaim
    <3>5. CASE u = handler[h].user
      <4>1. licenses'[u] = licenses[u] + 1
        BY <1>d, <3>1, <3>5
      <4>2. PICK x : x = SubOf(h)
        OBVIOUS
      <4>3. x \in Claims(u)
        <5>1. x \in Sub
          BY <1>d, <3>1, <4>2, AtRow DEF At
        <5>2. subs[x] # None /\ subs[x].user = u
          BY <1>d, <3>1, <3>5, <4>2 DEF HandlerRight, At
        <5> QED BY <3>1, <4>2, <5>1, <5>2 DEF Claims, RowsOf
      <4>4. x \notin Claims(u)'
        <5>1. SUFFICES ASSUME NEW g \in Handler, At(g, "generate")', SubOf(g)' = x PROVE FALSE
          BY DEF Claims
        <5>2. At(g, "generate") /\ handler'[g] = handler[g] /\ g # h
          BY <3>2, <3>3, <5>1 DEF At
        <5>3. SubOf(g) = SubOf(h)
          BY <4>2, <5>1, <5>2 DEF SubOf
        <5> QED BY <1>d, <3>1, <5>2, <5>3 DEF HeldRight, At
      <4>5. Claims(u)' \subseteq Claims(u)
        BY <3>3, NoNewClaim
      <4> QED BY <1>c, <4>1, <4>3, <4>4, <4>5
    <3> QED BY <3>4, <3>5
  <2>4. CASE RevokeAllForUser(h)
    <3>1. handler'[h].pc # "generate" /\ \A g \in Handler \ {h} : handler'[g] = handler[g]
      BY <1>d, <2>4 DEF RevokeAllForUser, OK, Die, Free, HandlerType
    <3>2. licenses'[u] = 0 \/ licenses'[u] = licenses[u]
      BY <1>d, <2>4 DEF RevokeAllForUser
    <3> QED BY <1>c, <1>f, <3>1, <3>2, NoNewClaim
  <2> QED BY <1>4, <2>1, <2>2, <2>3, <2>4 DEF Handle
<1>5. ASSUME NEW h \in Handler, Fail(h) \/ \E e \in Event : Deliver(h, e) PROVE CountRight(u)'
  <2>1. handler'[h].pc # "generate" /\ \A g \in Handler \ {h} : handler'[g] = handler[g]
    BY <1>5, <1>d DEF Fail, Die, Deliver, Free, HandlerType
  <2>2. licenses' = licenses
    BY <1>5 DEF Fail, Die, Deliver, dbVars
  <2> QED BY <1>f, <1>k, <2>1, <2>2
<1>6. ASSUME UNCHANGED <<licenses, handler>> PROVE CountRight(u)'
  BY <1>6, <1>k DEF At
<1>7. ASSUME NEW t \in Tab, \/ \E v \in User : OpenCheckout(t, v)
                            \/ ReadCustomer(t) \/ NewCustomer(t) \/ NewSession(t) \/ SaveCustomer(t)
                            \/ LeaveCheckout(t)
      PROVE  CountRight(u)'
  BY <1>6, <1>7 DEF OpenCheckout, ReadCustomer, NewCustomer, NewSession, SaveCustomer, LeaveCheckout,
                    dbVars, stripeVars
<1>8. ASSUME NEW s \in Sub, NEW st \in Status, Change(s, st) \/ \E c \in Customer : Subscribe(s, c, st)
      PROVE  CountRight(u)'
  BY <1>6, <1>8 DEF Change, Subscribe, dbVars
<1>9. CASE UNCHANGED vars
  BY <1>6, <1>9 DEF vars
<1> QED BY <1>4, <1>5, <1>7, <1>8, <1>9 DEF Next

(* The inductive invariant of deliveries in order. *)
LicenseInv == \A u \in User : (Lost(u) = {} => EndsRight(u) /\ GetsRight(u)) /\ CountRight(u)

LEMMA LicenseNext ==
  ASSUME OwnInv, TabsInv, OrderInv, LicenseInv, [Next]_vars
  PROVE  LicenseInv'
<1>0. ASSUME NEW u \in User PROVE CountRight(u)'
  BY <1>0, CountNext DEF LicenseInv
<1>1. SUFFICES ASSUME NEW u \in User, Lost(u)' = {} PROVE EndsRight(u)' /\ GetsRight(u)'
  BY <1>0 DEF LicenseInv
<1>d. TypeOK /\ Lost(u) = {} /\ EndsRight(u) /\ GetsRight(u)
  BY <1>1, LostGrows DEF LicenseInv, OwnInv
<1>2. ASSUME NEW h \in Handler, Handle(h) PROVE EndsRight(u)' /\ GetsRight(u)'
  BY <1>2, <1>d, LicensesHandled
<1>3. ASSUME NEW s \in Sub, NEW st \in Status, Change(s, st) \/ \E c \in Customer : Subscribe(s, c, st)
      PROVE  EndsRight(u)' /\ GetsRight(u)'
  BY <1>3, <1>d, PostedBy, LicensesPosted
<1>4. ASSUME UNCHANGED <<subs, licenses, log, due>> PROVE EndsRight(u)' /\ GetsRight(u)'
  BY <1>4, <1>d DEF EndsRight, GetsRight, RowsOf, Over, Top, Last
<1>5. ASSUME NEW t \in Tab, \/ \E v \in User : OpenCheckout(t, v)
                            \/ ReadCustomer(t) \/ NewCustomer(t) \/ NewSession(t) \/ SaveCustomer(t)
                            \/ LeaveCheckout(t)
      PROVE  EndsRight(u)' /\ GetsRight(u)'
  BY <1>4, <1>5 DEF OpenCheckout, ReadCustomer, NewCustomer, NewSession, SaveCustomer, LeaveCheckout,
                    dbVars, stripeVars
<1>6. ASSUME NEW h \in Handler, Fail(h) \/ \E e \in Event : Deliver(h, e)
      PROVE  EndsRight(u)' /\ GetsRight(u)'
  BY <1>4, <1>6 DEF Fail, Die, Deliver, dbVars, stripeVars
<1>7. ASSUME UNCHANGED vars PROVE EndsRight(u)' /\ GetsRight(u)'
  BY <1>4, <1>7 DEF vars
<1> QED BY <1>2, <1>3, <1>5, <1>6, <1>7 DEF Next

(* When the deliveries of each subscription come in order, whatever fails    *)
(* and is retried and however many requests run at once: what they leave     *)
(* when all are answered is what Stripe has, row by row and license by       *)
(* license, of every user who has lost no customer to another checkout.      *)
THEOREM InOrderAgrees ==
  ASSUME Ordered
  PROVE  Spec => []SettledAgrees
<1>1. Init => OrderInv /\ LicenseInv
  <2> SUFFICES ASSUME Init PROVE OrderInv /\ LicenseInv
    OBVIOUS
  <2>1. /\ due = {} /\ \A h \in Handler : handler[h].pc = "idle"
        /\ \A s \in Sub : subs[s] = None /\ DOMAIN log[s].states = {}
        /\ \A u \in User : licenses[u] = 0
    BY DEF Init, Free
  <2>2. \A u \in User : RowsOf(u) = {} /\ Claims(u) = {}
    BY <2>1 DEF RowsOf, Claims
  <2>3. \A u \in User : EndsRight(u) /\ GetsRight(u)
    BY <2>1, <2>2 DEF EndsRight, GetsRight
  <2>4. \A u \in User : CountRight(u)
    BY <2>1, <2>2, FS_EmptySet DEF CountRight
  <2>5. DueRight /\ (\A h \in Handler : HeldRight(h) /\ StatusRight(h))
    BY <2>1 DEF DueRight, HeldRight, StatusRight, At
  <2>6. \A s \in Sub : StoryRight(s) /\ RowCurrent(s)
    BY <2>1 DEF StoryRight, RowCurrent
  <2> QED BY <2>3, <2>4, <2>5, <2>6 DEF OrderInv, LicenseInv
<1>2. OwnInv /\ TabsInv /\ OrderInv /\ LicenseInv /\ [Next]_vars => OrderInv' /\ LicenseInv'
  BY OrderNext, LicenseNext
<1>3. OwnInv /\ OrderInv /\ LicenseInv => SettledAgrees
  <2> SUFFICES ASSUME OwnInv, OrderInv, LicenseInv, Settled, NEW u \in User, Lost(u) = {}
               PROVE  /\ \A s \in RowsOf(u) : subs[s].status = Last(s)
                      /\ (\A s \in RowsOf(u) : Last(s) = "canceled") => licenses[u] = 0
                      /\ (\A s \in RowsOf(u) : Last(s) # "canceled") /\ (\E s \in RowsOf(u) : WasActive(s))
                           => licenses[u] \in 1 .. Cardinality(RowsOf(u))
    BY DEF SettledAgrees
  <2>1. /\ due = {} /\ licenses[u] \in Nat /\ EndsRight(u) /\ GetsRight(u) /\ CountRight(u)
        /\ \A s \in Sub : RowCurrent(s) /\ RowRight(s)
    BY DEF Settled, OwnInv, TypeOK, LicenseInv, OrderInv
  <2>2. \A s \in RowsOf(u) : subs[s].status = Last(s)
    <3>1. ASSUME NEW s \in RowsOf(u) PROVE subs[s].status = Last(s)
      <4>1. s \in Sub /\ subs[s] # None /\ account[log[s].cust] = u
        BY <2>1 DEF RowsOf, RowRight
      <4>2. Sound(s)
        BY <4>1 DEF Sound, Lost, Paid
      <4> QED BY <2>1, <4>1, <4>2 DEF RowCurrent
    <3> QED BY <3>1
  <2>3. (\A s \in RowsOf(u) : Last(s) = "canceled") => licenses[u] = 0
    <3>1. licenses[u] > 0 => \E s \in RowsOf(u) : Last(s) # "canceled"
      BY <2>1 DEF EndsRight, Over
    <3> QED BY <2>1, <3>1
  <2>4. ASSUME \A s \in RowsOf(u) : Last(s) # "canceled", \E s \in RowsOf(u) : WasActive(s)
        PROVE  licenses[u] \in 1 .. Cardinality(RowsOf(u))
    <3>1. licenses[u] > 0
      BY <2>1, <2>4 DEF GetsRight, WasActive
    <3>2. IsFiniteSet(RowsOf(u)) /\ Claims(u) \subseteq RowsOf(u)
      BY <2>1 DEF CountRight, Claims
    <3>3. IsFiniteSet(Claims(u))
      BY <3>2, FS_Subset
    <3>4. Cardinality(RowsOf(u)) \in Nat /\ Cardinality(Claims(u)) \in Nat
      BY <3>2, <3>3, FS_CardinalityType
    <3> QED BY <2>1, <3>1, <3>4 DEF CountRight
  <2> QED BY <2>2, <2>3, <2>4
<1> QED BY <1>1, <1>2, <1>3, OwnInvInductive, TabsAlways, PTL DEF Spec
=============================================================================

------------------------------- MODULE Billing -------------------------------
(***************************************************************************)
(* Subscriptions and licenses of avtool-web: the checkout handler, the     *)
(* Stripe webhook (internal/web/billing) and the license table             *)
(* (internal/web/license).  There is no transaction anywhere: every SQL    *)
(* statement and every call to Stripe is a step of its own, each request   *)
(* runs in a goroutine of its own, and any of them can end between two     *)
(* steps, by an error or because the server stops.                         *)
(*                                                                         *)
(* Stripe is the environment.  It repeats an event until it is answered    *)
(* with 200; unless Ordered, it may deliver events late, in any order,     *)
(* several times and to several handlers at once.  The account is shared   *)
(* with other products, whose events arrive here too.                      *)
(***************************************************************************)
EXTENDS Naturals, Sequences, FiniteSets

CONSTANTS User,        \* rows of users
          Tab,         \* browser tabs in which a user may go through checkout
          Customer,    \* Stripe customers
          Foreign,     \* those of the other products
          Sub,         \* Stripe subscriptions
          Handler,     \* webhook requests served at once
          MaxVersion,  \* bound on the states one subscription goes through
          Ordered,     \* deliveries of one subscription come in order and once
          None

Status == {"incomplete", "active", "past_due", "canceled"}
Row    == [user : User, status : Status]

ASSUME BillingAssumption ==
  /\ Foreign \subseteq Customer
  /\ MaxVersion \in Nat \ {0}
  /\ Ordered \in BOOLEAN
  /\ IsFiniteSet(Tab) /\ Tab # {} /\ IsFiniteSet(Handler)
  /\ None \notin User \cup Customer \cup Row

Event  == Sub \X (1 .. MaxVersion)   \* the n-th event about a subscription

VARIABLES customer,  \* users.stripe_customer_id
          subs,      \* the rows of subscriptions
          licenses,  \* how many licenses of a user are not revoked
          tab,       \* the checkout request, or Stripe's page, in each tab
          handler,   \* the webhook requests
          account,   \* Stripe: for which user's checkout a customer was created
          log,       \* Stripe: each subscription's customer and its states so far
          due        \* Stripe: the events not yet answered with 200

dbVars     == <<customer, subs, licenses>>
stripeVars == <<account, log, due>>
vars       == <<customer, subs, licenses, tab, handler, account, log, due>>

NoTab == [pc |-> "idle", user |-> None, old |-> None, cust |-> None]
Free  == [pc |-> "idle", event |-> <<>>, user |-> None]

TypeOK ==
  /\ customer \in [User -> Customer \cup {None}]
  /\ subs     \in [Sub -> Row \cup {None}]
  /\ licenses \in [User -> Nat]
  /\ tab      \in [Tab -> [pc : {"idle", "read", "stripe", "session", "save", "page"},
                           user : User \cup {None},
                           old : Customer \cup {None}, cust : Customer \cup {None}]]
  /\ handler  \in [Handler -> [pc : {"idle", "user", "upsert", "count", "generate",
                                     "sub", "cancel", "revoke", "failed"},
                               event : Event \cup {<<>>}, user : User \cup {None}]]
  /\ account  \in [Customer -> User \cup {None}]
  /\ log      \in [Sub -> [cust : Customer \cup {None}, states : Seq(Status)]]
  /\ \A s \in Sub : Len(log[s].states) <= MaxVersion
  /\ due      \in SUBSET Event

Init ==
  /\ customer = [u \in User |-> None]
  /\ subs     = [s \in Sub |-> None]
  /\ licenses = [u \in User |-> 0]
  /\ tab      = [t \in Tab |-> NoTab]
  /\ handler  = [h \in Handler |-> Free]
  /\ account  = [c \in Customer |-> None]
  /\ log      = [s \in Sub |-> [cust |-> None, states |-> <<>>]]
  /\ due      = {}

-----------------------------------------------------------------------------
(* CheckoutRedirect. *)

(* A user with an active subscription is sent to the dashboard instead. *)
OpenCheckout(t, u) ==
  /\ tab[t].pc = "idle"
  /\ ~\E s \in Sub : subs[s] # None /\ subs[s].user = u /\ subs[s].status = "active"
  /\ tab' = [tab EXCEPT ![t] = [NoTab EXCEPT !.pc = "read", !.user = u]]
  /\ UNCHANGED <<dbVars, handler, stripeVars>>

ReadCustomer(t) ==
  /\ tab[t].pc = "read"
  /\ tab' = [tab EXCEPT ![t].pc = "stripe", ![t].old = customer[tab[t].user]]
  /\ UNCHANGED <<dbVars, handler, stripeVars>>

(* CreateCheckoutSession.  Without a customer of the user's own, customer.New *)
(* creates one ...                                                            *)
NewCustomer(t) ==
  /\ tab[t].pc = "stripe"
  /\ IF tab[t].old # None
       THEN tab' = [tab EXCEPT ![t].pc = "session", ![t].cust = tab[t].old] /\ UNCHANGED account
       ELSE \E c \in Customer \ Foreign :
              /\ account[c] = None
              /\ account' = [account EXCEPT ![c] = tab[t].user]
              /\ tab' = [tab EXCEPT ![t].pc = "session", ![t].cust = c]
  /\ UNCHANGED <<dbVars, handler, log, due>>

(* ... for which session.New then makes the page. *)
NewSession(t) ==
  /\ tab[t].pc = "session"
  /\ tab' = [tab EXCEPT ![t].pc = "save"]
  /\ UNCHANGED <<dbVars, handler, stripeVars>>

(* Mutant: the new customer is not saved. *)
SaveCustomer_Forgotten(t) ==
  /\ tab[t].pc = "save"
  /\ tab' = [tab EXCEPT ![t].pc = "page", ![t].old = None]
  /\ UNCHANGED <<dbVars, handler, stripeVars>>

(* A new customer is saved before the redirect to Stripe's page. *)
SaveCustomer(t) ==
  /\ tab[t].pc = "save"
  /\ customer' = IF tab[t].cust # tab[t].old
                   THEN [customer EXCEPT ![tab[t].user] = tab[t].cust] ELSE customer
  /\ tab' = [tab EXCEPT ![t].pc = "page", ![t].old = None]
  /\ UNCHANGED <<subs, licenses, handler, stripeVars>>

(* A failed call, a lost response, a closed tab. *)
LeaveCheckout(t) ==
  /\ tab[t].pc # "idle"
  /\ tab' = [tab EXCEPT ![t] = NoTab]
  /\ UNCHANGED <<dbVars, handler, stripeVars>>

-----------------------------------------------------------------------------
(* Stripe. *)

Live(s)    == log[s].states # <<>> /\ log[s].states[Len(log[s].states)] # "canceled"
Unused(s)  == log[s].states = <<>>

(* A subscription starts when its page is paid, or in another product. *)
Subscribe(s, c, st) ==
  /\ Unused(s) /\ st \in {"incomplete", "active"}
  /\ \/ c \in Foreign /\ UNCHANGED tab
     \/ \E t \in Tab : /\ tab[t].pc = "page" /\ tab[t].cust = c
                       /\ tab' = [tab EXCEPT ![t] = NoTab]
  /\ log' = [log EXCEPT ![s] = [cust |-> c, states |-> <<st>>]]
  /\ due' = due \cup {<<s, 1>>}
  /\ UNCHANGED <<dbVars, handler, account>>

(* Renewals, failed renewals, cancellations. *)
Change(s, st) ==
  /\ Live(s) /\ Len(log[s].states) < MaxVersion /\ st # "incomplete"
  /\ log' = [log EXCEPT ![s] = [cust |-> log[s].cust, states |-> Append(log[s].states, st)]]
  /\ due' = due \cup {<<s, Len(log[s].states) + 1>>}
  /\ UNCHANGED <<dbVars, tab, handler, account>>

Sent == {e \in Event : e[2] <= Len(log[e[1]].states)}

(* An event is posted: one that is due, in any order, or again one that was  *)
(* answered long ago.                                                        *)
Deliver(h, e) ==
  /\ handler[h].pc = "idle" /\ e \in Sent
  /\ Ordered => /\ e \in due
                /\ \A d \in due : d[1] = e[1] => e[2] <= d[2]
                /\ \A g \in Handler : handler[g].pc # "idle" => handler[g].event[1] # e[1]
  /\ handler' = [handler EXCEPT ![h] = [Free EXCEPT !.event = e,
                   !.pc = IF log[e[1]].states[e[2]] = "canceled" THEN "sub" ELSE "user"]]
  /\ UNCHANGED <<dbVars, tab, stripeVars>>

-----------------------------------------------------------------------------
(* HandleWebhook. *)

At(h, pc)   == handler[h].pc = pc
SubOf(h)    == handler[h].event[1]
StatusOf(h) == log[SubOf(h)].states[handler[h].event[2]]
Goto(h, pc) == handler' = [handler EXCEPT ![h].pc = pc] /\ due' = due

(* The request dies: Stripe gets no 200. *)
Die(h) == handler' = [handler EXCEPT ![h].pc = "failed", ![h].user = None] /\ due' = due

(* After the last statement comes the 200, and Stripe is done with the event *)
(* unless the answer is lost.                                                *)
OK(h) == \/ handler' = [handler EXCEPT ![h] = Free] /\ due' = due \ {handler[h].event}
         \/ Die(h)

(* A failed statement, a timeout, the end of the server ... *)
Fail(h) ==
  /\ handler[h].pc \notin {"idle", "failed"}
  /\ Die(h)
  /\ UNCHANGED <<dbVars, tab, account, log>>

(* ... and Stripe sees a 500 or a lost connection: it will post the event    *)
(* again, also when that was a repetition of one it had an answer for.       *)
NotAnswered(h) == handler' = [handler EXCEPT ![h] = Free] /\ due' = due \cup {handler[h].event}

EndFailed(h) ==
  /\ At(h, "failed") /\ NotAnswered(h)
  /\ UNCHANGED <<dbVars, tab, account, log>>

UserOf(c) == {u \in User : customer[u] = c}

(* Mutant: an unknown customer is an error, answered with 500. *)
LookupUser_UnknownFails(h) ==
  /\ At(h, "user")
  /\ \/ UserOf(log[SubOf(h)].cust) = {} /\ NotAnswered(h)
     \/ \E u \in UserOf(log[SubOf(h)].cust) :
          handler' = [handler EXCEPT ![h].pc = "upsert", ![h].user = u] /\ due' = due
  /\ UNCHANGED <<dbVars, tab, account, log>>

(* upsertSubscription: an unknown customer is another product's. *)
LookupUser(h) ==
  /\ At(h, "user")
  /\ \/ UserOf(log[SubOf(h)].cust) = {} /\ OK(h)
     \/ \E u \in UserOf(log[SubOf(h)].cust) :
          handler' = [handler EXCEPT ![h].pc = "upsert", ![h].user = u] /\ due' = due
  /\ UNCHANGED <<dbVars, tab, account, log>>

(* INSERT ... ON DUPLICATE KEY UPDATE keeps the row's user. *)
Upserted(h) ==
  IF subs[SubOf(h)] = None THEN [user |-> handler[h].user, status |-> StatusOf(h)]
  ELSE [user |-> subs[SubOf(h)].user, status |-> StatusOf(h)]

(* Mutant: a license for every status. *)
UpsertRow_AnyStatus(h) ==
  /\ At(h, "upsert")
  /\ subs' = [subs EXCEPT ![SubOf(h)] = Upserted(h)]
  /\ Goto(h, "count")
  /\ UNCHANGED <<customer, licenses, tab, account, log>>

(* Mutant: a failed renewal costs the license. *)
UpsertRow_PastDueRevokes(h) ==
  /\ At(h, "upsert")
  /\ subs' = [subs EXCEPT ![SubOf(h)] = Upserted(h)]
  /\ IF StatusOf(h) = "past_due" THEN Goto(h, "revoke")
     ELSE IF StatusOf(h) = "active" THEN Goto(h, "count") ELSE OK(h)
  /\ UNCHANGED <<customer, licenses, tab, account, log>>

(* Mutant: a license comes only with the first row. *)
UpsertRow_FirstOnly(h) ==
  /\ At(h, "upsert")
  /\ subs' = [subs EXCEPT ![SubOf(h)] = Upserted(h)]
  /\ IF StatusOf(h) = "active" /\ subs[SubOf(h)] = None THEN Goto(h, "count") ELSE OK(h)
  /\ UNCHANGED <<customer, licenses, tab, account, log>>

(* Only an active subscription goes on to the licenses. *)
UpsertRow(h) ==
  /\ At(h, "upsert")
  /\ subs' = [subs EXCEPT ![SubOf(h)] = Upserted(h)]
  /\ IF StatusOf(h) = "active" THEN Goto(h, "count") ELSE OK(h)
  /\ UNCHANGED <<customer, licenses, tab, account, log>>

(* Mutant: no look at the licenses there are. *)
CountLicenses_Skipped(h) ==
  /\ At(h, "count") /\ Goto(h, "generate")
  /\ UNCHANGED <<dbVars, tab, account, log>>

CountLicenses(h) ==
  /\ At(h, "count")
  /\ IF licenses[handler[h].user] = 0 THEN Goto(h, "generate") ELSE OK(h)
  /\ UNCHANGED <<dbVars, tab, account, log>>

Generate(h) ==
  /\ At(h, "generate")
  /\ licenses' = [licenses EXCEPT ![handler[h].user] = @ + 1]
  /\ OK(h)
  /\ UNCHANGED <<customer, subs, tab, account, log>>

(* cancelSubscription: a subscription without a row is another product's. *)
LookupSub(h) ==
  /\ At(h, "sub")
  /\ IF subs[SubOf(h)] = None THEN OK(h)
     ELSE handler' = [handler EXCEPT ![h].pc = "cancel", ![h].user = subs[SubOf(h)].user] /\ due' = due
  /\ UNCHANGED <<dbVars, tab, account, log>>

(* Mutant: answered before the licenses are revoked. *)
MarkCanceled_Only(h) ==
  /\ At(h, "cancel")
  /\ subs' = [subs EXCEPT ![SubOf(h)].status = "canceled"]
  /\ OK(h)
  /\ UNCHANGED <<customer, licenses, tab, account, log>>

MarkCanceled(h) ==
  /\ At(h, "cancel")
  /\ subs' = [subs EXCEPT ![SubOf(h)].status = "canceled"]
  /\ Goto(h, "revoke")
  /\ UNCHANGED <<customer, licenses, tab, account, log>>

RevokeAllForUser(h) ==
  /\ At(h, "revoke")
  /\ licenses' = [licenses EXCEPT ![handler[h].user] = 0]
  /\ OK(h)
  /\ UNCHANGED <<customer, subs, tab, account, log>>

Handle(h) == \/ LookupUser(h) \/ UpsertRow(h) \/ CountLicenses(h) \/ Generate(h)
             \/ LookupSub(h) \/ MarkCanceled(h) \/ RevokeAllForUser(h) \/ EndFailed(h)

Next ==
  \/ \E t \in Tab : \/ \E u \in User : OpenCheckout(t, u)
                    \/ ReadCustomer(t) \/ NewCustomer(t) \/ NewSession(t)
                    \/ SaveCustomer(t) \/ LeaveCheckout(t)
  \/ \E s \in Sub, st \in Status : Change(s, st) \/ \E c \in Customer : Subscribe(s, c, st)
  \/ \E h \in Handler : (\E e \in Event : Deliver(h, e)) \/ Handle(h) \/ Fail(h)

(* Stripe posts what is due again and again; a request that does not fail    *)
(* comes to its end.                                                         *)
Fairness ==
  /\ \A e \in Event : SF_vars(\E h \in Handler : Deliver(h, e) /\ e \in due)
  /\ \A h \in Handler : WF_vars(Handle(h))

(* Failures are transient: from some time on no due event meets one.         *)
Dies(h)     == ~At(h, "failed") /\ At(h, "failed")'
FailuresEnd == <>[][\A h \in Handler : Dies(h) => handler[h].event \notin due]_vars

Spec     == Init /\ [][Next]_vars
FairSpec == Spec /\ Fairness

-----------------------------------------------------------------------------
(* Whatever the deliveries: a user has a license only on the strength of a   *)
(* subscription that Stripe has reported active, paid by the customer that   *)
(* this very user's checkout created.                                        *)
LicenseBacked ==
  \A u \in User : licenses[u] > 0 =>
    \E s \in Sub : /\ subs[s] # None /\ subs[s].user = u
                   /\ account[log[s].cust] = u
                   /\ \E n \in DOMAIN log[s].states : log[s].states[n] = "active"

(* However the deliveries interleave, late, repeated and in any order, each  *)
(* handler can issue at most one license beside what the others count: a     *)
(* user never has more licenses than there are requests at once.             *)
LicensesPerHandler == \A u \in User : licenses[u] <= Cardinality(Handler)

(* The customers of u that were paid on a page of ours, and those of pages   *)
(* that may yet be paid.                                                     *)
Paid(u)    == {c \in Customer : account[c] = u /\ \E s \in Sub : log[s].cust = c}
Payable(u) == {c \in Customer : account[c] = u /\ \E t \in Tab : tab[t].pc = "page" /\ tab[t].cust = c}

(* Paid, but another checkout of u has overwritten it in users: the webhook  *)
(* takes it for another product's.                                           *)
Lost(u) == Paid(u) \ {customer[u]}

(* However many checkouts of a user run at once, are abandoned or fail       *)
(* half-way: each of them can overwrite one customer at most, and one is     *)
(* left, so a user who goes through one checkout at a time never pays with a *)
(* customer that the webhook does not know.                                  *)
FewLost == \A u \in User : Cardinality((Paid(u) \cup Payable(u)) \ {customer[u]}) < Cardinality(Tab)

Settled    == due = {} /\ \A h \in Handler : handler[h].pc = "idle"
Last(s)    == log[s].states[Len(log[s].states)]
RowsOf(u)  == {s \in Sub : subs[s] # None /\ subs[s].user = u}
WasActive(s) == \E n \in DOMAIN log[s].states : log[s].states[n] = "active"

(* Deliveries that come in order leave, after any failures and retries, the  *)
(* rows of a user who has lost no customer as Stripe has them, no license    *)
(* when every subscription is canceled, and one when none is canceled and    *)
(* one ever was active; two subscriptions that become active at once may     *)
(* bring two.  Of a user with a canceled subscription beside another the     *)
(* code promises nothing: the cancellation revokes all licenses.             *)
SettledAgrees ==
  Settled => \A u \in User : Lost(u) = {} =>
    /\ \A s \in RowsOf(u) : subs[s].status = Last(s)
    /\ (\A s \in RowsOf(u) : Last(s) = "canceled") => licenses[u] = 0
    /\ (\A s \in RowsOf(u) : Last(s) # "canceled") /\ (\E s \in RowsOf(u) : WasActive(s))
         => licenses[u] \in 1 .. Cardinality(RowsOf(u))

(* Deliveries handled one at a time, late, repeated and in any order, may    *)
(* leave the row of a user's only subscription behind Stripe, but never row  *)
(* and license at odds with each other: the delivery that wrote the row last *)
(* has seen to the license, or failed and will come again.  Of a user who    *)
(* has lost a customer that delivery may not find the user again.            *)
RowRulesLicense ==
  Settled => \A u \in User, s \in Sub :
    RowsOf(u) = {s} /\ Lost(u) = {} =>
      /\ subs[s].status = "canceled" => licenses[u] = 0
      /\ subs[s].status = "active" => licenses[u] = 1

(* Every event, the other products' included, is answered with 200 in the    *)
(* end, so Stripe never gives the endpoint up.                               *)
AllAnswered == FailuresEnd => \A e \in Event : e \in due ~> e \notin due

Running(s)  == ~Unused(s) /\ log[s].cust \notin Foreign /\ Last(s) = "active"
Licensed(s) == \E u \in User : licenses[u] > 0 /\ \E c \in Customer : log[s].cust = c /\ account[c] = u

(* While a subscription of ours stays active, from its start or later, its   *)
(* user gets a license, through any failures and retries, unless another     *)
(* checkout has overwritten the customer.                                    *)
PaidGetsLicense ==
  FailuresEnd => \A s \in Sub :
     Running(s) ~> ~Running(s) \/ Licensed(s) \/ \E u \in User : log[s].cust \in Lost(u)

-----------------------------------------------------------------------------
(* The subscriptions that a user has paid, or could have paid, for: those of *)
(* the customers created in the user's own checkouts.                        *)
OwnSubs(u) == {s \in Sub : log[s].cust # None /\ account[log[s].cust] = u}

E == INSTANCE Entitlement WITH
       paid     <- {u \in User : \E s \in OwnSubs(u) : WasActive(s)},
       ended    <- {u \in User : \E s \in OwnSubs(u) : \E n \in DOMAIN log[s].states :
                                  log[s].states[n] = "canceled"},
       licensed <- {u \in User : licenses[u] > 0}

(* Through all the statements, retries and reorderings the webhook keeps     *)
(* Entitlement: only who paid gets a license, and only by the end of a       *)
(* subscription of one's own is it lost, never by that of another user or    *)
(* by an event of another product.                                           *)
Entitled == E!Spec

-----------------------------------------------------------------------------
(* What the comments and tests say and the code does not do. *)

(* "subscription.deleted must also revoke the license ... a canceled         *)
(* customer's license permanently valid": when every event is answered, a    *)
(* user whose subscriptions are all canceled has no license.                 *)
CanceledHasNoLicense ==
  Settled => \A u \in User : (\A s \in RowsOf(u) : Last(s) = "canceled") => licenses[u] = 0

(* "By the time this webhook fires, the mapping already exists and this      *)
(* lookup is never racing against it": with two tabs it need not.            *)
PaidIsMapped == \A u \in User : Lost(u) = {}

(* The count before Generate is meant to keep a user at one license; with    *)
(* two deliveries at once it does not.                                       *)
OneLicense == \A u \in User : licenses[u] <= 1

(* A user with an active subscription has a license: not after another one   *)
(* of the same user was canceled, which revokes them all.                    *)
ActiveHasLicense ==
  Settled => \A u \in User : (\E s \in RowsOf(u) : subs[s].status = "active") => licenses[u] > 0

(* "A license implies an active subscription". *)
LicenseImpliesActive ==
  Settled => \A u \in User : licenses[u] > 0 => \E s \in RowsOf(u) : subs[s].status = "active"
=============================================================================

--------------------------- MODULE AccountsProofs ---------------------------
(***************************************************************************)
(* Proofs about Accounts, for any browsers, emails, tokens and requests.   *)
(***************************************************************************)
EXTENDS Accounts, TLAPS

(* The clock starts in its range.                                            *)
LEMMA ZeroIsTime == 0 \in Time
  BY AccountsAssumption DEF Time

(* The record of a request that is not being served.                         *)
LEMMA IdleTyped ==
  Idle \in ReqType /\ Idle.pc = "idle" /\ Idle.token = None /\ Idle.late = FALSE
  BY ZeroIsTime DEF Idle, Steps, ReqType

(* What the consent rule of signup stores is an account.                     *)
LEMMA ConsentIsUser ==
  ASSUME NEW b \in Browser, NEW f \in Form
  PROVE  [password |-> b, phone |-> f.phone, consent |-> Consent(f)] \in User
  BY DEF User, Consent, Form

(* The expiry of a session is a time.                                        *)
LEMMA ExpiryIsTime ==
  ASSUME NEW t \in Nat PROVE ExpiresAt(t) \in Nat
<1> DEFINE end == t + TTL * Second
<1>1. end \in Nat
  BY AccountsAssumption
<1>2. end % Second \in 0 .. (Second - 1) /\ end % Second <= end
  BY <1>1, AccountsAssumption
<1>3. end - (end % Second) \in Nat
  BY <1>1, <1>2, AccountsAssumption
<1> QED BY <1>3 DEF ExpiresAt

(* At the start there is nothing.                                            *)
LEMMA SessionInit == Init => SessionInv
<1> SUFFICES ASSUME Init PROVE SessionInv
  OBVIOUS
<1>1. TypeOK
  BY IdleTyped, AccountsAssumption DEF Init, TypeOK, Time
<1> QED BY <1>1 DEF Init, SessionInv

(* What every step does to the tables: an account stays its owner's, and a   *)
(* session that was issued stays as it is or is deleted.                     *)
Grows ==
  /\ \A e \in Email : users[e] # None => users'[e] = users[e]
  /\ \A t \in Token : issued[t] # None =>
       issued'[t] = issued[t] /\ (sessions'[t] = sessions[t] \/ sessions'[t] = None)
  /\ ended \subseteq ended'

(* Under such a step a browser keeps the right to its token ...              *)
LEMMA HolderStays ==
  ASSUME TypeOK, Grows, NEW CONSTANT b, NEW CONSTANT t \in Token, Holder(b, t)
  PROVE  Holder(b, t)'
<1>1. sessions[t] # None => sessions[t].email \in Email
  BY DEF TypeOK, Session
<1> QED BY <1>1 DEF Holder, Grows, Owns

(* ... and a request that is not touched stays right.                        *)
LEMMA RightStays ==
  ASSUME TypeOK, Grows, NEW CONSTANT q, Right(q)
  PROVE  Right(q)'
<1>1. q.token # None => q.token \in Token
  BY DEF Right, ReqType
<1>2. q.token # None => Holder(q.browser, q.token)'
  BY <1>1, HolderStays DEF Right
<1>3. q.pc \in {"session", "insert", "expiry", "serve"} => Owns(q.browser, q.email)'
  BY DEF Right, Grows, Owns
<1> QED BY <1>2, <1>3 DEF Right, Grows

(* A step keeps the invariant if what it writes is right.                    *)
LEMMA StepKeeps ==
  ASSUME SessionInv, Grows, TypeOK',
         \A b \in Browser : cookie'[b] \in {cookie[b], None} \/ Holder(b, cookie[b])',
         \A r \in Request : req'[r] \in {req[r], Idle} \/ Right(req[r])',
         \A t \in Token : issued'[t] = None => sessions'[t] = None,
         \A t \in ended' : sessions'[t] = None /\ issued'[t] # None
  PROVE  SessionInv'
<1>1. ASSUME NEW b \in Browser, cookie'[b] = cookie[b], cookie[b] # None
      PROVE  Holder(b, cookie[b])'
  <2>1. PICK t \in Token : t = cookie[b]
    BY <1>1 DEF SessionInv, TypeOK
  <2>2. Holder(b, t)
    BY <1>1, <2>1 DEF SessionInv
  <2>3. Holder(b, t)'
    BY <2>2, HolderStays DEF SessionInv
  <2> QED BY <1>1, <2>1, <2>3 DEF Holder
<1>2. ASSUME NEW r \in Request, req'[r] = req[r] PROVE (req[r] = Idle \/ Right(req[r]))'
  <2>1. CASE req[r] = Idle
    BY <1>2, <2>1 DEF Idle
  <2>2. CASE Right(req[r])
    <3>1. PICK q : q = req[r]
      OBVIOUS
    <3>2. Right(q)'
      BY <2>2, <3>1, RightStays DEF SessionInv
    <3> QED BY <1>2, <3>1, <3>2
  <2> QED BY <2>1, <2>2 DEF SessionInv
<1>3. \A r \in Request : req'[r] = Idle => (req[r] = Idle)'
  BY DEF Idle
<1> QED BY <1>1, <1>2, <1>3 DEF SessionInv

(* A request that ends keeps it.                                             *)
LEMMA EndKeeps ==
  ASSUME SessionInv, NEW r \in Request, End(r),
         UNCHANGED <<now, users, sessions, issued, ended>>,
         cookie' \in [Browser -> Token \cup {None}],
         \A b \in Browser : cookie'[b] \in {cookie[b], None}
  PROVE  SessionInv'
<1>1. TypeOK'
  BY IdleTyped DEF SessionInv, TypeOK, End
<1>2. Grows
  BY DEF Grows
<1>3. \A p \in Request : req'[p] \in {req[p], Idle}
  BY DEF End, SessionInv, TypeOK
<1> QED BY <1>1, <1>2, <1>3, StepKeeps DEF SessionInv

(* A request that takes one step keeps it if it is right afterwards.         *)
LEMMA StepOne ==
  ASSUME SessionInv, NEW r \in Request, NEW CONSTANT q, req' = [req EXCEPT ![r] = q], Right(q),
         UNCHANGED <<now, users, sessions, cookie, issued, ended>>
  PROVE  SessionInv'
<1>1. TypeOK'
  BY DEF SessionInv, TypeOK, Right
<1>2. Grows
  BY DEF Grows
<1>3. Right(q)'
  BY <1>2, RightStays DEF SessionInv
<1>4. req'[r] = q /\ \A p \in Request \ {r} : req'[p] = req[p]
  BY DEF SessionInv, TypeOK
<1>5. \A p \in Request : req'[p] \in {req[p], Idle} \/ Right(req[p])'
  BY <1>3, <1>4
<1> QED BY <1>1, <1>2, <1>5, StepKeeps DEF SessionInv

(* A form posted to /signup or /login, or a page behind RequireAuth.         *)
LEMMA ArriveKeeps ==
  ASSUME SessionInv, NEW r \in Request, NEW b \in Browser, Arrive(r, b)
  PROVE  SessionInv'
<1>1. ASSUME NEW e \in Email, PostLogin(r, b, e) PROVE SessionInv'
  <2>1. PICK q : q = [Idle EXCEPT !.pc = "verify", !.browser = b, !.email = e]
    OBVIOUS
  <2>2. Right(q)
    BY <2>1, ZeroIsTime DEF Right, ReqType, Steps, Idle
  <2> QED BY <1>1, <2>1, <2>2, StepOne DEF PostLogin, Begin
<1>2. ASSUME NEW e \in Email, NEW f \in Form, PostSignup(r, b, e, f) PROVE SessionInv'
  <2>1. PICK q : q = [Idle EXCEPT !.pc = "create", !.browser = b, !.email = e, !.form = f]
    OBVIOUS
  <2>2. Right(q)
    BY <2>1, ZeroIsTime DEF Right, ReqType, Steps, Idle
  <2> QED BY <1>2, <2>1, <2>2, StepOne DEF PostSignup, Begin
<1>3. ASSUME NEW logout \in BOOLEAN, Get(r, b, logout) PROVE SessionInv'
  <2>1. PICK t \in Token : t = cookie[b] /\ Holder(b, t)
    BY <1>3 DEF SessionInv, TypeOK, Get
  <2>2. PICK late \in BOOLEAN : late = (t \in ended)
    <3>1. (t \in ended) \in BOOLEAN
      OBVIOUS
    <3> WITNESS (t \in ended) \in BOOLEAN
    <3> QED OBVIOUS
  <2>3. PICK q : q = [Idle EXCEPT !.pc = "select", !.browser = b, !.token = t,
                                  !.logout = logout, !.late = late]
    OBVIOUS
  <2>4. /\ q \in ReqType /\ q.pc = "select" /\ q.browser = b /\ q.token = t /\ q.late = late
    BY <2>3, ZeroIsTime DEF ReqType, Steps, Idle
  <2>5. Right(q)
    BY <2>1, <2>2, <2>4 DEF Right
  <2> QED BY <1>3, <2>1, <2>2, <2>3, <2>5, StepOne DEF Get, Begin
<1> QED BY <1>1, <1>2, <1>3 DEF Arrive

(* The account is created, or the email is taken and the request ends.       *)
LEMMA CreateUserKeeps ==
  ASSUME SessionInv, NEW r \in Request, CreateUserWithConsent(r)
  PROVE  SessionInv'
<1>1. PICK q : q = req[r]
  OBVIOUS
<1>2. Right(q) /\ q.pc = "create"
  BY <1>1 DEF SessionInv, CreateUserWithConsent, At, Idle
<1>3. q \in ReqType /\ q.browser \in Browser /\ q.email \in Email /\ q.form \in Form
  BY <1>2 DEF Right
<1>4. CASE users[q.email] # None
  BY <1>1, <1>4, EndKeeps DEF CreateUserWithConsent, SessionInv, TypeOK
<1>5. CASE users[q.email] = None
  <2>1. PICK u : u = [password |-> q.browser, phone |-> q.form.phone, consent |-> Consent(q.form)]
    OBVIOUS
  <2>2. u \in User /\ u # None /\ u.password = q.browser
    BY <1>3, <2>1, ConsentIsUser, AccountsAssumption
  <2>3. PICK p : p = [q EXCEPT !.pc = "session", !.form = None]
    OBVIOUS
  <2>4. users' = [users EXCEPT ![q.email] = u] /\ req' = [req EXCEPT ![r] = p]
    BY <1>1, <1>5, <2>1, <2>3 DEF CreateUserWithConsent
  <2>5. p \in ReqType /\ p.pc = "session" /\ p.browser = q.browser /\ p.email = q.email
         /\ p.token = q.token /\ p.late = q.late
    BY <1>3, <2>3 DEF ReqType, Steps
  <2>6. TypeOK'
    BY <2>2, <2>4, <2>5 DEF SessionInv, TypeOK, CreateUserWithConsent
  <2>7. Grows
    BY <1>5, <2>4 DEF Grows, CreateUserWithConsent
  <2>8. Right(q)'
    BY <1>2, <2>7, RightStays DEF SessionInv
  <2>9. Owns(p.browser, p.email)'
    BY <1>3, <2>2, <2>4, <2>5 DEF Owns, SessionInv, TypeOK
  <2>10. Right(p)'
    BY <1>2, <2>5, <2>8, <2>9 DEF Right
  <2>11. \A i \in Request : req'[i] \in {req[i], Idle} \/ Right(req[i])'
    BY <2>4, <2>10 DEF SessionInv, TypeOK
  <2> QED BY <2>6, <2>7, <2>11, StepKeeps DEF SessionInv, CreateUserWithConsent
<1> QED BY <1>4, <1>5

(* Only the owner of the account passes the check of the password.           *)
LEMMA VerifyKeeps ==
  ASSUME SessionInv, NEW r \in Request, VerifyPassword(r)
  PROVE  SessionInv'
<1>1. PICK q : q = req[r]
  OBVIOUS
<1>2. Right(q) /\ q.pc = "verify"
  BY <1>1 DEF SessionInv, VerifyPassword, At, Idle
<1>3. CASE End(r)
  BY <1>3, EndKeeps DEF VerifyPassword, SessionInv, TypeOK
<1>4. CASE users[q.email] # None /\ users[q.email].password = q.browser
  <2>1. PICK p : p = [q EXCEPT !.pc = "session"]
    OBVIOUS
  <2>2. req' = [req EXCEPT ![r] = p]
    BY <1>1, <1>4, <2>1 DEF VerifyPassword, Goto, SessionInv, TypeOK
  <2>3. p \in ReqType /\ p.pc = "session" /\ p.browser = q.browser /\ p.email = q.email
         /\ p.token = q.token /\ p.late = q.late
    BY <1>2, <2>1 DEF Right, ReqType, Steps
  <2>4. Right(p)
    BY <1>2, <1>4, <2>3 DEF Right, Owns
  <2> QED BY <2>2, <2>4, StepOne DEF VerifyPassword
<1> QED BY <1>1, <1>3, <1>4 DEF VerifyPassword

(* The clock is read for a session.                                          *)
LEMMA ReadClockKeeps ==
  ASSUME SessionInv, NEW r \in Request, ReadClock(r)
  PROVE  SessionInv'
<1>1. PICK q : q = req[r]
  OBVIOUS
<1>2. Right(q) /\ q.pc = "session"
  BY <1>1 DEF SessionInv, ReadClock, At, Idle
<1>3. PICK p : p = [q EXCEPT !.pc = "insert", !.clock = now]
  OBVIOUS
<1>4. now \in Time
  BY DEF SessionInv, TypeOK
<1>5. /\ p \in ReqType /\ p.pc = "insert" /\ p.browser = q.browser /\ p.email = q.email
      /\ p.token = q.token /\ p.late = q.late
  BY <1>2, <1>3, <1>4 DEF Right, ReqType, Steps
<1>6. Right(p)
  BY <1>2, <1>5 DEF Right
<1>7. req' = [req EXCEPT ![r] = p]
  BY <1>1, <1>3 DEF ReadClock, SessionInv, TypeOK
<1> QED BY <1>6, <1>7, StepOne DEF ReadClock

(* A session is created with a token nobody knows.                           *)
LEMMA CreateSessionKeeps ==
  ASSUME SessionInv, NEW r \in Request, NEW t \in Token, CreateSession(r, t)
  PROVE  SessionInv'
<1>1. PICK q : q = req[r]
  OBVIOUS
<1>2. Right(q) /\ q.pc = "insert"
  BY <1>1 DEF SessionInv, CreateSession, At, Idle
<1>3. q.browser \in Browser /\ q.email \in Email /\ Owns(q.browser, q.email) /\ q.clock \in Time
  BY <1>2 DEF Right, ReqType
<1>4. PICK s : s = [email |-> q.email, expires |-> ExpiresAt(q.clock)]
  OBVIOUS
<1>5. s \in Session /\ s.email = q.email
  BY <1>3, <1>4, ExpiryIsTime DEF Session, Time
<1>6. PICK p : p = [Idle EXCEPT !.pc = "answer", !.browser = q.browser, !.token = t]
  OBVIOUS
<1>7. p \in ReqType /\ p.pc = "answer" /\ p.browser = q.browser /\ p.token = t /\ p.late = FALSE
  BY <1>3, <1>6, IdleTyped DEF ReqType, Steps, Idle
<1>8. sessions' = [sessions EXCEPT ![t] = s] /\ req' = [req EXCEPT ![r] = p]
       /\ issued' = [issued EXCEPT ![t] = q.clock] /\ issued[t] = None
  BY <1>1, <1>4, <1>6 DEF CreateSession
<1>9. TypeOK'
  BY <1>3, <1>5, <1>7, <1>8 DEF SessionInv, TypeOK, CreateSession
<1>10. Grows
  BY <1>8 DEF Grows, CreateSession, SessionInv, TypeOK
<1>11. q.clock # None
  BY <1>3, AccountsAssumption DEF Time
<1>12. issued'[t] # None /\ sessions'[t] = s /\ t \notin ended
  BY <1>8, <1>11 DEF SessionInv, TypeOK
<1>13. Owns(q.browser, q.email)'
  BY <1>3 DEF Owns, CreateSession
<1>14. Holder(q.browser, t)'
  BY <1>5, <1>12, <1>13 DEF Holder
<1>15. Right(p)'
  BY <1>3, <1>7, <1>14 DEF Right
<1>16. \A i \in Request : req'[i] \in {req[i], Idle} \/ Right(req[i])'
  BY <1>8, <1>15 DEF SessionInv, TypeOK
<1>17. \A i \in Token : issued'[i] = None => sessions'[i] = None
  BY <1>8, <1>12 DEF SessionInv, TypeOK
<1>18. \A i \in ended' : sessions'[i] = None /\ issued'[i] # None
  BY <1>8, <1>12 DEF SessionInv, TypeOK, CreateSession
<1> QED BY <1>9, <1>10, <1>16, <1>17, <1>18, StepKeeps DEF CreateSession

(* The cookie is set to the token the answer holds.                          *)
LEMMA SetCookieKeeps ==
  ASSUME SessionInv, NEW r \in Request, SetCookie(r)
  PROVE  SessionInv'
<1>1. PICK q : q = req[r]
  OBVIOUS
<1>2. Right(q) /\ q.pc = "answer"
  BY <1>1 DEF SessionInv, SetCookie, At, Idle
<1>3. q.browser \in Browser /\ q.token \in Token /\ q.token # None
  BY <1>2, AccountsAssumption DEF Right
<1>4. cookie' = [cookie EXCEPT ![q.browser] = q.token]
  BY <1>1 DEF SetCookie
<1>5. TypeOK'
  BY <1>3, <1>4, IdleTyped DEF SessionInv, TypeOK, SetCookie, End
<1>6. Grows
  BY DEF Grows, SetCookie
<1>7. Holder(q.browser, q.token)'
  BY <1>2, <1>3, <1>6, HolderStays DEF Right, SessionInv
<1>8. \A b \in Browser : cookie'[b] \in {cookie[b], None} \/ Holder(b, cookie[b])'
  BY <1>4, <1>7 DEF SessionInv, TypeOK
<1>9. \A p \in Request : req'[p] \in {req[p], Idle}
  BY DEF SetCookie, End, SessionInv, TypeOK
<1> QED BY <1>5, <1>6, <1>8, <1>9, StepKeeps DEF SessionInv, SetCookie

(* The row of the token names the account of the browser that sent it.       *)
LEMMA SelectKeeps ==
  ASSUME SessionInv, NEW r \in Request, SelectSession(r)
  PROVE  SessionInv'
<1>1. PICK q : q = req[r]
  OBVIOUS
<1>2. Right(q) /\ q.pc = "select"
  BY <1>1 DEF SessionInv, SelectSession, At, Idle
<1>3. PICK s : s = sessions[q.token]
  OBVIOUS
<1>4. CASE s = None
  BY <1>1, <1>3, <1>4, EndKeeps DEF SelectSession, SessionInv, TypeOK
<1>5. CASE s # None
  <2>1. q.token \in Token /\ q.token # None /\ Holder(q.browser, q.token)
    BY <1>2, AccountsAssumption DEF Right
  <2>2. s \in Session /\ s.email \in Email /\ s.expires \in Nat /\ Owns(q.browser, s.email)
    BY <1>3, <1>5, <2>1 DEF SessionInv, TypeOK, Holder, Session
  <2>3. q.late = FALSE
    BY <1>2, <1>3, <1>5, <2>1 DEF SessionInv, Right, ReqType
  <2>4. PICK p : p = [q EXCEPT !.pc = "expiry", !.email = s.email, !.expires = s.expires]
    OBVIOUS
  <2>5. p \in ReqType /\ p.pc = "expiry" /\ p.browser = q.browser /\ p.email = s.email
         /\ p.token = q.token /\ p.late = q.late
    BY <1>2, <2>2, <2>4 DEF Right, ReqType, Steps
  <2>6. Right(p)
    BY <1>2, <2>1, <2>2, <2>3, <2>5 DEF Right
  <2>7. req' = [req EXCEPT ![r] = p]
    BY <1>1, <1>3, <1>5, <2>4 DEF SelectSession
  <2> QED BY <2>6, <2>7, StepOne DEF SelectSession
<1> QED BY <1>4, <1>5

(* A session in its time lets the request through.                           *)
LEMMA ExpiryKeeps ==
  ASSUME SessionInv, NEW r \in Request, CheckExpiry(r)
  PROVE  SessionInv'
<1>1. PICK q : q = req[r]
  OBVIOUS
<1>2. Right(q) /\ q.pc = "expiry"
  BY <1>1 DEF SessionInv, CheckExpiry, At, Idle
<1>3. CASE End(r)
  BY <1>3, EndKeeps DEF CheckExpiry, SessionInv, TypeOK
<1>4. CASE Goto(r, "serve")
  <2>1. PICK p : p = [q EXCEPT !.pc = "serve"]
    OBVIOUS
  <2>2. req' = [req EXCEPT ![r] = p]
    BY <1>1, <1>4, <2>1 DEF Goto, SessionInv, TypeOK
  <2>3. p \in ReqType /\ p.pc = "serve" /\ p.browser = q.browser /\ p.email = q.email
         /\ p.token = q.token /\ p.late = q.late
    BY <1>2, <2>1 DEF Right, ReqType, Steps
  <2>4. Right(p)
    BY <1>2, <2>3 DEF Right
  <2> QED BY <2>2, <2>4, StepOne DEF CheckExpiry
<1> QED BY <1>3, <1>4 DEF CheckExpiry

(* The logout, whether its DELETE works or not.                              *)
LEMMA LogoutKeeps ==
  ASSUME SessionInv, NEW r \in Request, DeleteSession(r) \/ DeleteSessionFails(r)
  PROVE  SessionInv'
<1>1. PICK q : q = req[r]
  OBVIOUS
<1>2. Right(q) /\ q.pc = "serve" /\ Goto(r, "clear")
  BY <1>1 DEF SessionInv, DeleteSession, DeleteSessionFails, At, Idle
<1>3. q.browser \in Browser /\ q.token \in Token /\ q.token # None
  BY <1>2, AccountsAssumption DEF Right
<1>4. PICK p : p = [q EXCEPT !.pc = "clear"]
  OBVIOUS
<1>5. req' = [req EXCEPT ![r] = p]
  BY <1>1, <1>2, <1>4 DEF Goto, SessionInv, TypeOK
<1>6. p \in ReqType /\ p.pc = "clear" /\ p.browser = q.browser /\ p.email = q.email
       /\ p.token = q.token /\ p.late = q.late
  BY <1>2, <1>4 DEF Right, ReqType, Steps
<1>7. Right(p)
  BY <1>2, <1>6 DEF Right
<1>8. CASE DeleteSessionFails(r)
  BY <1>5, <1>7, <1>8, StepOne DEF DeleteSessionFails
<1>9. CASE DeleteSession(r)
  <2>1. sessions' = [sessions EXCEPT ![q.token] = None] /\ ended' = ended \cup {q.token}
    BY <1>1, <1>9 DEF DeleteSession
  <2>2. TypeOK'
    BY <1>3, <1>5, <1>6, <1>9, <2>1 DEF SessionInv, TypeOK, DeleteSession
  <2>3. Grows
    BY <1>9, <2>1 DEF Grows, DeleteSession, SessionInv, TypeOK
  <2>4. Right(p)'
    BY <1>7, <2>3, RightStays DEF SessionInv
  <2>5. \A i \in Request : req'[i] \in {req[i], Idle} \/ Right(req[i])'
    BY <1>5, <2>4 DEF SessionInv, TypeOK
  <2>6. issued[q.token] # None
    BY <1>2, <1>3 DEF Right, Holder
  <2>7. \A i \in ended' : sessions'[i] = None /\ issued'[i] # None
    BY <1>3, <1>9, <2>1, <2>6 DEF DeleteSession, SessionInv, TypeOK
  <2>8. \A i \in Token : issued'[i] = None => sessions'[i] = None
    BY <1>9, <2>1 DEF DeleteSession, SessionInv, TypeOK
  <2> QED BY <1>9, <2>2, <2>3, <2>5, <2>7, <2>8, StepKeeps DEF DeleteSession
<1> QED BY <1>8, <1>9

(* The answer of a logout clears the cookie.                                 *)
LEMMA ClearCookieKeeps ==
  ASSUME SessionInv, NEW r \in Request, ClearCookie(r)
  PROVE  SessionInv'
<1>1. cookie' \in [Browser -> Token \cup {None}] /\ \A b \in Browser : cookie'[b] \in {cookie[b], None}
  BY DEF ClearCookie, SessionInv, TypeOK
<1> QED BY <1>1, EndKeeps DEF ClearCookie

(* Cookies that are dropped and the clock.                                   *)
LEMMA OutsideKeeps ==
  ASSUME SessionInv, (\E b \in Browser : DropCookie(b)) \/ Tick \/ UNCHANGED vars
  PROVE  SessionInv'
<1>1. TypeOK'
  BY AccountsAssumption DEF SessionInv, TypeOK, Time, DropCookie, Tick, vars
<1>2. Grows
  BY DEF Grows, DropCookie, Tick, vars
<1>3. \A b \in Browser : cookie'[b] \in {cookie[b], None}
  BY DEF SessionInv, TypeOK, DropCookie, Tick, vars
<1>4. UNCHANGED <<req, sessions, issued, ended>>
  BY DEF DropCookie, Tick, vars
<1> QED BY <1>1, <1>2, <1>3, <1>4, StepKeeps DEF SessionInv

(* Every step.                                                               *)
LEMMA SessionNext == SessionInv /\ [Next]_vars => SessionInv'
<1> SUFFICES ASSUME SessionInv, [Next]_vars PROVE SessionInv'
  OBVIOUS
<1>1. ASSUME NEW r \in Request, Handle(r) PROVE SessionInv'
  <2>1. CASE CreateUserWithConsent(r)
    BY <2>1, CreateUserKeeps
  <2>2. CASE VerifyPassword(r)
    BY <2>2, VerifyKeeps
  <2>c. CASE ReadClock(r)
    BY <2>c, ReadClockKeeps
  <2>3. ASSUME NEW t \in Token, CreateSession(r, t) PROVE SessionInv'
    BY <2>3, CreateSessionKeeps
  <2>4. CASE SetCookie(r)
    BY <2>4, SetCookieKeeps
  <2>5. CASE SelectSession(r)
    BY <2>5, SelectKeeps
  <2>6. CASE CheckExpiry(r)
    BY <2>6, ExpiryKeeps
  <2>7. CASE ServePage(r)
    BY <2>7, EndKeeps DEF ServePage, SessionInv, TypeOK
  <2>8. CASE DeleteSession(r) \/ DeleteSessionFails(r)
    BY <2>8, LogoutKeeps
  <2>9. CASE ClearCookie(r)
    BY <2>9, ClearCookieKeeps
  <2>10. CASE Fail(r)
    BY <2>10, EndKeeps DEF Fail, SessionInv, TypeOK
  <2> QED BY <1>1, <2>1, <2>2, <2>c, <2>3, <2>4, <2>5, <2>6, <2>7, <2>8, <2>9, <2>10 DEF Handle
<1>2. ASSUME NEW r \in Request, NEW b \in Browser, Arrive(r, b) PROVE SessionInv'
  BY <1>2, ArriveKeeps
<1>3. CASE (\E b \in Browser : DropCookie(b)) \/ Tick \/ UNCHANGED vars
  BY <1>3, OutsideKeeps
<1> QED BY <1>1, <1>2, <1>3 DEF Next

-----------------------------------------------------------------------------
(* The inductive invariant of the sessions.                                  *)
THEOREM SessionsSafe == Spec => []SessionInv
<1> QED BY SessionInit, SessionNext, PTL DEF Spec

(* However signups, logins and logouts race and fail, RequireAuth takes a    *)
(* request only for the account of the browser it comes from, and no browser *)
(* holds the session of another's account.                                   *)
THEOREM SessionsAreOwned == Spec => []ServedToOwner
<1>1. SessionInv => ServedToOwner
  <2> SUFFICES ASSUME SessionInv PROVE ServedToOwner
    OBVIOUS
  <2>1. ASSUME NEW r \in Request, At(r, "serve") PROVE Owns(req[r].browser, req[r].email)
    BY <2>1 DEF SessionInv, At, Idle, Right
  <2>2. ASSUME NEW b \in Browser, cookie[b] # None, sessions[cookie[b]] # None
        PROVE  Owns(b, sessions[cookie[b]].email)
    BY <2>2 DEF SessionInv, Holder
  <2> QED BY <2>1, <2>2 DEF ServedToOwner
<1> QED BY <1>1, SessionsSafe, PTL

(* A session that a logout has deleted gets no later request past            *)
(* RequireAuth.                                                              *)
THEOREM LogoutIsFinal == Spec => []LoggedOutIsOut
<1>1. SessionInv => LoggedOutIsOut
  BY DEF SessionInv, LoggedOutIsOut, Idle, Right
<1> QED BY <1>1, SessionsSafe, PTL

(* Every variable keeps its type, for any number of browsers and requests.   *)
THEOREM AccountsTypeCorrect == Spec => []TypeOK
<1>1. SessionInv => TypeOK
  BY DEF SessionInv
<1> QED BY <1>1, SessionsSafe, PTL

-----------------------------------------------------------------------------
(* The expiry in a session's row, and in a request that has read it, is that *)
(* of the moment the clock was read for it.                                  *)
Fits(t, expires) == t \in Token /\ issued[t] \in Nat /\ expires = ExpiresAt(issued[t])

Dated ==
  /\ \A t \in Token : sessions[t] # None => Fits(t, sessions[t].expires)
  /\ \A r \in Request : At(r, "expiry") => Fits(req[r].token, req[r].expires)

(* The date of a session does not change.                                    *)
LEMMA FitsStays ==
  ASSUME NEW CONSTANT t, NEW CONSTANT x, Fits(t, x),
         \A i \in Token : issued[i] # None => issued'[i] = issued[i]
  PROVE  Fits(t, x)'
<1>1. issued[t] # None
  BY AccountsAssumption DEF Fits
<1> QED BY <1>1 DEF Fits, ExpiresAt

(* A step keeps the dates if what it writes is dated.                        *)
LEMMA DatedKeeps ==
  ASSUME TypeOK, Dated,
         \A i \in Token : issued[i] # None => issued'[i] = issued[i],
         \A t \in Token : sessions'[t] \in {sessions[t], None} \/ Fits(t, sessions[t].expires)',
         \A r \in Request : req'[r] = req[r] \/ req'[r].pc # "expiry"
                              \/ Fits(req[r].token, req[r].expires)'
  PROVE  Dated'
<1>1. ASSUME NEW t \in Token, sessions'[t] # None PROVE Fits(t, sessions[t].expires)'
  <2>1. CASE sessions'[t] = sessions[t]
    <3>1. PICK x : x = sessions[t].expires
      OBVIOUS
    <3>2. Fits(t, x)
      BY <1>1, <2>1, <3>1 DEF Dated
    <3>3. Fits(t, x)'
      BY <3>2, FitsStays
    <3> QED BY <2>1, <3>1, <3>3
  <2> QED BY <1>1, <2>1
<1>2. ASSUME NEW r \in Request, req'[r].pc = "expiry"
      PROVE  Fits(req[r].token, req[r].expires)'
  <2>1. CASE req'[r] = req[r]
    <3>1. PICK t, x : t = req[r].token /\ x = req[r].expires
      OBVIOUS
    <3>2. Fits(t, x)
      BY <1>2, <2>1, <3>1 DEF Dated, At
    <3>3. Fits(t, x)'
      BY <3>2, FitsStays
    <3> QED BY <2>1, <3>1, <3>3
  <2> QED BY <1>2, <2>1
<1> QED BY <1>1, <1>2 DEF Dated, At

(* A new session is dated by the clock, which was read for it.               *)
LEMMA CreateDated ==
  ASSUME SessionInv, Dated, NEW r \in Request, NEW t \in Token, CreateSession(r, t)
  PROVE  Dated'
<1>c. PICK c : c = req[r].clock
  OBVIOUS
<1>1. c \in Nat /\ TypeOK
  BY <1>c DEF SessionInv, TypeOK, Time, ReqType
<1>2. issued'[t] = c /\ sessions'[t].expires = ExpiresAt(c)
  BY <1>1, <1>c DEF CreateSession, TypeOK
<1>3. Fits(t, sessions[t].expires)'
  BY <1>1, <1>2 DEF Fits, ExpiresAt
<1>4. \A i \in Token : i # t => sessions'[i] = sessions[i]
  BY <1>1 DEF CreateSession, TypeOK
<1>5. \A i \in Token : issued[i] # None => issued'[i] = issued[i]
  BY <1>1 DEF CreateSession, TypeOK
<1>6. \A q \in Request : req'[q] = req[q] \/ req'[q].pc # "expiry"
  BY <1>1 DEF CreateSession, TypeOK, Idle
<1>7. \A i \in Token : sessions'[i] \in {sessions[i], None} \/ Fits(i, sessions[i].expires)'
  BY <1>3, <1>4
<1> QED BY <1>1, <1>5, <1>6, <1>7, DatedKeeps

(* A request takes the date of the row it reads.                             *)
LEMMA SelectDated ==
  ASSUME SessionInv, Dated, NEW r \in Request, SelectSession(r)
  PROVE  Dated'
<1>1. TypeOK
  BY DEF SessionInv
<1>2. PICK t, s : t = req[r].token /\ s = sessions[t]
  OBVIOUS
<1>3. t \in Token
  BY <1>2 DEF SessionInv, SelectSession, At, Right, Idle
<1>4. CASE s = None
  <2>1. \A q \in Request : req'[q] = req[q] \/ req'[q].pc # "expiry"
    BY <1>1, <1>2, <1>4 DEF SelectSession, End, Idle, TypeOK
  <2> QED BY <1>1, <2>1, DatedKeeps DEF SelectSession
<1>5. CASE s # None
  <2>1. Fits(t, s.expires)
    BY <1>2, <1>3, <1>5 DEF Dated
  <2>2. Fits(t, s.expires)'
    BY <2>1, FitsStays DEF SelectSession
  <2>3. PICK q : q = [req[r] EXCEPT !.pc = "expiry", !.email = s.email, !.expires = s.expires]
    OBVIOUS
  <2>4. req[r] \in ReqType
    BY <1>1 DEF TypeOK
  <2>5. q.token = t /\ q.expires = s.expires
    BY <1>2, <2>3, <2>4 DEF ReqType
  <2>6. req' = [req EXCEPT ![r] = q]
    BY <1>1, <1>2, <1>5, <2>3 DEF SelectSession, TypeOK
  <2>7. req'[r] = q /\ \A p \in Request : p # r => req'[p] = req[p]
    BY <1>1, <2>6 DEF TypeOK
  <2>8. Fits(req[r].token, req[r].expires)'
    BY <2>2, <2>5, <2>7
  <2>9. \A p \in Request : req'[p] = req[p] \/ req'[p].pc # "expiry"
                             \/ Fits(req[p].token, req[p].expires)'
    BY <2>7, <2>8
  <2> QED BY <1>1, <2>9, DatedKeeps DEF SelectSession
<1> QED BY <1>4, <1>5

(* Every other step leaves the dates alone: no request of it gets to the     *)
(* clock, and no row of it changes but to go.                                *)
LEMMA RestDated ==
  ASSUME TypeOK, Dated,
         UNCHANGED issued,
         \A t \in Token : sessions'[t] \in {sessions[t], None},
         \A r \in Request : req'[r] = req[r] \/ req'[r].pc # "expiry"
  PROVE  Dated'
BY DatedKeeps

LEMMA DatedNext == SessionInv /\ Dated /\ [Next]_vars => Dated'
<1> SUFFICES ASSUME SessionInv, Dated, [Next]_vars PROVE Dated'
  OBVIOUS
<1>1. TypeOK
  BY DEF SessionInv
<1>2. ASSUME NEW r \in Request, Handle(r) PROVE Dated'
  <2>1. CASE CreateUserWithConsent(r)
    <3>1. PICK q : q = [req[r] EXCEPT !.pc = "session", !.form = None]
      OBVIOUS
    <3>2. req[r] \in ReqType /\ q.pc = "session" /\ Idle.pc = "idle"
      BY <1>1, <3>1 DEF TypeOK, ReqType, Idle
    <3>3. req' = [req EXCEPT ![r] = q] \/ req' = [req EXCEPT ![r] = Idle]
      BY <2>1, <3>1 DEF CreateUserWithConsent, End
    <3>4. \A p \in Request : req'[p] = req[p] \/ req'[p].pc # "expiry"
      BY <1>1, <3>2, <3>3 DEF TypeOK
    <3> QED BY <1>1, <2>1, <3>4, RestDated DEF CreateUserWithConsent
  <2>2. CASE VerifyPassword(r)
    <3>1. \A q \in Request : req'[q] = req[q] \/ req'[q].pc # "expiry"
      BY <1>1, <2>2 DEF VerifyPassword, Goto, End, Idle, TypeOK, ReqType
    <3> QED BY <1>1, <2>2, <3>1, RestDated DEF VerifyPassword
  <2>c. CASE ReadClock(r)
    <3>1. \A q \in Request : req'[q] = req[q] \/ req'[q].pc # "expiry"
      BY <1>1, <2>c DEF ReadClock, TypeOK, ReqType
    <3> QED BY <1>1, <2>c, <3>1, RestDated DEF ReadClock
  <2>3. ASSUME NEW t \in Token, CreateSession(r, t) PROVE Dated'
    BY <2>3, CreateDated
  <2>4. CASE SetCookie(r) \/ ServePage(r) \/ ClearCookie(r) \/ Fail(r)
    <3>1. \A q \in Request : req'[q] = req[q] \/ req'[q].pc # "expiry"
      BY <1>1, <2>4 DEF SetCookie, ServePage, ClearCookie, Fail, End, Idle, TypeOK
    <3>2. UNCHANGED <<issued, sessions>>
      BY <2>4 DEF SetCookie, ServePage, ClearCookie, Fail
    <3> QED BY <1>1, <3>1, <3>2, RestDated
  <2>5. CASE SelectSession(r)
    BY <2>5, SelectDated
  <2>6. CASE CheckExpiry(r)
    <3>1. \A q \in Request : req'[q] = req[q] \/ req'[q].pc # "expiry"
      BY <1>1, <2>6 DEF CheckExpiry, Goto, End, Idle, TypeOK, ReqType
    <3> QED BY <1>1, <2>6, <3>1, RestDated DEF CheckExpiry
  <2>7. CASE DeleteSession(r) \/ DeleteSessionFails(r)
    <3>1. \A q \in Request : req'[q] = req[q] \/ req'[q].pc # "expiry"
      BY <1>1, <2>7 DEF DeleteSession, DeleteSessionFails, Goto, TypeOK, ReqType
    <3>2. \A t \in Token : sessions'[t] \in {sessions[t], None}
      BY <1>1, <2>7 DEF DeleteSession, DeleteSessionFails, TypeOK
    <3>3. UNCHANGED issued
      BY <2>7 DEF DeleteSession, DeleteSessionFails
    <3> QED BY <1>1, <3>1, <3>2, <3>3, RestDated
  <2> QED BY <1>2, <2>1, <2>2, <2>c, <2>3, <2>4, <2>5, <2>6, <2>7 DEF Handle
<1>3. ASSUME NEW r \in Request, NEW b \in Browser, Arrive(r, b) PROVE Dated'
  <2>1. \A q \in Request : req'[q] = req[q] \/ req'[q].pc # "expiry"
    BY <1>1, <1>3 DEF Arrive, PostLogin, PostSignup, Get, Begin, Idle, TypeOK
  <2>2. UNCHANGED <<issued, sessions>>
    BY <1>3 DEF Arrive, PostLogin, PostSignup, Get
  <2> QED BY <1>1, <2>1, <2>2, RestDated
<1>4. CASE (\E b \in Browser : DropCookie(b)) \/ Tick \/ UNCHANGED vars
  <2>1. UNCHANGED <<issued, sessions, req>>
    BY <1>4 DEF DropCookie, Tick, vars
  <2> QED BY <1>1, <2>1, RestDated
<1> QED BY <1>2, <1>3, <1>4 DEF Next

(* What is cut off the end of a session is less than a second.               *)
LEMMA CutBelowSecond ==
  ASSUME NEW t \in Nat
  PROVE  ExpiresAt(t) \in Nat /\ ExpiresAt(t) <= t + TTL * Second
         /\ t + TTL * Second < ExpiresAt(t) + Second
<1>1. PICK end \in Nat : end = t + TTL * Second
  BY AccountsAssumption
<1>2. end % Second \in 0 .. (Second - 1)
  BY AccountsAssumption
<1>3. ExpiresAt(t) = end - (end % Second) /\ Second \in Nat
  BY <1>1, AccountsAssumption DEF ExpiresAt
<1>4. ExpiresAt(t) \in Nat
  BY ExpiryIsTime
<1>5. ExpiresAt(t) <= end /\ end < ExpiresAt(t) + Second
  BY <1>2, <1>3
<1> QED BY <1>1, <1>4, <1>5

(* RequireAuth accepts no session after its TTL and refuses none for its age *)
(* more than a second before, whatever the resolution of the clock.          *)
THEOREM SessionsLast == Spec => LastsItsTTL
<1>1. Init => Dated
  BY DEF Init, Dated, At, Idle
<1>2. SessionInv /\ Dated /\ [Next]_vars =>
        [\A r \in Request : At(r, "expiry") =>
           LET end == issued[req[r].token] + TTL * Second IN
           /\ req'[r].pc = "serve" => now <= end
           /\ CheckExpiry(r) /\ req'[r] = Idle => now + Second > end]_vars
  <2> SUFFICES ASSUME SessionInv, Dated, Next, NEW r \in Request, At(r, "expiry"),
                      NEW CONSTANT end, end = issued[req[r].token] + TTL * Second
               PROVE  /\ req'[r].pc = "serve" => now <= end
                      /\ CheckExpiry(r) /\ req'[r] = Idle => now + Second > end
    OBVIOUS
  <2>1. PICK t : t = issued[req[r].token]
    OBVIOUS
  <2>2. t \in Nat /\ req[r].expires = ExpiresAt(t) /\ end = t + TTL * Second
    BY <2>1 DEF Dated, Fits
  <2>3. PICK x : x = ExpiresAt(t)
    OBVIOUS
  <2>4. now \in Nat /\ x \in Nat /\ Second \in Nat /\ end \in Nat
    BY <2>2, <2>3, CutBelowSecond, AccountsAssumption DEF SessionInv, TypeOK, Time
  <2>5. x <= end /\ end < x + Second
    BY <2>2, <2>3, CutBelowSecond
  <2>6. ASSUME CheckExpiry(r), req'[r] = Idle PROVE now + Second > end
    <3>1. now > x
      BY <2>2, <2>3, <2>6 DEF CheckExpiry, Goto, Idle, SessionInv, TypeOK, ReqType
    <3> QED BY <2>4, <2>5, <3>1
  <2>7. ASSUME req'[r].pc = "serve" PROVE now <= end
    <3>1. req'[r] # req[r] /\ req'[r] # Idle
      BY <2>7 DEF At, Idle
    <3>2. CheckExpiry(r)
      <4>1. TypeOK
        BY DEF SessionInv
      <4>2. ASSUME NEW p \in Request, p # r, Handle(p) \/ \E b \in Browser : Arrive(p, b)
            PROVE  req'[r] = req[r]
        BY <4>1, <4>2 DEF Handle, Arrive, CreateUserWithConsent, VerifyPassword, ReadClock, CreateSession,
             SetCookie, SelectSession, CheckExpiry, ServePage, DeleteSession, DeleteSessionFails,
             ClearCookie, Fail, PostLogin, PostSignup, Get, Begin, Goto, End, TypeOK
      <4>3. ~\E b \in Browser : Arrive(r, b)
        BY DEF Arrive, PostLogin, PostSignup, Get, Begin, At
      <4>4. CASE Handle(r)
        BY <3>1, <4>1, <4>4 DEF Handle, CreateUserWithConsent, VerifyPassword, ReadClock, CreateSession,
             SetCookie, SelectSession, ServePage, DeleteSession, DeleteSessionFails,
             ClearCookie, Fail, At, End, TypeOK
      <4>5. CASE (\E b \in Browser : DropCookie(b)) \/ Tick
        BY <3>1, <4>5 DEF DropCookie, Tick
      <4> QED BY <3>1, <4>2, <4>3, <4>4, <4>5 DEF Next
    <3>3. ~(now > x)
      BY <2>2, <2>3, <3>1, <3>2 DEF CheckExpiry, End, SessionInv, TypeOK
    <3> QED BY <2>4, <2>5, <3>3
  <2> QED BY <2>6, <2>7
<1>3. QED BY <1>1, <1>2, DatedNext, SessionsSafe, PTL DEF Spec, LastsItsTTL
=============================================================================

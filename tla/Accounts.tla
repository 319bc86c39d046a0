------------------------------ MODULE Accounts ------------------------------
(***************************************************************************)
(* Accounts and sessions of avtool-web (internal/web/auth and the signup,  *)
(* login and logout handlers).  Every request is a goroutine whose SQL     *)
(* statements and answer are steps of their own; a browser may have        *)
(* several requests in flight and takes the answers as they come.          *)
(*                                                                         *)
(* The user of a browser knows one password, which stands for the user:    *)
(* the account of an email belongs to the browser that signed it up.       *)
(***************************************************************************)
EXTENDS Naturals

CONSTANTS Browser,
          Email,    \* as the users table compares them
          Token,    \* session tokens, each drawn once; a hash stands for its token
          Request,  \* requests served at once
          Second,   \* ticks of the clock in a second
          TTL,      \* seconds a session lasts
          MaxTime,  \* bound on the clock
          None

Kinds == {"service", "marketing"}     \* of SMS consent
Time  == 0 .. MaxTime
Form  == [phone : BOOLEAN, ticked : SUBSET Kinds]
User  == {u \in [password : Browser, phone : BOOLEAN, consent : SUBSET Kinds] :
            u.phone \/ u.consent = {}}

ASSUME AccountsAssumption ==
  /\ Second \in Nat \ {0} /\ TTL \in Nat /\ MaxTime \in Nat
  /\ None \notin Browser \cup Email \cup Token \cup User \cup Nat

VARIABLES now,       \* the clock, in ticks
          users,     \* the account of each email
          sessions,  \* the sessions table
          cookie,    \* the session cookie of each browser
          req,       \* the requests in flight
          issued,    \* history: what the clock said for the session of each token
          ended      \* history: the tokens whose session a logout has deleted

vars == <<now, users, sessions, cookie, req, issued, ended>>

Session == [email : Email, expires : Nat]
Idle    == [pc |-> "idle", browser |-> None, email |-> None, token |-> None,
            form |-> None, clock |-> 0, expires |-> 0, logout |-> FALSE, late |-> FALSE]
Steps   == {"idle", "create", "verify", "session", "insert", "answer",
            "select", "expiry", "serve", "clear"}

ReqType == [pc : Steps, browser : Browser \cup {None}, email : Email \cup {None},
            token : Token \cup {None}, form : Form \cup {None},
            clock : Time, expires : Nat, logout : BOOLEAN, late : BOOLEAN]

TypeOK ==
  /\ now      \in Time
  /\ users    \in [Email -> User \cup {None}]
  /\ sessions \in [Token -> Session \cup {None}]
  /\ cookie   \in [Browser -> Token \cup {None}]
  /\ req      \in [Request -> ReqType]
  /\ issued   \in [Token -> Time \cup {None}]
  /\ ended    \in SUBSET Token

Init ==
  /\ now = 0
  /\ users = [e \in Email |-> None]
  /\ sessions = [t \in Token |-> None]
  /\ cookie = [b \in Browser |-> None]
  /\ req = [r \in Request |-> Idle]
  /\ issued = [t \in Token |-> None]
  /\ ended = {}

At(r, pc)   == req[r].pc = pc
Begin(r, q) == At(r, "idle") /\ req' = [req EXCEPT ![r] = q]
Goto(r, pc) == req' = [req EXCEPT ![r].pc = pc]
End(r)      == req' = [req EXCEPT ![r] = Idle]

-----------------------------------------------------------------------------
(* SignupPage. *)

PostSignup(r, b, e, f) ==
  /\ Begin(r, [Idle EXCEPT !.pc = "create", !.browser = b, !.email = e, !.form = f])
  /\ UNCHANGED <<now, users, sessions, cookie, issued, ended>>

(* Mutant: recorded whether there is a number or not. *)
Consent_Always(f) == f.ticked

(* Consent without a number to send to is not recorded. *)
Consent(f) == IF f.phone THEN f.ticked ELSE {}

(* Mutant: an email that has an account is taken for a repeated signup. *)
CreateUserWithConsent_Again(r) ==
  LET q == req[r] IN
  /\ At(r, "create")
  /\ users' = IF users[q.email] # None THEN users
              ELSE [users EXCEPT ![q.email] =
                      [password |-> q.browser, phone |-> q.form.phone, consent |-> Consent(q.form)]]
  /\ req' = [req EXCEPT ![r] = [q EXCEPT !.pc = "session", !.form = None]]
  /\ UNCHANGED <<now, sessions, cookie, issued, ended>>

(* INSERT INTO users; an email that is taken ends the request with the form again. *)
CreateUserWithConsent(r) ==
  LET q == req[r] IN
  /\ At(r, "create")
  /\ IF users[q.email] # None THEN End(r) /\ UNCHANGED users
     ELSE /\ users' = [users EXCEPT ![q.email] =
                [password |-> q.browser, phone |-> q.form.phone, consent |-> Consent(q.form)]]
          /\ req' = [req EXCEPT ![r] = [q EXCEPT !.pc = "session", !.form = None]]
  /\ UNCHANGED <<now, sessions, cookie, issued, ended>>

-----------------------------------------------------------------------------
(* LoginPage. *)

PostLogin(r, b, e) ==
  /\ Begin(r, [Idle EXCEPT !.pc = "verify", !.browser = b, !.email = e])
  /\ UNCHANGED <<now, users, sessions, cookie, issued, ended>>

(* An unknown email and a wrong password end the request alike. *)
VerifyPassword(r) ==
  LET q == req[r] IN
  /\ At(r, "verify")
  /\ IF users[q.email] # None /\ users[q.email].password = q.browser
       THEN Goto(r, "session") ELSE End(r)
  /\ UNCHANGED <<now, users, sessions, cookie, issued, ended>>

-----------------------------------------------------------------------------
(* Sessions: of a signup or login that got this far. *)

(* Mutant: rounded up instead of cut off. *)
ExpiresAt_Rounded(t) == LET end == t + TTL * Second IN end + Second - (end % Second)

(* expires_at is formatted in whole seconds. *)
ExpiresAt(t) == LET end == t + TTL * Second IN end - (end % Second)

(* The clock is read ... *)
ReadClock(r) ==
  /\ At(r, "session")
  /\ req' = [req EXCEPT ![r].pc = "insert", ![r].clock = now]
  /\ UNCHANGED <<now, users, sessions, cookie, issued, ended>>

(* ... before the INSERT, with a token nobody has seen. *)
CreateSession(r, t) ==
  /\ At(r, "insert") /\ issued[t] = None
  /\ sessions' = [sessions EXCEPT ![t] = [email |-> req[r].email, expires |-> ExpiresAt(req[r].clock)]]
  /\ issued'   = [issued EXCEPT ![t] = req[r].clock]
  /\ req'      = [req EXCEPT ![r] = [Idle EXCEPT !.pc = "answer",
                                       !.browser = req[r].browser, !.token = t]]
  /\ UNCHANGED <<now, users, cookie, ended>>

(* The answer reaches the browser. *)
SetCookie(r) ==
  /\ At(r, "answer")
  /\ cookie' = [cookie EXCEPT ![req[r].browser] = req[r].token]
  /\ End(r)
  /\ UNCHANGED <<now, users, sessions, issued, ended>>

-----------------------------------------------------------------------------
(* RequireAuth, in front of dashboard, checkout and logout. *)

Get(r, b, logout) ==
  /\ cookie[b] # None
  /\ Begin(r, [Idle EXCEPT !.pc = "select", !.browser = b, !.token = cookie[b],
                           !.logout = logout, !.late = cookie[b] \in ended])
  /\ UNCHANGED <<now, users, sessions, cookie, issued, ended>>

(* ValidateSession: the row, or the login page ... *)
SelectSession(r) ==
  LET s == sessions[req[r].token] IN
  /\ At(r, "select")
  /\ IF s = None THEN End(r)
     ELSE req' = [req EXCEPT ![r] = [@ EXCEPT !.pc = "expiry", !.email = s.email,
                                              !.expires = s.expires]]
  /\ UNCHANGED <<now, users, sessions, cookie, issued, ended>>

(* ... and the clock, read after the row. *)
CheckExpiry(r) ==
  /\ At(r, "expiry")
  /\ IF now > req[r].expires THEN End(r) ELSE Goto(r, "serve")
  /\ UNCHANGED <<now, users, sessions, cookie, issued, ended>>

(* The handler, with the user in its context. *)
ServePage(r) ==
  /\ At(r, "serve") /\ ~req[r].logout
  /\ End(r)
  /\ UNCHANGED <<now, users, sessions, cookie, issued, ended>>

(* Mutant: looked for by the token instead of its hash. *)
DeleteSession_Raw(r) ==
  /\ At(r, "serve") /\ req[r].logout
  /\ ended' = ended \cup {req[r].token}
  /\ Goto(r, "clear")
  /\ UNCHANGED <<now, users, sessions, cookie, issued>>

(* LogoutHandler: the row is deleted, whether it still exists or not ... *)
DeleteSession(r) ==
  /\ At(r, "serve") /\ req[r].logout
  /\ sessions' = [sessions EXCEPT ![req[r].token] = None]
  /\ ended'    = ended \cup {req[r].token}
  /\ Goto(r, "clear")
  /\ UNCHANGED <<now, users, cookie, issued>>

(* ... or the DELETE fails, which is only logged ... *)
DeleteSessionFails(r) ==
  /\ At(r, "serve") /\ req[r].logout
  /\ Goto(r, "clear")
  /\ UNCHANGED <<now, users, sessions, cookie, issued, ended>>

(* ... and the answer clears the cookie the browser has by now. *)
ClearCookie(r) ==
  /\ At(r, "clear")
  /\ cookie' = [cookie EXCEPT ![req[r].browser] = None]
  /\ End(r)
  /\ UNCHANGED <<now, users, sessions, issued, ended>>

-----------------------------------------------------------------------------
(* A failed statement, a lost answer, the end of the server. *)
Fail(r) ==
  /\ ~At(r, "idle") /\ End(r)
  /\ UNCHANGED <<now, users, sessions, cookie, issued, ended>>

(* The browser drops a cookie: it expires or the user clears it. *)
DropCookie(b) ==
  /\ cookie[b] # None /\ cookie' = [cookie EXCEPT ![b] = None]
  /\ UNCHANGED <<now, users, sessions, req, issued, ended>>

Tick ==
  /\ now < MaxTime /\ now' = now + 1
  /\ UNCHANGED <<users, sessions, cookie, req, issued, ended>>

Handle(r) ==
  \/ CreateUserWithConsent(r) \/ VerifyPassword(r) \/ ReadClock(r) \/ (\E t \in Token : CreateSession(r, t))
  \/ SetCookie(r) \/ SelectSession(r) \/ CheckExpiry(r) \/ ServePage(r)
  \/ DeleteSession(r) \/ DeleteSessionFails(r) \/ ClearCookie(r) \/ Fail(r)

Arrive(r, b) ==
  \/ \E e \in Email : PostLogin(r, b, e) \/ \E f \in Form : PostSignup(r, b, e, f)
  \/ \E logout \in BOOLEAN : Get(r, b, logout)

Next ==
  \/ \E r \in Request : Handle(r) \/ \E b \in Browser : Arrive(r, b)
  \/ \E b \in Browser : DropCookie(b)
  \/ Tick

Spec == Init /\ [][Next]_vars

-----------------------------------------------------------------------------
(* The user of b has signed e up. *)
Owns(b, e) == users[e] # None /\ users[e].password = b

(* However signups, logins and logouts of two users race, repeat and fail: a *)
(* request is served as an account only to the browser that owns it, and no  *)
(* browser holds a session of another's account.                             *)
ServedToOwner ==
  /\ \A r \in Request : At(r, "serve") => Owns(req[r].browser, req[r].email)
  /\ \A b \in Browser : cookie[b] # None /\ sessions[cookie[b]] # None
                          => Owns(b, sessions[cookie[b]].email)

(* A session whose logout has deleted its row is over: no request that       *)
(* starts afterwards with that token, from a browser whose cookie was not    *)
(* cleared because the answer was lost or overtaken, gets past RequireAuth.  *)
LoggedOutIsOut == \A r \in Request : req[r].late => req[r].pc \in {"idle", "select"}

(* A token that a browser may have: if its session still exists, it is of    *)
(* the browser's own account.                                                *)
Holder(b, t) == issued[t] # None /\ (sessions[t] # None => Owns(b, sessions[t].email))

(* What a request in flight holds at each of its steps.                      *)
Right(q) ==
  /\ q \in ReqType /\ q.pc # "idle" /\ q.browser \in Browser
  /\ q.pc \in {"create", "verify", "session", "insert", "expiry", "serve"} => q.email \in Email
  /\ q.pc = "create" => q.form \in Form
  /\ q.pc \in {"answer", "select", "expiry", "serve", "clear"} => q.token \in Token
  /\ q.pc \in {"session", "insert", "expiry", "serve"} => Owns(q.browser, q.email)
  /\ q.token # None => Holder(q.browser, q.token)
  /\ q.late => q.pc = "select" /\ q.token \in ended

(* What makes the two inductive: nobody has a token before its INSERT, and   *)
(* who has one owns the account.                                             *)
SessionInv ==
  /\ TypeOK
  /\ \A b \in Browser : cookie[b] # None => Holder(b, cookie[b])
  /\ \A r \in Request : req[r] = Idle \/ Right(req[r])
  /\ \A t \in Token : issued[t] = None => sessions[t] = None
  /\ \A t \in ended : sessions[t] = None /\ issued[t] # None

(* A session is good for its TTL, less what is cut off its last second: none *)
(* is accepted later and none is refused for its age earlier, unless a       *)
(* logout has deleted it.                                                    *)
LastsItsTTL ==
  [][\A r \in Request : At(r, "expiry") =>
       LET end == issued[req[r].token] + TTL * Second IN
       /\ req'[r].pc = "serve" => now <= end
       /\ CheckExpiry(r) /\ req'[r] = Idle => now + Second > end]_vars
=============================================================================

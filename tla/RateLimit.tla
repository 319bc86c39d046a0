------------------------------ MODULE RateLimit ------------------------------
(***************************************************************************)
(* The sliding-window limiter of avtool-web (internal/web/ratelimit): each *)
(* request runs in a goroutine of its own, which reads the clock first and *)
(* takes the mutex afterwards.  Between the two it may be overtaken by     *)
(* requests that have read a later time.                                   *)
(*                                                                         *)
(* A list of timestamps is a set of numbers of allowed calls, each with    *)
(* its stamp: Allow only counts them.                                      *)
(***************************************************************************)
EXTENDS Naturals, Sequences, FiniteSets

CONSTANTS Addr,      \* addresses
          Caller,    \* requests served at once
          Max,       \* calls allowed per window
          Window,
          MaxDelay,  \* bound on the time between the clock and the mutex
          MaxTime,   \* bound on the clock
          MaxCalls,  \* bound on the calls ever allowed
          None

ASSUME RateLimitAssumption ==
  /\ Max \in Nat /\ Window \in Nat /\ MaxDelay \in Nat
  /\ MaxTime \in Nat /\ MaxCalls \in Nat
  /\ None \notin Nat

Time == 0 .. MaxTime

VARIABLES now,       \* the clock
          caller,    \* the middleware of each request
          attempts,  \* Limiter.attempts, empty for the keys it does not hold
          keys,      \* the keys that it holds
          allowed,   \* history: every call allowed, its stamp, and when it was
          seen       \* history: when each client last called

vars == <<now, caller, attempts, keys, allowed, seen>>

Idle == [pc |-> "idle", client |-> None, key |-> None, stamp |-> 0]
Call == [client : Addr, stamp : Time, at : Time]

TypeOK ==
  /\ now      \in Time
  /\ caller   \in [Caller -> {Idle} \cup [pc : {"lock"}, client : Addr, key : Addr, stamp : Time]]
  /\ attempts \in [Addr -> SUBSET (1 .. Len(allowed))]
  /\ keys     \in SUBSET Addr
  /\ allowed  \in Seq(Call)
  /\ seen     \in [Addr -> Time \cup {None}]

Init ==
  /\ now = 0
  /\ caller = [p \in Caller |-> Idle]
  /\ attempts = [k \in Addr |-> {}]
  /\ keys = {}
  /\ allowed = <<>>
  /\ seen = [k \in Addr |-> None]

-----------------------------------------------------------------------------
(* X-Forwarded-For as it arrives: what the client sent, then the address that *)
(* Apache itself observed.  A request that does not come through Apache, as  *)
(* those of the machine itself and of the tests, has none.                   *)
Forwarded(client) ==
  {<<>>} \cup {Append(claimed, client) : claimed \in {<<>>} \cup {<<a>> : a \in Addr}}

(* Mutant: the entry that comes first. *)
ClientIP_Leftmost(xff, remoteAddr) == IF xff # <<>> THEN Head(xff) ELSE remoteAddr

(* The rightmost entry, or the address of the connection. *)
ClientIP(xff, remoteAddr) == IF xff # <<>> THEN xff[Len(xff)] ELSE remoteAddr

(* Mutant: nothing is pruned. *)
Kept_All(k, stamp) == attempts[k]

(* t.After(now.Add(-window)). *)
Kept(k, stamp) == {n \in attempts[k] : allowed[n].stamp + Window > stamp}

(* Middleware calls Allow, which reads the clock ...  The connection of a     *)
(* request without the header is the client's own.                           *)
Arrive(p, client, xff) ==
  LET key == ClientIP(xff, client) IN
  /\ caller[p].pc = "idle"
  /\ caller' = [caller EXCEPT ![p] = [pc |-> "lock", client |-> client, key |-> key, stamp |-> now]]
  /\ seen' = [seen EXCEPT ![client] = now]
  /\ UNCHANGED <<now, attempts, keys, allowed>>

(* Mutant: one call too many. *)
Allow_OffByOne(p) ==
  LET c == caller[p]  kept == Kept(c.key, c.stamp) IN
  /\ c.pc = "lock" /\ Len(allowed) < MaxCalls /\ Cardinality(kept) <= Max
  /\ allowed'  = Append(allowed, [client |-> c.client, stamp |-> c.stamp, at |-> now])
  /\ attempts' = [attempts EXCEPT ![c.key] = kept \cup {Len(allowed) + 1}]
  /\ keys'     = keys \cup {c.key}
  /\ caller'   = [caller EXCEPT ![p] = Idle]
  /\ UNCHANGED <<now, seen>>

(* ... and holds the mutex from here on: prune, count, record. *)
Allow(p) ==
  LET c == caller[p]  kept == Kept(c.key, c.stamp) IN
  /\ c.pc = "lock" /\ Len(allowed) < MaxCalls /\ Cardinality(kept) < Max
  /\ allowed'  = Append(allowed, [client |-> c.client, stamp |-> c.stamp, at |-> now])
  /\ attempts' = [attempts EXCEPT ![c.key] = kept \cup {Len(allowed) + 1}]
  /\ keys'     = keys \cup {c.key}
  /\ caller'   = [caller EXCEPT ![p] = Idle]
  /\ UNCHANGED <<now, seen>>

(* 429: the pruned list is kept, the attempt is not recorded. *)
Deny(p) ==
  LET c == caller[p]  kept == Kept(c.key, c.stamp) IN
  /\ c.pc = "lock" /\ Cardinality(kept) >= Max
  /\ attempts' = [attempts EXCEPT ![c.key] = kept]
  /\ keys'     = keys \cup {c.key}
  /\ caller'   = [caller EXCEPT ![p] = Idle]
  /\ UNCHANGED <<now, allowed, seen>>

(* Time passes; no request waits longer than MaxDelay. *)
Tick ==
  /\ now < MaxTime /\ now' = now + 1
  /\ \A p \in Caller : caller[p].pc = "lock" => now < caller[p].stamp + MaxDelay
  /\ UNCHANGED <<caller, attempts, keys, allowed, seen>>

Next ==
  \/ \E p \in Caller : \/ \E c \in Addr : \E xff \in Forwarded(c) : Arrive(p, c, xff)
                       \/ Allow(p) \/ Deny(p)
  \/ Tick

Spec == Init /\ [][Next]_vars

-----------------------------------------------------------------------------
(* The calls of a client that were allowed in the last n ticks. *)
AllowedIn(c, n) == {k \in DOMAIN allowed : allowed[k].client = c /\ allowed[k].at + n > now}

(* Whatever overtakes what, and whatever a client writes in the header: no   *)
(* client gets more than Max calls through in a window that is shortened by  *)
(* the longest wait for the mutex.                                           *)
Throttled ==
  MaxDelay < Window => \A c \in Addr : Cardinality(AllowedIn(c, Window - MaxDelay)) <= Max

(* A client is refused only for calls of its own: Max of them were allowed   *)
(* and are not older than the window.                                        *)
DeniedForOwnCalls ==
  [][\A p \in Caller : caller[p].pc = "lock" /\ caller'[p] = Idle /\ allowed' = allowed =>
       Max <= Cardinality({k \in DOMAIN allowed : /\ allowed[k].client = caller[p].client
                                                  /\ allowed[k].stamp + Window > caller[p].stamp})]_vars

(* The map grows by the addresses that really call, never by what a client   *)
(* makes up in the header: one key for each, whatever it sends.              *)
KeysAreCallers == \A k \in keys : seen[k] # None

(* What makes Throttled inductive: a stamp is at most MaxDelay old when the  *)
(* mutex is taken, so no later request can prune a call this young.          *)
LimitInv ==
  /\ TypeOK
  /\ \A p \in Caller : caller[p].pc = "lock" =>
       /\ caller[p].key = caller[p].client
       /\ caller[p].stamp <= now /\ now <= caller[p].stamp + MaxDelay
  /\ \A n \in DOMAIN allowed :
       /\ allowed[n].at <= now /\ allowed[n].at <= allowed[n].stamp + MaxDelay
       /\ allowed[n].at + Window > now + MaxDelay => n \in attempts[allowed[n].client]
  /\ \A k \in Addr : Cardinality(attempts[k]) <= Max

-----------------------------------------------------------------------------
(* What the comments say and the code does not do. *)

(* "at most Max calls to Allow for a given key succeed within any            *)
(* Window-length trailing interval".                                         *)
AtMostMax == \A c \in Addr : Cardinality(AllowedIn(c, Window)) <= Max

(* The keys are never dropped: "memory use is bounded by the number of       *)
(* distinct keys seen inside the trailing window".                           *)
MemoryBounded ==
  Cardinality(keys) <= Cardinality({k \in Addr : seen[k] # None /\ seen[k] + Window > now})
=============================================================================

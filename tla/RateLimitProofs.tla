--------------------------- MODULE RateLimitProofs ---------------------------
(***************************************************************************)
(* Proofs about RateLimit, for any number of clients and requests, any     *)
(* limit, window and delay.                                                *)
(***************************************************************************)
EXTENDS RateLimit, FiniteSetTheorems, TLAPS

(* A request's key is the address that Apache observed.                      *)
LEMMA KeyIsClient ==
  ASSUME NEW c \in Addr, NEW xff \in Forwarded(c)
  PROVE  ClientIP(xff, c) = c
<1>1. CASE xff = <<>>
  BY <1>1 DEF ClientIP
<1>2. ASSUME NEW claimed \in Seq(Addr), xff = Append(claimed, c) PROVE ClientIP(xff, c) = c
  <2>1. Len(xff) = Len(claimed) + 1 /\ xff[Len(claimed) + 1] = c /\ Len(claimed) \in Nat
    BY <1>2
  <2>2. xff # <<>>
    BY <2>1
  <2> QED BY <2>1, <2>2 DEF ClientIP
<1>3. <<>> \in Seq(Addr) /\ \A a \in Addr : <<a>> \in Seq(Addr)
  OBVIOUS
<1> QED BY <1>1, <1>2, <1>3 DEF Forwarded

(* The list of a key is finite.                                              *)
LEMMA ListFinite ==
  ASSUME TypeOK, NEW k \in Addr
  PROVE  /\ IsFiniteSet(attempts[k]) /\ Cardinality(attempts[k]) \in Nat
         /\ Len(allowed) \in Nat /\ DOMAIN allowed = 1 .. Len(allowed)
<1>1. Len(allowed) \in Nat /\ DOMAIN allowed = 1 .. Len(allowed)
  BY DEF TypeOK
<1>2. IsFiniteSet(1 .. Len(allowed))
  BY <1>1, FS_Interval
<1>3. attempts[k] \subseteq 1 .. Len(allowed)
  BY DEF TypeOK
<1>4. IsFiniteSet(attempts[k])
  BY <1>2, <1>3, FS_Subset
<1> QED BY <1>1, <1>4, FS_CardinalityType

(* Pruning never lengthens a list.                                           *)
LEMMA KeptShorter ==
  ASSUME TypeOK, NEW k \in Addr, NEW s \in Time
  PROVE  /\ Kept(k, s) \subseteq attempts[k] /\ IsFiniteSet(Kept(k, s))
         /\ Cardinality(Kept(k, s)) \in Nat
         /\ Cardinality(Kept(k, s)) <= Cardinality(attempts[k])
<1>1. Kept(k, s) \subseteq attempts[k]
  BY DEF Kept
<1> HIDE DEF Kept
<1>2. IsFiniteSet(Kept(k, s)) /\ Cardinality(Kept(k, s)) <= Cardinality(attempts[k])
  BY <1>1, ListFinite, FS_Subset
<1> QED BY <1>1, <1>2, FS_CardinalityType

(* The invariant bounds the calls: those of the shortened window are all     *)
(* still in the client's list.                                               *)
LEMMA InvThrottled == LimitInv => Throttled
<1> SUFFICES ASSUME LimitInv, MaxDelay < Window, NEW c \in Addr
             PROVE  Cardinality(AllowedIn(c, Window - MaxDelay)) <= Max
  BY DEF Throttled
<1> DEFINE A == AllowedIn(c, Window - MaxDelay)
<1>1. A \subseteq attempts[c]
  <2> SUFFICES ASSUME NEW k \in DOMAIN allowed, allowed[k].client = c,
                      allowed[k].at + (Window - MaxDelay) > now
               PROVE  k \in attempts[c]
    BY DEF AllowedIn
  <2>1. allowed[k] \in Call
    BY DEF LimitInv, TypeOK
  <2>2. allowed[k].at \in Nat /\ now \in Nat
    BY <2>1, RateLimitAssumption DEF Call, Time, LimitInv, TypeOK
  <2>3. allowed[k].at + Window > now + MaxDelay
    BY <2>2, RateLimitAssumption
  <2> QED BY <2>3 DEF LimitInv
<1> HIDE DEF A
<1>2. IsFiniteSet(attempts[c]) /\ Cardinality(attempts[c]) \in Nat /\ Cardinality(attempts[c]) <= Max
  BY ListFinite DEF LimitInv
<1>3. Cardinality(A) <= Cardinality(attempts[c]) /\ IsFiniteSet(A)
  BY <1>1, <1>2, FS_Subset
<1>4. Cardinality(A) \in Nat
  BY <1>3, FS_CardinalityType
<1> QED BY <1>2, <1>3, <1>4, RateLimitAssumption DEF A

(* No call, no list.                                                         *)
LEMMA LimitInit == Init => LimitInv
<1> SUFFICES ASSUME Init PROVE LimitInv
  OBVIOUS
<1>1. TypeOK
  BY RateLimitAssumption DEF Init, TypeOK, Time, Idle
<1>2. \A p \in Caller : caller[p].pc # "lock"
  BY DEF Init, Idle
<1>3. DOMAIN allowed = {}
  BY DEF Init
<1>4. \A k \in Addr : Cardinality(attempts[k]) <= Max
  BY FS_EmptySet, RateLimitAssumption DEF Init
<1> QED BY <1>1, <1>2, <1>3, <1>4 DEF LimitInv

(* Every action keeps the invariant.                                         *)
LEMMA LimitNext == LimitInv /\ [Next]_vars => LimitInv'
<1> SUFFICES ASSUME LimitInv, [Next]_vars PROVE LimitInv'
  OBVIOUS
<1> DEFINE InTime(c, t) == /\ c.key = c.client
                           /\ c.stamp <= t /\ t <= c.stamp + MaxDelay
<1>0. TypeOK /\ now \in Time /\ now \in Nat /\ Time \subseteq Nat
  BY RateLimitAssumption DEF LimitInv, TypeOK, Time
<1>1. ASSUME NEW p \in Caller, NEW c \in Addr,
             NEW xff \in Forwarded(c), Arrive(p, c, xff)
      PROVE  LimitInv'
  <2>1. /\ UNCHANGED <<now, attempts, keys, allowed>>
        /\ seen' = [seen EXCEPT ![c] = now]
        /\ caller' = [caller EXCEPT ![p] = [pc |-> "lock", client |-> c, key |-> c, stamp |-> now]]
    BY <1>1, KeyIsClient DEF Arrive
  <2>2. TypeOK'
    BY <1>0, <2>1 DEF TypeOK
  <2>3. \A q \in Caller : caller'[q].pc = "lock" => InTime(caller'[q], now')
    BY <1>0, <2>1, RateLimitAssumption DEF TypeOK, LimitInv
  <2> QED BY <2>1, <2>2, <2>3 DEF LimitInv
<1>2. ASSUME NEW p \in Caller, caller[p].pc = "lock",
             keys' = keys \cup {caller[p].key}, caller' = [caller EXCEPT ![p] = Idle],
             UNCHANGED <<now, seen>>
      PROVE  /\ caller[p].key = caller[p].client /\ caller[p].client \in Addr /\ caller[p].stamp \in Time
             /\ caller[p].stamp <= now /\ now <= caller[p].stamp + MaxDelay
             /\ caller' \in [Caller -> {Idle} \cup [pc : {"lock"}, client : Addr, key : Addr, stamp : Time]]
             /\ keys' \in SUBSET Addr /\ seen' \in [Addr -> Time \cup {None}] /\ now' \in Time
             /\ \A q \in Caller : caller'[q].pc = "lock" => InTime(caller'[q], now')
  BY <1>0, <1>2 DEF TypeOK, LimitInv, Idle
<1>3. ASSUME NEW p \in Caller, Deny(p) PROVE LimitInv'
  <2> DEFINE k == caller[p].key
             s == caller[p].stamp
  <2>1. /\ caller[p].pc = "lock" /\ keys' = keys \cup {caller[p].key}
        /\ caller' = [caller EXCEPT ![p] = Idle] /\ UNCHANGED <<now, seen>>
        /\ allowed' = allowed /\ attempts' = [attempts EXCEPT ![k] = Kept(k, s)]
    BY <1>3 DEF Deny
  <2>2. k \in Addr /\ s \in Time /\ s <= now /\ now <= s + MaxDelay
    BY <1>2, <2>1
  <2>3. Kept(k, s) \subseteq attempts[k] /\ Cardinality(Kept(k, s)) <= Max
    <3>1. /\ Kept(k, s) \subseteq attempts[k] /\ Cardinality(Kept(k, s)) \in Nat
          /\ Cardinality(Kept(k, s)) <= Cardinality(attempts[k])
      BY <1>0, <2>2, KeptShorter
    <3>2. Cardinality(attempts[k]) \in Nat /\ Cardinality(attempts[k]) <= Max
      BY <1>0, <2>2, ListFinite DEF LimitInv
    <3> QED BY <3>1, <3>2, RateLimitAssumption
  <2> HIDE DEF k, s
  <2>4. TypeOK'
    BY <1>0, <1>2, <2>1, <2>2, <2>3 DEF TypeOK
  <2>5. ASSUME NEW n \in DOMAIN allowed, allowed[n].at + Window > now + MaxDelay
        PROVE  n \in attempts'[allowed[n].client]
    <3>1. allowed[n] \in Call /\ n \in attempts[allowed[n].client] /\ allowed[n].at <= allowed[n].stamp + MaxDelay
      BY <2>5, <1>0 DEF LimitInv, TypeOK
    <3>2. allowed[n].at \in Nat /\ allowed[n].stamp \in Nat /\ s \in Nat
      BY <2>2, <3>1, RateLimitAssumption DEF Call, Time
    <3>3. allowed[n].stamp + Window > s
      BY <1>0, <2>2, <2>5, <3>1, <3>2, RateLimitAssumption
    <3> QED BY <2>1, <2>2, <3>1, <3>3, <1>0 DEF TypeOK, Kept, Call
  <2>6. \A j \in Addr : Cardinality(attempts'[j]) <= Max
    BY <1>0, <2>1, <2>2, <2>3 DEF TypeOK, LimitInv
  <2>7. now' = now
    BY <2>1
  <2>8. \A q \in Caller : caller'[q].pc = "lock" => InTime(caller'[q], now')
    BY <1>2, <2>1
  <2> QED BY <2>1, <2>4, <2>5, <2>6, <2>7, <2>8 DEF LimitInv
<1>4. ASSUME NEW p \in Caller, Allow(p) PROVE LimitInv'
  <2> DEFINE k == caller[p].key
             s == caller[p].stamp
             m == Len(allowed) + 1
             new == [client |-> k, stamp |-> s, at |-> now]
  <2>1. /\ caller[p].pc = "lock" /\ keys' = keys \cup {caller[p].key}
        /\ caller' = [caller EXCEPT ![p] = Idle] /\ UNCHANGED <<now, seen>>
        /\ attempts' = [attempts EXCEPT ![k] = Kept(k, s) \cup {m}]
        /\ Cardinality(Kept(k, s)) < Max
    BY <1>4 DEF Allow
  <2>2. k \in Addr /\ s \in Time /\ s <= now /\ now <= s + MaxDelay /\ k = caller[p].client
    BY <1>2, <2>1
  <2>3. allowed' = Append(allowed, new)
    BY <1>4, <2>2 DEF Allow
  <2>4. new \in Call /\ new.client = k /\ new.stamp = s /\ new.at = now
    BY <1>0, <2>2 DEF Call
  <2>5. Len(allowed) \in Nat /\ DOMAIN allowed = 1 .. Len(allowed)
    BY <1>0, <2>2, ListFinite
  <2>6. Kept(k, s) \subseteq attempts[k] /\ IsFiniteSet(Kept(k, s))
    BY <1>0, <2>2, KeptShorter
  <2>7. m \notin attempts[k] /\ m \in Nat
    BY <1>0, <2>2, <2>5 DEF TypeOK
  <2>8. Cardinality(Kept(k, s) \cup {m}) <= Max
    <3>1. Cardinality(Kept(k, s) \cup {m}) = Cardinality(Kept(k, s)) + 1
      BY <2>6, <2>7, FS_AddElement
    <3>2. Cardinality(Kept(k, s)) \in Nat
      BY <2>6, FS_CardinalityType
    <3> QED BY <2>1, <3>1, <3>2, RateLimitAssumption
  <2> HIDE DEF k, s, new
  <2>9. /\ allowed' \in Seq(Call) /\ Len(allowed') = m /\ DOMAIN allowed' = 1 .. m
        /\ allowed'[m] = new /\ \A n \in 1 .. Len(allowed) : allowed'[n] = allowed[n]
    BY <1>0, <2>3, <2>4, <2>5 DEF TypeOK
  <2> HIDE DEF m
  <2>10. m \in Nat /\ m = Len(allowed) + 1
    BY <2>7 DEF m
  <2>11. 1 .. Len(allowed) \subseteq 1 .. m /\ m \in 1 .. m
    BY <2>5, <2>10
  <2>12. TypeOK'
    <3>1. attempts' \in [Addr -> SUBSET (1 .. Len(allowed'))]
      BY <1>0, <2>1, <2>2, <2>6, <2>9, <2>11 DEF TypeOK
    <3> QED BY <1>2, <2>1, <2>9, <3>1 DEF TypeOK
  <2>13. ASSUME NEW n \in DOMAIN allowed'
         PROVE  /\ allowed'[n].at <= now /\ allowed'[n].at <= allowed'[n].stamp + MaxDelay
                /\ allowed'[n].at + Window > now + MaxDelay => n \in attempts'[allowed'[n].client]
    <3>1. CASE n = m
      BY <3>1, <1>0, <2>1, <2>2, <2>4, <2>9 DEF TypeOK
    <3>2. CASE n # m
      <4>1. n \in DOMAIN allowed /\ allowed'[n] = allowed[n]
        BY <3>2, <2>5, <2>9, <2>10
      <4>2. allowed[n] \in Call /\ allowed[n].at <= now /\ allowed[n].at <= allowed[n].stamp + MaxDelay
        BY <1>0, <4>1 DEF LimitInv, TypeOK
      <4>3. ASSUME allowed[n].at + Window > now + MaxDelay
            PROVE  n \in attempts'[allowed[n].client]
        <5>1. n \in attempts[allowed[n].client]
          BY <4>1, <4>3 DEF LimitInv
        <5>0. allowed[n].at \in Nat /\ allowed[n].stamp \in Nat /\ s \in Nat
          BY <2>2, <4>2, RateLimitAssumption DEF Call, Time
        <5>2. allowed[n].stamp + Window > s
          BY <1>0, <2>2, <4>2, <4>3, <5>0, RateLimitAssumption
        <5> QED BY <1>0, <2>1, <2>2, <4>2, <5>1, <5>2 DEF TypeOK, Kept, Call
      <4> QED BY <4>1, <4>2, <4>3
    <3> QED BY <3>1, <3>2
  <2>14. \A j \in Addr : Cardinality(attempts'[j]) <= Max
    BY <1>0, <2>1, <2>2, <2>8 DEF TypeOK, LimitInv, m
  <2>15. now' = now
    BY <2>1
  <2>16. \A q \in Caller : caller'[q].pc = "lock" => InTime(caller'[q], now')
    BY <1>2, <2>1
  <2> QED BY <2>12, <2>13, <2>14, <2>15, <2>16 DEF LimitInv
<1>5. CASE Tick
  <2>1. /\ now' = now + 1 /\ now < MaxTime /\ UNCHANGED <<caller, attempts, keys, allowed, seen>>
        /\ \A p \in Caller : caller[p].pc = "lock" => now < caller[p].stamp + MaxDelay
    BY <1>5 DEF Tick
  <2>2. now' \in Time
    BY <1>0, <2>1, RateLimitAssumption DEF Time
  <2>3. TypeOK'
    BY <1>0, <2>1, <2>2 DEF TypeOK
  <2>4. \A q \in Caller : caller[q].pc = "lock" => caller[q].stamp \in Nat
    BY <1>0, RateLimitAssumption DEF TypeOK, Idle, Time
  <2>5. \A q \in Caller : caller'[q].pc = "lock" => InTime(caller'[q], now')
    BY <1>0, <2>1, <2>4, RateLimitAssumption DEF LimitInv
  <2>6. ASSUME NEW n \in DOMAIN allowed'
        PROVE  /\ allowed'[n].at <= now' /\ allowed'[n].at <= allowed'[n].stamp + MaxDelay
               /\ allowed'[n].at + Window > now' + MaxDelay => n \in attempts'[allowed'[n].client]
    <3>1. n \in DOMAIN allowed /\ allowed' = allowed /\ attempts' = attempts
      BY <2>1
    <3>2. allowed[n].at \in Nat
      <4>1. allowed[n] \in Call
        BY <1>0, <3>1 DEF TypeOK
      <4> QED BY <4>1, RateLimitAssumption DEF Call, Time
    <3>3. allowed[n].at <= now /\ allowed[n].at <= allowed[n].stamp + MaxDelay
      BY <3>1 DEF LimitInv
    <3>4. allowed[n].at + Window > now' + MaxDelay => allowed[n].at + Window > now + MaxDelay
      BY <1>0, <2>1, <3>2, RateLimitAssumption
    <3> QED BY <1>0, <2>1, <3>1, <3>2, <3>3, <3>4 DEF LimitInv
  <2> QED BY <2>1, <2>3, <2>5, <2>6 DEF LimitInv
<1>6. CASE UNCHANGED vars
  BY <1>6 DEF vars, LimitInv, TypeOK
<1> QED BY <1>1, <1>3, <1>4, <1>5, <1>6 DEF Next

(* For any number of requests overtaking each other between clock and mutex: *)
(* no client gets more than Max calls through Allow in a window shortened by *)
(* the longest of those delays.                                              *)
THEOREM NobodyExceedsTheLimit == Spec => []Throttled
<1>1. Init => LimitInv
  BY LimitInit
<1>2. LimitInv /\ [Next]_vars => LimitInv'
  BY LimitNext
<1>3. LimitInv => Throttled
  BY InvThrottled
<1> QED BY <1>1, <1>2, <1>3, PTL DEF Spec

(* The invariant the run checks: of each client, the list holds the attempts *)
(* of the window that were allowed, at most Max, and misses none.            *)
THEOREM ListIsTheWindow == Spec => []LimitInv
<1>1. Init => LimitInv
  BY LimitInit
<1>2. LimitInv /\ [Next]_vars => LimitInv'
  BY LimitNext
<1> QED BY <1>1, <1>2, PTL DEF Spec

(* What a client's list holds are its own calls.                             *)
OwnCalls == \A k \in Addr : \A n \in attempts[k] : allowed[n].client = k

(* A call joins the list of the client that made it, and no other. *)
LEMMA OwnCallsNext == LimitInv /\ OwnCalls /\ [Next]_vars => OwnCalls'
<1> SUFFICES ASSUME LimitInv, OwnCalls, [Next]_vars PROVE OwnCalls'
  OBVIOUS
<1>0. TypeOK /\ allowed \in Seq(Call) /\ Len(allowed) \in Nat /\ attempts \in [Addr -> SUBSET (1 .. Len(allowed))]
  BY DEF LimitInv, TypeOK
<1>1. CASE UNCHANGED <<attempts, allowed>> BY <1>1 DEF OwnCalls
<1>2. ASSUME NEW p \in Caller, Deny(p) PROVE OwnCalls'
  <2>1. PICK k : k = caller[p].key OBVIOUS
  <2>2. PICK s : s = caller[p].stamp OBVIOUS
  <2>3. attempts' = [attempts EXCEPT ![k] = Kept(k, s)] /\ allowed' = allowed
    BY <1>2, <2>1, <2>2 DEF Deny
  <2>4. Kept(k, s) \subseteq attempts[k] BY DEF Kept
  <2> QED BY <1>0, <2>3, <2>4 DEF OwnCalls
<1>3. ASSUME NEW p \in Caller, Allow(p) PROVE OwnCalls'
  <2>1. PICK c : c = caller[p] OBVIOUS
  <2>2. PICK s : s = c.stamp OBVIOUS
  <2>3. /\ attempts' = [attempts EXCEPT ![c.key] = Kept(c.key, s) \cup {Len(allowed) + 1}]
        /\ allowed' = Append(allowed, [client |-> c.client, stamp |-> s, at |-> now]) /\ c.pc = "lock"
    BY <1>3, <2>1, <2>2 DEF Allow
  <2>4. c.key = c.client BY <2>1, <2>3 DEF LimitInv
  <2>5. Kept(c.key, s) \subseteq attempts[c.key] BY DEF Kept
  <2>6. /\ \A n \in 1 .. Len(allowed) : allowed'[n] = allowed[n]
        /\ allowed'[Len(allowed) + 1].client = c.client
    BY <1>0, <2>3
  <2> HIDE DEF Kept
  <2>7. ASSUME NEW k \in Addr, NEW n \in attempts'[k] PROVE allowed'[n].client = k
    <3>1. CASE n \in attempts[k] BY <1>0, <2>6, <3>1 DEF OwnCalls
    <3>2. CASE n \notin attempts[k] BY <1>0, <2>3, <2>4, <2>5, <2>6, <2>7, <3>2
    <3> QED BY <3>1, <3>2
  <2> QED BY <2>7 DEF OwnCalls
<1>4. CASE Tick BY <1>1, <1>4 DEF Tick
<1>5. CASE UNCHANGED vars BY <1>1, <1>5 DEF vars
<1>6. ASSUME NEW p \in Caller, NEW c \in Addr,
             NEW xff \in Forwarded(c), Arrive(p, c, xff)
      PROVE  OwnCalls'
  BY <1>1, <1>6 DEF Arrive
<1> QED BY <1>2, <1>3, <1>4, <1>5, <1>6 DEF Next

(* DeniedForOwnCalls: a client that is refused has itself made the Max calls *)
(* of the window that stand against it, whoever else calls and whatever      *)
(* headers they send.                                                        *)
THEOREM RefusedForOwnCalls == Spec => DeniedForOwnCalls
<1>1. Init => LimitInv
  BY LimitInit
<1>2. LimitInv /\ [Next]_vars => LimitInv'
  BY LimitNext
<1>3. Init => OwnCalls BY DEF Init, OwnCalls
<1>4. LimitInv /\ OwnCalls /\ [Next]_vars => OwnCalls' BY OwnCallsNext
<1>5. ASSUME LimitInv, OwnCalls, [Next]_vars, NEW p \in Caller,
             caller[p].pc = "lock", caller'[p] = Idle, allowed' = allowed
      PROVE  Max <= Cardinality({k \in DOMAIN allowed : /\ allowed[k].client = caller[p].client
                                                        /\ allowed[k].stamp + Window > caller[p].stamp})
  <2>0. TypeOK /\ caller[p].key = caller[p].client /\ Len(allowed) \in Nat
        /\ caller \in [Caller -> {Idle} \cup [pc : {"lock"}, client : Addr, key : Addr, stamp : Time]]
    BY <1>5 DEF LimitInv, TypeOK
  <2>1. caller[p].key \in Addr /\ caller[p].stamp \in Time BY <1>5, <2>0 DEF Idle
  <2>2. Deny(p)
    <3>1. ASSUME NEW q \in Caller, NEW c \in Addr,
                 NEW xff \in Forwarded(c), Arrive(q, c, xff)
          PROVE  FALSE
      <4>1. caller[q].pc = "idle" /\ \A x \in Caller : x # q => caller'[x] = caller[x]
        BY <2>0, <3>1 DEF Arrive
      <4>2. q # p BY <1>5, <4>1
      <4> QED BY <1>5, <4>1, <4>2 DEF Idle
    <3>2. ASSUME NEW q \in Caller, Allow(q) PROVE FALSE
      <4>1. PICK e : allowed' = Append(allowed, e) BY <3>2 DEF Allow
      <4>2. e \in Call
        <5>1. PICK c : c = caller[q] OBVIOUS
        <5>2. c.pc = "lock" /\ allowed' = Append(allowed, [client |-> c.client, stamp |-> c.stamp, at |-> now])
          BY <3>2, <5>1 DEF Allow
        <5> QED BY <1>5, <4>1, <5>2 DEF LimitInv, TypeOK
      <4>3. Len(allowed') = Len(allowed) + 1 BY <2>0, <4>1 DEF TypeOK
      <4> QED BY <1>5, <2>0, <4>3
    <3>3. ~Tick BY <1>5 DEF Tick, Idle
    <3>4. ~UNCHANGED vars BY <1>5 DEF vars, Idle
    <3>5. PICK q \in Caller : Deny(q) BY <1>5, <3>1, <3>2, <3>3, <3>4 DEF Next
    <3>6. \A x \in Caller : x # q => caller'[x] = caller[x] BY <2>0, <3>5 DEF Deny
    <3>7. q = p BY <1>5, <3>6 DEF Idle
    <3> QED BY <3>5, <3>7
  <2>3. PICK K : K = Kept(caller[p].key, caller[p].stamp) OBVIOUS
  <2>4. Cardinality(K) >= Max BY <2>2, <2>3 DEF Deny
  <2>5. PICK S : S = {k \in DOMAIN allowed : /\ allowed[k].client = caller[p].client
                                             /\ allowed[k].stamp + Window > caller[p].stamp}
    OBVIOUS
  <2>6. DOMAIN allowed = 1 .. Len(allowed) BY <2>0, <2>1, ListFinite
  <2>7. K \subseteq S
    <3>1. \A n \in K : n \in attempts[caller[p].key] /\ allowed[n].stamp + Window > caller[p].stamp
      BY <2>3 DEF Kept
    <3>2. \A n \in attempts[caller[p].key] : n \in DOMAIN allowed BY <2>0, <2>1, <2>6 DEF TypeOK
    <3>3. \A n \in attempts[caller[p].key] : allowed[n].client = caller[p].key BY <1>5, <2>1 DEF OwnCalls
    <3> QED BY <2>0, <2>5, <3>1, <3>2, <3>3
  <2>8. IsFiniteSet(S)
    <3>1. IsFiniteSet(1 .. Len(allowed)) BY <2>0, FS_Interval
    <3>2. S \subseteq 1 .. Len(allowed) BY <2>5, <2>6
    <3> QED BY <3>1, <3>2, FS_Subset
  <2>9. IsFiniteSet(K) /\ Cardinality(K) <= Cardinality(S) BY <2>7, <2>8, FS_Subset
  <2>10. Cardinality(K) \in Nat /\ Cardinality(S) \in Nat BY <2>8, <2>9, FS_CardinalityType
  <2> QED BY <2>4, <2>5, <2>9, <2>10, RateLimitAssumption
<1>6. LimitInv /\ OwnCalls /\ [Next]_vars =>
        [\A p \in Caller : caller[p].pc = "lock" /\ caller'[p] = Idle /\ allowed' = allowed =>
           Max <= Cardinality({k \in DOMAIN allowed : /\ allowed[k].client = caller[p].client
                                                      /\ allowed[k].stamp + Window > caller[p].stamp})]_vars
  BY <1>5
<1> QED BY <1>1, <1>2, <1>3, <1>4, <1>6, PTL DEF Spec, DeniedForOwnCalls

-----------------------------------------------------------------------------
(* A key is used by a client that has called.                                *)
Callers == /\ KeysAreCallers
           /\ \A p \in Caller : caller[p].pc = "lock" => seen[caller[p].client] # None

(* KeysAreCallers: for any number of clients and whatever headers they send, *)
(* the map of the limiter holds only addresses that have called.             *)
THEOREM NoKeyIsMadeUp == Spec => []KeysAreCallers
<1>1. Init => Callers
  BY DEF Init, Callers, KeysAreCallers, Idle
<1>2. LimitInv /\ Callers /\ [Next]_vars => Callers'
  <2> SUFFICES ASSUME LimitInv, Callers, [Next]_vars PROVE Callers'
    OBVIOUS
  <2>0. TypeOK /\ now \in Nat
    BY RateLimitAssumption DEF LimitInv, TypeOK, Time
  <2>1. ASSUME NEW p \in Caller, NEW c \in Addr, NEW xff \in Forwarded(c), Arrive(p, c, xff)
        PROVE  Callers'
    <3>1. /\ keys' = keys /\ seen' = [seen EXCEPT ![c] = now]
          /\ caller' = [caller EXCEPT ![p] = [pc |-> "lock", client |-> c, key |-> c, stamp |-> now]]
      BY <2>1, KeyIsClient DEF Arrive
    <3>2. \A k \in Addr : seen[k] # None => seen'[k] # None
      BY <2>0, <3>1, RateLimitAssumption DEF TypeOK
    <3>3. seen'[c] # None
      BY <2>0, <3>1, RateLimitAssumption DEF TypeOK
    <3> QED BY <2>0, <3>1, <3>2, <3>3 DEF Callers, KeysAreCallers, TypeOK
  <2>2. ASSUME NEW p \in Caller, Allow(p) \/ Deny(p) PROVE Callers'
    <3>1. /\ caller[p].pc = "lock" /\ keys' = keys \cup {caller[p].key} /\ seen' = seen
          /\ caller' = [caller EXCEPT ![p] = Idle]
      BY <2>2 DEF Allow, Deny
    <3>2. caller[p].key = caller[p].client /\ seen[caller[p].client] # None
      BY <3>1 DEF LimitInv, Callers
    <3> QED BY <2>0, <3>1, <3>2 DEF Callers, KeysAreCallers, TypeOK, Idle
  <2>3. CASE Tick \/ UNCHANGED vars
    BY <2>3 DEF Tick, vars, Callers, KeysAreCallers
  <2> QED BY <2>1, <2>2, <2>3 DEF Next
<1>3. Callers => KeysAreCallers
  BY DEF Callers
<1> QED BY <1>1, <1>2, <1>3, ListIsTheWindow, PTL DEF Spec
=============================================================================

---------------------------- MODULE HashDbProofs ----------------------------
(***************************************************************************)
(* Proofs about HashDb, for any digests, names, feeds and number of syncs. *)
(***************************************************************************)
EXTENDS HashDb, TLAPS

(* What normalizeHash returns: the canonical spelling of the same digest.    *)
LEMMA Normalized ==
  ASSUME NEW h \in Hash
  PROVE  /\ normalizeHash(h) \in Hash
         /\ normalizeHash(h).digest = h.digest
         /\ normalizeHash(h).canonical
         /\ normalizeHash(normalizeHash(h)) = normalizeHash(h)
  BY DEF normalizeHash, Hash

(* Two spellings are normalised to one exactly when they spell one digest.   *)
LEMMA SameDigest ==
  ASSUME NEW g \in Hash, NEW h \in Hash
  PROVE  (normalizeHash(g) = normalizeHash(h)) <=> (g.digest = h.digest)
  BY DEF normalizeHash, Hash

(* What Parse hands to Upsert is a feed again.                               *)
LEMMA ParsedIsFeed ==
  ASSUME NEW feed \in Feed
  PROVE  Parse(feed) \in Feed /\ (feed # <<>> => 1 \in DOMAIN Parse(feed))
<1>1. PICK n \in 0 .. FeedSize : feed \in [1 .. n -> Record]
  BY DEF Feed
<1>2. \A k \in 1 .. n : [hash |-> normalizeHash(feed[k].hash), name |-> feed[k].name] \in Record
  BY <1>1, Normalized DEF Record
<1>3. Parse(feed) \in [1 .. n -> Record]
  BY <1>1, <1>2 DEF Parse
<1>4. n = 0 => feed = <<>>
  BY <1>1
<1>5. n \in Nat /\ (feed # <<>> => 1 \in 1 .. n)
  BY <1>4, HashDbAssumption
<1> QED BY <1>3, <1>5 DEF Feed

(* The record of a process that runs no sync is well typed.                  *)
LEMMA IdleSync ==
  NoSync \in [pc : {"idle", "select", "insert", "report"}, batch : Feed, i : 1 .. (FeedSize + 1)]
<1>1. <<>> \in [1 .. 0 -> Record]
  OBVIOUS
<1>2. <<>> \in Feed
  BY <1>1, HashDbAssumption DEF Feed
<1> QED BY <1>2, HashDbAssumption DEF NoSync

(* What makes ManualSurvives inductive: a sync that is about to write an      *)
(* entry over has seen no addition of it, and the user has made none since   *)
(* but a contested one.                                                      *)
SyncInv ==
  /\ TypeOK /\ ManualSurvives
  /\ \A p \in Proc :
       /\ sync[p].pc \in {"select", "insert"} => sync[p].i \in DOMAIN sync[p].batch
       /\ sync[p].pc = "insert" => user[Current(p).hash.digest] # "added"

(* An empty table and no sync.                                               *)
LEMMA InitSync == Init => SyncInv
<1> SUFFICES ASSUME Init PROVE SyncInv
  OBVIOUS
<1>1. TypeOK
  BY IdleSync DEF Init, TypeOK
<1>2. ManualSurvives
  BY DEF Init, ManualSurvives, Hash
<1>3. \A p \in Proc : sync[p].pc = "idle"
  BY DEF Init, NoSync
<1> QED BY <1>1, <1>2, <1>3 DEF SyncInv

(* The turn of the loop keeps the position inside the feed or ends it.       *)
LEMMA Advance ==
  ASSUME SyncInv, NEW p \in Proc, sync[p].pc \in {"select", "insert"}, NextEntry(p)
  PROVE  /\ sync' \in [Proc -> [pc : {"idle", "select", "insert", "report"},
                                 batch : Feed, i : 1 .. (FeedSize + 1)]]
         /\ sync'[p].pc \in {"select", "report"}
         /\ sync'[p].pc = "select" => sync'[p].i \in DOMAIN sync'[p].batch
         /\ \A q \in Proc \ {p} : sync'[q] = sync[q]
<1> DEFINE b == sync[p].batch
<1>1. PICK n \in 0 .. FeedSize : b \in [1 .. n -> Record]
  BY DEF SyncInv, TypeOK, Feed
<1>2. Len(b) = n /\ DOMAIN b = 1 .. n
  BY <1>1, HashDbAssumption
<1>3. sync[p].i \in 1 .. n
  BY <1>2 DEF SyncInv
<1>4. sync' = [sync EXCEPT ![p] = [sync[p] EXCEPT !.i = sync[p].i + 1,
                 !.pc = IF sync[p].i = n THEN "report" ELSE "select"]]
  BY <1>2 DEF NextEntry, SyncInv, TypeOK
<1>5. sync[p].i + 1 \in 1 .. (FeedSize + 1)
  BY <1>3, HashDbAssumption
<1>6. sync \in [Proc -> [pc : {"idle", "select", "insert", "report"},
                         batch : Feed, i : 1 .. (FeedSize + 1)]]
  BY DEF SyncInv, TypeOK
<1>7. sync[p].i # n => sync[p].i + 1 \in 1 .. n
  BY <1>3, HashDbAssumption
<1> HIDE DEF b
<1>8. sync'[p].batch = b /\ sync'[p].i = sync[p].i + 1
      /\ sync'[p].pc = (IF sync[p].i = n THEN "report" ELSE "select")
  BY <1>4, <1>6 DEF b
<1> QED BY <1>2, <1>4, <1>5, <1>6, <1>7, <1>8

(* Each action keeps SyncInv, whatever runs beside it.                       *)
LEMMA SyncNext == ASSUME SyncInv, [Next]_vars PROVE SyncInv'
<1> USE DEF SyncInv
<1>1. ASSUME NEW h \in Hash, HashesRm(h) PROVE SyncInv'
  <2>1. \A d \in Digest : user'[d] = "added" => user[d] = "added"
    BY <1>1 DEF HashesRm, TypeOK
  <2>2. sync' = sync /\ normalizeHash(h) \in Hash
    BY <1>1, Normalized DEF HashesRm
  <2>3. h.digest \in Digest
    BY DEF Hash
  <2>4. TypeOK'
    BY <1>1, <2>2, <2>3 DEF HashesRm, TypeOK
  <2>5. ManualSurvives'
    <3> SUFFICES ASSUME NEW g \in Hash, user'[g.digest] = "added"
                 PROVE  Lookup(g)' # None /\ Lookup(g)'.source = "manual"
      BY DEF ManualSurvives
    <3>1. g.digest \in Digest
      BY DEF Hash
    <3>2. CASE g.digest = h.digest
      <4>1. Lookup(g) = Lookup(h)
        BY <3>2, SameDigest DEF Lookup
      <4>2. Lookup(h) = None
        BY <1>1, <3>2, <2>3 DEF HashesRm, TypeOK
      <4>3. user[g.digest] = "added"
        BY <1>1, <4>2 DEF HashesRm
      <4> QED BY <4>1, <4>2, <4>3 DEF ManualSurvives
    <3>3. CASE g.digest # h.digest
      <4>1. normalizeHash(g) # normalizeHash(h) /\ normalizeHash(g) \in Hash
        BY <3>3, SameDigest, Normalized
      <4>2. Lookup(g)' = Lookup(g)
        BY <1>1, <4>1 DEF HashesRm, TypeOK, Lookup
      <4>3. user'[g.digest] = user[g.digest]
        BY <1>1, <3>1, <3>3, <2>3 DEF HashesRm, TypeOK
      <4> QED BY <4>2, <4>3 DEF ManualSurvives
    <3> QED BY <3>2, <3>3
  <2>6. ASSUME NEW p \in Proc, sync[p].pc = "insert"
        PROVE  user'[Current(p).hash.digest] # "added"
    <3>1. Current(p).hash.digest \in Digest
      BY <2>6 DEF Current, TypeOK, Feed, Record, Hash
    <3> QED BY <2>1, <2>6, <3>1
  <2> QED BY <2>2, <2>4, <2>5, <2>6 DEF Current
<1>2. ASSUME NEW h \in Hash, NEW n \in Label, HashesAdd(h, n) PROVE SyncInv'
  <2>1. user' = [user EXCEPT ![h.digest] = IF Contested(h.digest) THEN "contested" ELSE "added"]
    BY <1>2 DEF HashesAdd
  <2>2. sync' = sync /\ normalizeHash(h) \in Hash /\ h.digest \in Digest
    BY <1>2, Normalized DEF HashesAdd, Hash
  <2>3. db' = [db EXCEPT ![normalizeHash(h)] = [name |-> n, source |-> "manual"]]
    BY <1>2 DEF HashesAdd, Upserted
  <2>4. TypeOK'
    BY <2>1, <2>2, <2>3 DEF TypeOK, Entry
  <2>5. ManualSurvives'
    <3> SUFFICES ASSUME NEW g \in Hash, user'[g.digest] = "added"
                 PROVE  db'[normalizeHash(g)] # None /\ db'[normalizeHash(g)].source = "manual"
      BY DEF ManualSurvives, Lookup
    <3>1. CASE g.digest = h.digest
      <4>1. db'[normalizeHash(g)] = [name |-> n, source |-> "manual"]
        BY <2>2, <2>3, <3>1, SameDigest DEF TypeOK
      <4>2. db'[normalizeHash(g)] \in Entry
        BY <4>1 DEF Entry
      <4> QED BY <4>1, <4>2, HashDbAssumption
    <3>2. CASE g.digest # h.digest
      <4>1. normalizeHash(g) # normalizeHash(h) /\ normalizeHash(g) \in Hash /\ g.digest \in Digest
        BY <3>2, SameDigest, Normalized DEF Hash
      <4>2. db'[normalizeHash(g)] = db[normalizeHash(g)]
        BY <2>3, <4>1 DEF TypeOK
      <4>3. user'[g.digest] = user[g.digest]
        BY <2>1, <2>2, <3>2, <4>1 DEF TypeOK
      <4> QED BY <4>2, <4>3 DEF ManualSurvives, Lookup
    <3> QED BY <3>1, <3>2
  <2>6. ASSUME NEW p \in Proc, sync[p].pc = "insert"
        PROVE  user'[Current(p).hash.digest] # "added"
    <3>1. Current(p).hash.digest \in Digest
      BY <2>6 DEF Current, TypeOK, Feed, Record, Hash
    <3>2. Current(p).hash.digest = h.digest => Contested(h.digest)
      BY <2>6 DEF Contested
    <3> QED BY <2>1, <2>6, <3>1, <3>2 DEF TypeOK
  <2> QED BY <2>2, <2>4, <2>5, <2>6 DEF Current
<1>3. ASSUME NEW p \in Proc, Sync(p) PROVE SyncInv'
  <2>1. ASSUME NEW feed \in Feed, Fetch(p, feed) PROVE SyncInv'
    <3>1. Parse(feed) \in Feed /\ (feed # <<>> => 1 \in DOMAIN Parse(feed))
      BY ParsedIsFeed
    <3>2. /\ db' = db /\ user' = user
          /\ sync' = [sync EXCEPT ![p] = [pc |-> IF feed = <<>> THEN "report" ELSE "select",
                                          batch |-> Parse(feed), i |-> 1]]
      BY <2>1 DEF Fetch
    <3>3. 1 \in 1 .. (FeedSize + 1)
      BY HashDbAssumption
    <3>4. TypeOK'
      BY <3>1, <3>2, <3>3 DEF TypeOK
    <3>5. ManualSurvives'
      BY <3>2 DEF ManualSurvives, Lookup
    <3>6. ASSUME NEW q \in Proc
          PROVE  /\ sync'[q].pc \in {"select", "insert"} => sync'[q].i \in DOMAIN sync'[q].batch
                 /\ sync'[q].pc = "insert" => user'[Current(q)'.hash.digest] # "added"
      <4>1. CASE q = p
        BY <4>1, <3>1, <3>2 DEF TypeOK
      <4>2. CASE q # p
        BY <4>2, <3>2 DEF TypeOK, Current
      <4> QED BY <4>1, <4>2
    <3> QED BY <3>4, <3>5, <3>6
  <2>2. CASE SelectSource(p)
    <3>1. db' = db /\ user' = user /\ sync[p].pc = "select"
      BY <2>2 DEF SelectSource
    <3>2. ManualSurvives'
      BY <3>1 DEF ManualSurvives, Lookup
    <3>3. CASE Lookup(Current(p).hash) # None /\ Lookup(Current(p).hash).source = "manual"
      <4>1. NextEntry(p)
        BY <2>2, <3>3 DEF SelectSource
      <4> QED BY <3>1, <3>2, <4>1, Advance DEF TypeOK, Lookup, Current
    <3>4. CASE ~(Lookup(Current(p).hash) # None /\ Lookup(Current(p).hash).source = "manual")
      <4>1. sync' = [sync EXCEPT ![p].pc = "insert"]
        BY <2>2, <3>4 DEF SelectSource
      <4>2. TypeOK'
        BY <3>1, <4>1 DEF TypeOK
      <4>3. user[Current(p).hash.digest] # "added"
        <5>1. Current(p).hash \in Hash
          BY <3>1 DEF Current, TypeOK, Feed, Record
        <5> QED BY <3>4, <5>1 DEF ManualSurvives
      <4> QED BY <3>1, <3>2, <4>1, <4>2, <4>3 DEF TypeOK, Lookup, Current
    <3> QED BY <3>3, <3>4
  <2>3. CASE InsertEntry(p)
    <3> DEFINE h == Current(p).hash
    <3>1. /\ sync[p].pc = "insert" /\ user' = user /\ NextEntry(p)
          /\ db' = [db EXCEPT ![normalizeHash(h)] = [name |-> Current(p).name, source |-> "feed"]]
      BY <2>3 DEF InsertEntry, Upserted
    <3>2. h \in Hash /\ [name |-> Current(p).name, source |-> "feed"] \in Entry
      BY <3>1 DEF Current, TypeOK, Feed, Record, Entry
    <3>3. user[h.digest] # "added"
      BY <3>1
    <3> HIDE DEF h
    <3>4. normalizeHash(h) \in Hash
      BY <3>2, Normalized
    <3>5. TypeOK'
      BY <3>1, <3>2, <3>4, Advance DEF TypeOK
    <3>6. ManualSurvives'
      <4> SUFFICES ASSUME NEW g \in Hash, user[g.digest] = "added"
                   PROVE  db'[normalizeHash(g)] = db[normalizeHash(g)]
        BY <3>1 DEF ManualSurvives, Lookup
      <4>2. normalizeHash(g) # normalizeHash(h)
        BY <3>2, <3>3, SameDigest
      <4> QED BY <3>1, <4>2 DEF TypeOK
    <3>7. ASSUME NEW q \in Proc
          PROVE  /\ sync'[q].pc \in {"select", "insert"} => sync'[q].i \in DOMAIN sync'[q].batch
                 /\ sync'[q].pc = "insert" => user'[Current(q)'.hash.digest] # "added"
      <4>1. CASE q = p
        BY <3>1, <4>1, Advance
      <4>2. CASE q # p
        <5>1. sync'[q] = sync[q]
          BY <3>1, <4>2, Advance
        <5>2. Current(q)' = Current(q)
          BY <5>1 DEF Current
        <5> QED BY <3>1, <5>1, <5>2
      <4> QED BY <4>1, <4>2
    <3> QED BY <3>5, <3>6, <3>7
  <2>4. CASE Report(p) \/ Abort(p)
    <3>1. db' = db /\ user' = user /\ sync' = [sync EXCEPT ![p] = NoSync]
      BY <2>4 DEF Report, Abort
    <3>2. TypeOK'
      BY <3>1, IdleSync DEF TypeOK
    <3>3. ManualSurvives'
      BY <3>1 DEF ManualSurvives, Lookup
    <3>4. NoSync.pc = "idle"
      BY DEF NoSync
    <3> QED BY <3>1, <3>2, <3>3, <3>4 DEF TypeOK, Lookup, Current
  <2> QED BY <1>3, <2>1, <2>2, <2>3, <2>4 DEF Sync
<1>4. CASE UNCHANGED vars
  BY <1>4 DEF vars, TypeOK, ManualSurvives, Lookup, Current
<1> QED BY <1>1, <1>2, <1>3, <1>4 DEF Next

(* hashes add is final: whatever runs beside each other, no sync replaces or *)
(* removes an entry that the user added (Upsert's `continue`), but one whose *)
(* SELECT came before the addition and whose INSERT comes after it.          *)
THEOREM AddIsFinal == Spec => []ManualSurvives
<1>1. SyncInv /\ [Next]_vars => SyncInv'
  BY SyncNext
<1>2. SyncInv => ManualSurvives
  BY DEF SyncInv
<1> QED BY <1>1, <1>2, InitSync, PTL DEF Spec

-----------------------------------------------------------------------------
(* What makes OneEntryPerDigest inductive: every key of the table is a       *)
(* canonical spelling.                                                       *)
Keyed == /\ db = [h \in Hash |-> db[h]]
         /\ \A h \in Hash : db[h] # None => h.canonical

(* An upsert, whatever it writes and under whatever spelling, keeps the keys *)
(* canonical.                                                                *)
LEMMA UpsertedKeyed ==
  ASSUME Keyed, NEW hash, NEW entry, db' = Upserted(hash, entry)
  PROVE  Keyed'
<1>1. db' = [db EXCEPT ![normalizeHash(hash)] = entry] /\ db = [h \in Hash |-> db[h]]
  BY DEF Upserted, Keyed
<1>2. db' = [h \in Hash |-> db'[h]]
  <2>1. DOMAIN db' = Hash
    BY <1>1
  <2> QED BY <1>1, <2>1
<1>3. ASSUME NEW h \in Hash, db'[h] # None PROVE h.canonical
  <2>1. CASE h = normalizeHash(hash)
    <3>1. h = [hash EXCEPT !.canonical = TRUE] /\ DOMAIN h = {"digest", "canonical"}
      BY <2>1 DEF normalizeHash, Hash
    <3> QED BY <3>1
  <2>2. CASE h # normalizeHash(hash)
    <3>1. db'[h] = db[h]
      BY <1>1, <2>2
    <3> QED BY <1>3, <3>1 DEF Keyed
  <2> QED BY <2>1, <2>2
<1> QED BY <1>2, <1>3 DEF Keyed

(* Each action writes the table by an upsert, removes a key or leaves it.    *)
LEMMA KeyedNext == ASSUME Keyed, [Next]_vars PROVE Keyed'
<1>1. ASSUME NEW h \in Hash, HashesRm(h) PROVE Keyed'
  BY <1>1, UpsertedKeyed DEF HashesRm, Upserted
<1>2. ASSUME NEW h \in Hash, NEW n \in Label, HashesAdd(h, n) PROVE Keyed'
  BY <1>2, UpsertedKeyed DEF HashesAdd
<1>3. ASSUME NEW p \in Proc, InsertEntry(p) PROVE Keyed'
  BY <1>3, UpsertedKeyed DEF InsertEntry
<1>4. ASSUME db' = db PROVE Keyed'
  BY <1>4 DEF Keyed
<1>5. ASSUME NEW p \in Proc, Sync(p), ~InsertEntry(p) PROVE db' = db
  BY <1>5 DEF Sync, Fetch, SelectSource, Report, Abort
<1>6. UNCHANGED vars => db' = db
  BY DEF vars
<1> QED BY <1>1, <1>2, <1>3, <1>4, <1>5, <1>6 DEF Next

(* A digest has one entry, found under every spelling: for any digests and   *)
(* feeds, with any number of syncs, killed or not, beside the user's         *)
(* commands.                                                                 *)
THEOREM OneSpelling == Spec => []OneEntryPerDigest
<1>1. Init => Keyed
  BY DEF Init, Keyed
<1>2. Keyed /\ [Next]_vars => Keyed'
  BY KeyedNext
<1>3. Keyed => OneEntryPerDigest
  <2> SUFFICES ASSUME Keyed, NEW g \in Hash, db[g] # None, NEW h \in Spellings(g.digest)
               PROVE  Lookup(h) = db[g]
    BY DEF OneEntryPerDigest
  <2>1. h \in Hash /\ h.digest = g.digest /\ g.canonical
    BY DEF Spellings, Keyed
  <2>2. normalizeHash(g) = g
    BY <2>1 DEF normalizeHash, Hash
  <2>3. normalizeHash(h) = g
    BY <2>1, <2>2, SameDigest
  <2> QED BY <2>3 DEF Lookup
<1> QED BY <1>1, <1>2, <1>3, PTL DEF Spec

-----------------------------------------------------------------------------
(* What is needed beside RemovedIsGone: the tables keep their keys.          *)
GoneInv == /\ Keyed /\ RemovedIsGone
           /\ user = [d \in Digest |-> user[d]]

(* A digest that is removed goes under every spelling, and what returns      *)
(* comes from a feed: whatever commands and syncs run beside each other.     *)
THEOREM RemovedReturnsByFeedOnly == Spec => []RemovedIsGone
<1>1. Init => GoneInv
  BY DEF Init, GoneInv, Keyed, RemovedIsGone, Lookup, normalizeHash, Hash
<1>2. GoneInv /\ [Next]_vars => GoneInv'
  <2> SUFFICES ASSUME GoneInv, [Next]_vars PROVE GoneInv'
    OBVIOUS
  <2>1. /\ Keyed /\ Keyed' /\ user = [d \in Digest |-> user[d]]
        /\ db = [h \in Hash |-> db[h]]
        /\ \A g \in Hash : user[g.digest] = "removed" =>
              db[normalizeHash(g)] = None \/ db[normalizeHash(g)].source = "feed"
    BY KeyedNext DEF GoneInv, Keyed, RemovedIsGone, Lookup
  <2>2. ASSUME user' = [d \in Digest |-> user'[d]],
               \A g \in Hash : user'[g.digest] = "removed" =>
                 db'[normalizeHash(g)] = None \/ db'[normalizeHash(g)].source = "feed"
        PROVE  GoneInv'
    BY <2>1, <2>2 DEF GoneInv, RemovedIsGone, Lookup
  <2>3. \A g \in Hash : normalizeHash(g) \in Hash /\ g.digest \in Digest
    BY Normalized DEF Hash
  <2>4. ASSUME NEW h \in Hash, HashesRm(h) PROVE GoneInv'
    <3>1. /\ db' = [db EXCEPT ![normalizeHash(h)] = None]
          /\ user' = user \/ user' = [user EXCEPT ![h.digest] = "removed"]
      BY <2>4 DEF HashesRm
    <3>2. ASSUME NEW g \in Hash, user'[g.digest] = "removed"
          PROVE  db'[normalizeHash(g)] = None \/ db'[normalizeHash(g)].source = "feed"
      <4>1. CASE g.digest = h.digest
        BY <2>1, <2>3, <3>1, <4>1, SameDigest
      <4>2. CASE g.digest # h.digest
        <5>1. user[g.digest] = "removed" BY <2>1, <2>3, <3>1, <3>2, <4>2
        <5>2. normalizeHash(g) # normalizeHash(h) BY <4>2, SameDigest
        <5> QED BY <2>1, <3>1, <5>1, <5>2, <2>3
      <4> QED BY <4>1, <4>2
    <3>3. user' = [d \in Digest |-> user'[d]] BY <3>1, <2>1
    <3> QED BY <3>2, <3>3, <2>2
  <2>5. ASSUME NEW h \in Hash, NEW n \in Label, HashesAdd(h, n) PROVE GoneInv'
    <3>1. /\ db' = [db EXCEPT ![normalizeHash(h)] = [name |-> n, source |-> "manual"]]
          /\ user' = [user EXCEPT ![h.digest] = IF Contested(h.digest) THEN "contested" ELSE "added"]
      BY <2>5 DEF HashesAdd, Upserted
    <3>2. ASSUME NEW g \in Hash, user'[g.digest] = "removed"
          PROVE  db'[normalizeHash(g)] = None \/ db'[normalizeHash(g)].source = "feed"
      <4>1. g.digest # h.digest BY <2>1, <2>3, <3>1, <3>2
      <4>2. user[g.digest] = "removed" BY <2>1, <2>3, <3>1, <3>2, <4>1
      <4>3. normalizeHash(g) # normalizeHash(h) BY <4>1, SameDigest
      <4> QED BY <2>1, <2>3, <3>1, <4>2, <4>3
    <3>3. user' = [d \in Digest |-> user'[d]] BY <3>1, <2>1
    <3> QED BY <3>2, <3>3, <2>2
  <2>6. ASSUME NEW p \in Proc, InsertEntry(p) PROVE GoneInv'
    <3> DEFINE e == [name |-> Current(p).name, source |-> "feed"]
    <3>1. db' = [db EXCEPT ![normalizeHash(Current(p).hash)] = e] /\ user' = user
      BY <2>6 DEF InsertEntry, Upserted
    <3>2. e.source = "feed" OBVIOUS
    <3> HIDE DEF e
    <3>3. \A k \in Hash : db'[k] = db[k] \/ db'[k] = e BY <3>1, <2>1
    <3> QED BY <3>1, <3>2, <3>3, <2>1, <2>2, <2>3
  <2>7. ASSUME db' = db, user' = user PROVE GoneInv'
    BY <2>1, <2>2, <2>7
  <2>8. ASSUME NEW p \in Proc, Sync(p), ~InsertEntry(p) PROVE db' = db /\ user' = user
    BY <2>8 DEF Sync, Fetch, SelectSource, Report, Abort
  <2>9. UNCHANGED vars => db' = db /\ user' = user
    BY DEF vars
  <2> QED BY <2>4, <2>5, <2>6, <2>7, <2>8, <2>9 DEF Next
<1>3. GoneInv => RemovedIsGone
  BY DEF GoneInv
<1> QED BY <1>1, <1>2, <1>3, PTL DEF Spec

-----------------------------------------------------------------------------
(* The entry that stands for the k-th row of p's feed: the user's, or that   *)
(* of this row or a later one, or none because the user has removed it.      *)
Stored(p, k) ==
  LET r == sync[p].batch[k]  e == Lookup(r.hash) IN
    \/ e = None /\ user[r.hash.digest] = "removed"
    \/ e # None /\ e.source = "manual"
    \/ e # None /\ \E l \in k .. Len(sync[p].batch) :
                      sync[p].batch[l] = [r EXCEPT !.name = e.name]

(* The loop has stored the rows it has passed, and a sync compares them by   *)
(* the spelling that Parse has given them.                                   *)
CoverInv ==
  /\ SyncInv
  /\ \A p \in Proc : sync[p].pc = "idle" => sync[p] = NoSync
  /\ \A p \in Proc : \A k \in DOMAIN sync[p].batch :
       /\ normalizeHash(sync[p].batch[k].hash) = sync[p].batch[k].hash
       /\ sync[p].pc = "report" \/ k < sync[p].i => Stored(p, k)

(* A feed has the shape of a sequence.                                       *)
LEMMA FeedShape ==
  ASSUME NEW b \in Feed
  PROVE  /\ Len(b) \in 0 .. FeedSize /\ DOMAIN b = 1 .. Len(b)
         /\ \A k \in DOMAIN b : b[k] \in Record /\ b[k].hash \in Hash /\ k \in Nat
<1>1. PICK n \in 0 .. FeedSize : b \in [1 .. n -> Record]
  BY DEF Feed
<1>2. Len(b) = n /\ DOMAIN b = 1 .. n
  BY <1>1, HashDbAssumption
<1> QED BY <1>1, <1>2 DEF Record

(* A row stays stored when its batch, its entry and the user's mind do.      *)
LEMMA StoredStays ==
  ASSUME NEW p \in Proc, NEW k, Stored(p, k), sync'[p].batch = sync[p].batch,
         Lookup(sync[p].batch[k].hash)' = Lookup(sync[p].batch[k].hash),
         user'[sync[p].batch[k].hash.digest] = user[sync[p].batch[k].hash.digest]
  PROVE  Stored(p, k)'
  BY DEF Stored

(* The sync turns to its next row: it passes the row it is at, if that is    *)
(* stored, and leaves what it has stored before.                             *)
LEMMA PassRow ==
  ASSUME CoverInv, SyncInv', NEW p \in Proc, sync[p].pc \in {"select", "insert"}, NextEntry(p),
         Proc = {p},
         \A k \in DOMAIN sync[p].batch : k <= sync[p].i => Stored(p, k)'
  PROVE  CoverInv'
<1> DEFINE b == sync[p].batch
<1>1. b \in Feed /\ sync[p].i \in DOMAIN b
  BY DEF CoverInv, SyncInv, TypeOK
<1>2. Len(b) \in Nat /\ DOMAIN b = 1 .. Len(b) /\ sync[p].i \in 1 .. Len(b)
  BY <1>1, FeedShape, HashDbAssumption
<1>3. sync'[p].batch = b /\ sync'[p].i = sync[p].i + 1
      /\ sync'[p].pc = (IF sync[p].i = Len(b) THEN "report" ELSE "select")
  BY DEF NextEntry, CoverInv, SyncInv, TypeOK
<1> HIDE DEF b
<1>4. ASSUME NEW k \in DOMAIN b, sync'[p].pc = "report" \/ k < sync'[p].i PROVE k <= sync[p].i
  BY <1>2, <1>3, <1>4
<1>5. \A k \in DOMAIN b : normalizeHash(b[k].hash) = b[k].hash
  BY DEF CoverInv, b
<1>6. \A k \in DOMAIN b : k <= sync[p].i => Stored(p, k)'
  BY DEF b
<1> QED BY <1>3, <1>4, <1>5, <1>6 DEF CoverInv

(* Without another sync beside it, a sync that reports success has stored    *)
(* every row of its feed, under the last name that the feed gives to it,     *)
(* unless the user named or removed it, at any time before or beside it.     *)
THEOREM SyncStoresAll ==
  ASSUME \A p, q \in Proc : p = q
  PROVE  Spec => []SyncCovers
<1>1. Init => CoverInv
  <2> SUFFICES ASSUME Init PROVE CoverInv
    OBVIOUS
  <2>1. \A p \in Proc : sync[p] = NoSync /\ DOMAIN sync[p].batch = {}
    BY DEF Init, NoSync
  <2> QED BY <2>1, InitSync DEF CoverInv
<1>2. CoverInv /\ [Next]_vars => CoverInv'
  <2> SUFFICES ASSUME CoverInv, [Next]_vars PROVE CoverInv'
    OBVIOUS
  <2>1. SyncInv /\ TypeOK /\ SyncInv'
    BY SyncNext DEF CoverInv, SyncInv
  <2>2. ASSUME NEW h \in Hash, HashesRm(h) \/ \E n \in Label : HashesAdd(h, n)
        PROVE  CoverInv'
    <3>1. sync' = sync /\ normalizeHash(h) \in Hash /\ h.digest \in Digest
      BY <2>2, Normalized DEF HashesRm, HashesAdd, Hash
    <3>2. ASSUME NEW p \in Proc, NEW k \in DOMAIN sync[p].batch, Stored(p, k) PROVE Stored(p, k)'
      <4> DEFINE r == sync[p].batch[k]
      <4>1. r.hash \in Hash /\ r.hash.digest \in Digest /\ normalizeHash(r.hash) \in Hash
        BY <2>1, FeedShape, Normalized DEF TypeOK, Hash
      <4>2. CASE r.hash.digest # h.digest
        <5>1. normalizeHash(r.hash) # normalizeHash(h)
          BY <4>1, <4>2, SameDigest
        <5>2. Lookup(r.hash)' = Lookup(r.hash)
          BY <2>1, <2>2, <3>1, <4>1, <5>1 DEF HashesRm, HashesAdd, Upserted, Lookup, TypeOK
        <5>3. user'[r.hash.digest] = user[r.hash.digest]
          BY <2>1, <2>2, <3>1, <4>1, <4>2 DEF HashesRm, HashesAdd, TypeOK
        <5> QED BY <3>1, <3>2, <5>2, <5>3, StoredStays
      <4>3. CASE r.hash.digest = h.digest
        <5>1. normalizeHash(r.hash) = normalizeHash(h) /\ Lookup(r.hash) = Lookup(h)
          BY <4>1, <4>3, SameDigest DEF Lookup
        <5>2. CASE HashesRm(h)
          <6>1. Lookup(r.hash)' = None
            BY <2>1, <3>1, <5>1, <5>2 DEF HashesRm, Lookup, TypeOK
          <6>2. Lookup(h) = None => user[h.digest] = "removed"
            BY <3>2, <4>3, <5>1 DEF Stored
          <6>3. user'[r.hash.digest] = "removed"
            BY <2>1, <3>1, <4>3, <5>2, <6>2 DEF HashesRm, TypeOK
          <6> QED BY <3>1, <6>1, <6>3 DEF Stored
        <5>3. CASE \E n \in Label : HashesAdd(h, n)
          <6>1. PICK n \in Label : HashesAdd(h, n)
            BY <5>3
          <6>2. [name |-> n, source |-> "manual"] \in Entry
            BY DEF Entry
          <6>3. Lookup(r.hash)' = [name |-> n, source |-> "manual"]
            BY <2>1, <3>1, <5>1, <6>1 DEF HashesAdd, Upserted, Lookup, TypeOK
          <6> QED BY <3>1, <6>2, <6>3, HashDbAssumption DEF Stored
        <5> QED BY <2>2, <5>2, <5>3
      <4> QED BY <4>2, <4>3
    <3> QED BY <2>1, <3>1, <3>2 DEF CoverInv
  <2>3. ASSUME NEW p \in Proc, Sync(p) PROVE CoverInv'
    <3>1. Proc = {p}
      OBVIOUS
    <3> DEFINE b == sync[p].batch
               i == sync[p].i
    <3>2. b \in Feed /\ i \in 1 .. (FeedSize + 1)
      BY <2>1 DEF TypeOK
    <3>3. ASSUME NEW feed \in Feed, Fetch(p, feed) PROVE CoverInv'
      <4>1. PICK c : c = Parse(feed)
        OBVIOUS
      <4>2. sync'[p].batch = c /\ sync'[p].i = 1
            /\ (sync'[p].pc = "report" => feed = <<>>) /\ sync'[p].pc # "idle"
        BY <2>1, <3>3, <4>1 DEF Fetch, TypeOK
      <4>3. DOMAIN c = 1 .. Len(feed) /\ Len(feed) \in Nat
        BY <4>1, FeedShape, HashDbAssumption DEF Parse
      <4>4. \A k \in DOMAIN c : normalizeHash(c[k].hash) = c[k].hash
        BY <4>1, <4>3, FeedShape, Normalized DEF Parse
      <4>5. feed = <<>> => DOMAIN c = {}
        BY <4>3
      <4>6. \A k \in DOMAIN c : ~(k < 1)
        BY <4>3
      <4> QED BY <2>1, <3>1, <4>2, <4>4, <4>5, <4>6 DEF CoverInv
    <3>4. CASE SelectSource(p)
      <4>1. db' = db /\ user' = user /\ sync[p].pc = "select" /\ i \in DOMAIN b
        BY <2>1, <3>4 DEF SelectSource, SyncInv
      <4>2. CASE Lookup(Current(p).hash) # None /\ Lookup(Current(p).hash).source = "manual"
        <5>1. NextEntry(p)
          BY <3>4, <4>2 DEF SelectSource
        <5>2. sync'[p].batch = b
          BY <2>1, <5>1 DEF NextEntry, TypeOK
        <5>3. \A k \in DOMAIN b : Stored(p, k) => Stored(p, k)'
          BY <4>1, <5>2, StoredStays DEF Lookup
        <5>4. Stored(p, i)
          BY <4>2 DEF Stored, Current
        <5>5. \A k \in DOMAIN b : k <= i => k < i \/ k = i
          BY <3>2, FeedShape, HashDbAssumption
        <5>6. \A k \in DOMAIN b : k <= i => Stored(p, k)
          BY <5>4, <5>5 DEF CoverInv
        <5> QED BY <2>1, <3>1, <4>1, <5>1, <5>3, <5>6, PassRow
      <4>3. CASE ~(Lookup(Current(p).hash) # None /\ Lookup(Current(p).hash).source = "manual")
        <5>1. sync' = [sync EXCEPT ![p].pc = "insert"]
          BY <3>4, <4>3 DEF SelectSource
        <5>2. sync'[p].batch = b /\ sync'[p].i = i /\ sync'[p].pc = "insert"
          BY <2>1, <5>1 DEF TypeOK
        <5>3. \A k \in DOMAIN b : Stored(p, k) => Stored(p, k)'
          BY <4>1, <5>2, StoredStays DEF Lookup
        <5> QED BY <2>1, <3>1, <5>2, <5>3 DEF CoverInv
      <4> QED BY <4>2, <4>3
    <3>5. CASE InsertEntry(p)
      <4> DEFINE c == Current(p)
                 e == [name |-> c.name, source |-> "feed"]
      <4>1. /\ sync[p].pc = "insert" /\ NextEntry(p) /\ i \in DOMAIN b /\ user' = user
            /\ db' = [db EXCEPT ![normalizeHash(c.hash)] = e]
        BY <2>1, <3>5 DEF InsertEntry, Upserted, SyncInv
      <4>2. c \in Record /\ c = b[i] /\ c.hash \in Hash /\ e \in Entry /\ e.name = c.name
        BY <3>2, <4>1, FeedShape DEF Current, Record, Entry
      <4>3. sync'[p].batch = b
        BY <2>1, <4>1 DEF NextEntry, TypeOK
      <4>4. e # None
        BY <4>2, HashDbAssumption
      <4>5. Len(b) \in Nat /\ DOMAIN b = 1 .. Len(b) /\ i \in 1 .. Len(b)
        BY <3>2, <4>1, FeedShape, HashDbAssumption
      <4> HIDE DEF e, c
      <4>7. \A h \in Hash : db'[h] = IF h = normalizeHash(c.hash) THEN e ELSE db[h]
        BY <2>1, <4>1 DEF TypeOK
      <4>6. ASSUME NEW k \in DOMAIN b, k <= i PROVE Stored(p, k)'
        <5>1. b[k] \in Record /\ b[k].hash \in Hash /\ normalizeHash(b[k].hash) = b[k].hash
          BY <3>2, FeedShape DEF CoverInv
        <5>2. CASE b[k].hash = c.hash
          <6>1. Lookup(b[k].hash)' = e
            BY <4>3, <4>7, <5>1, <5>2 DEF Lookup
          <6>2. b[i] = [b[k] EXCEPT !.name = e.name]
            BY <4>2, <5>1, <5>2 DEF Record
          <6>3. i \in k .. Len(b)
            BY <4>5, <4>6
          <6> QED BY <4>3, <4>4, <6>1, <6>2, <6>3 DEF Stored
        <5>3. CASE b[k].hash # c.hash
          <6>1. normalizeHash(c.hash) = c.hash
            BY <4>1, <4>2 DEF CoverInv
          <6>2. Lookup(b[k].hash)' = Lookup(b[k].hash)
            BY <4>3, <4>7, <5>1, <5>3, <6>1 DEF Lookup
          <6>3. k < i
            BY <4>2, <4>5, <4>6, <5>3
          <6>4. Stored(p, k)
            BY <6>3 DEF CoverInv
          <6> QED BY <4>1, <4>3, <6>2, <6>4, StoredStays
        <5> QED BY <5>2, <5>3
      <4> QED BY <2>1, <3>1, <4>1, <4>6, PassRow
    <3>6. CASE Report(p) \/ Abort(p)
      <4>1. sync'[p] = NoSync
        BY <2>1, <3>6 DEF Report, Abort, TypeOK
      <4>2. DOMAIN sync'[p].batch = {}
        BY <4>1 DEF NoSync
      <4> QED BY <2>1, <3>1, <4>1, <4>2 DEF CoverInv
    <3> QED BY <2>3, <3>3, <3>4, <3>5, <3>6 DEF Sync
  <2>4. ASSUME db' = db, sync' = sync, user' = user PROVE CoverInv'
    BY <2>1, <2>4 DEF CoverInv, Stored, Lookup
  <2> QED BY <2>2, <2>3, <2>4 DEF Next, vars
<1>3. CoverInv => SyncCovers
  BY DEF CoverInv, SyncCovers, Stored
<1> QED BY <1>1, <1>2, <1>3, PTL DEF Spec
=============================================================================

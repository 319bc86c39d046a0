------------------------------- MODULE HashDb -------------------------------
(***************************************************************************)
(* The table of known-bad hashes (internal/hashdb) and the commands that   *)
(* change it: hashes add, hashes rm and sync, which parses a feed          *)
(* (internal/feed) and upserts its entries one by one, without a           *)
(* transaction and with a SELECT before each INSERT.  Every command is a   *)
(* process; several syncs may run beside the user's commands.              *)
(***************************************************************************)
EXTENDS Naturals, Sequences

CONSTANTS Digest,    \* SHA-256 digests
          Label,     \* names of malware
          Proc,      \* sync processes
          FeedSize,  \* bound on the rows of a feed
          None

(* A digest as a user or a feed writes it: canonical is lower case and trimmed. *)
Hash   == [digest : Digest, canonical : BOOLEAN]
Entry  == [name : Label, source : {"manual", "feed"}]
Record == [hash : Hash, name : Label]
Feed   == UNION {[1 .. n -> Record] : n \in 0 .. FeedSize}
NoSync == [pc |-> "idle", batch |-> <<>>, i |-> 1]

ASSUME HashDbAssumption == FeedSize \in Nat /\ None \notin Entry

VARIABLES db,    \* hash_entries
          sync,  \* the sync in each process: what it fetched and how far it is
          user   \* history: what the user last did to the entry of each digest

vars == <<db, sync, user>>

TypeOK ==
  /\ db   \in [Hash -> Entry \cup {None}]
  /\ sync \in [Proc -> [pc : {"idle", "select", "insert", "report"},
                        batch : Feed, i : 1 .. (FeedSize + 1)]]
  /\ user \in [Digest -> {"never", "added", "contested", "removed"}]

Init ==
  /\ db = [h \in Hash |-> None]
  /\ sync = [p \in Proc |-> NoSync]
  /\ user = [d \in Digest |-> "never"]

(* Mutant: compared as it was written. *)
normalizeHash_Identity(hash) == hash

normalizeHash(hash) == [hash EXCEPT !.canonical = TRUE]

(* INSERT ... ON CONFLICT(hash) DO UPDATE. *)
Upserted(hash, entry) == [db EXCEPT ![normalizeHash(hash)] = entry]

Lookup(hash) == db[normalizeHash(hash)]

-----------------------------------------------------------------------------
Current(p) == sync[p].batch[sync[p].i]

(* Some sync has looked at the digest and is about to write its entry. *)
Contested(digest) == \E p \in Proc : sync[p].pc = "insert" /\ Current(p).hash.digest = digest

(* hashes add: one manual entry, which needs no SELECT. *)
HashesAdd(hash, name) ==
  /\ db' = Upserted(hash, [name |-> name, source |-> "manual"])
  /\ user' = [user EXCEPT ![hash.digest] = IF Contested(hash.digest) THEN "contested" ELSE "added"]
  /\ UNCHANGED sync

(* Mutant: the spelling the user typed is deleted. *)
HashesRm_AsTyped(hash) ==
  /\ db' = [db EXCEPT ![hash] = None]
  /\ user' = IF Lookup(hash) = None THEN user ELSE [user EXCEPT ![hash.digest] = "removed"]
  /\ UNCHANGED sync

(* hashes rm. *)
HashesRm(hash) ==
  /\ db' = [db EXCEPT ![normalizeHash(hash)] = None]
  /\ user' = IF Lookup(hash) = None THEN user ELSE [user EXCEPT ![hash.digest] = "removed"]
  /\ UNCHANGED sync

(* Parse keeps the rows that have a hash, lower-cased and trimmed. *)
Parse(feed) == [k \in DOMAIN feed |-> [hash |-> normalizeHash(feed[k].hash), name |-> feed[k].name]]

(* sync: a feed that cannot be fetched or parsed ends it here. *)
Fetch(p, feed) ==
  /\ sync[p].pc = "idle"
  /\ sync' = [sync EXCEPT ![p] = [pc |-> IF feed = <<>> THEN "report" ELSE "select",
                                  batch |-> Parse(feed), i |-> 1]]
  /\ UNCHANGED <<db, user>>

(* The next turn of the loop, or its end. *)
NextEntry(p) ==
  sync' = [sync EXCEPT ![p] = [@ EXCEPT !.i = sync[p].i + 1,
             !.pc = IF sync[p].i = Len(sync[p].batch) THEN "report" ELSE "select"]]

(* Mutant: a manual entry ends the loop instead of being skipped. *)
SelectSource_Returns(p) ==
  /\ sync[p].pc = "select"
  /\ LET e == Lookup(Current(p).hash) IN
       sync' = [sync EXCEPT ![p].pc = IF e # None /\ e.source = "manual" THEN "report" ELSE "insert"]
  /\ UNCHANGED <<db, user>>

(* Mutant: the source is not looked at. *)
SelectSource_Skipped(p) ==
  /\ sync[p].pc = "select"
  /\ sync' = [sync EXCEPT ![p].pc = "insert"]
  /\ UNCHANGED <<db, user>>

(* Upsert of a feed entry: SELECT source; a manual entry is skipped ... *)
SelectSource(p) ==
  /\ sync[p].pc = "select"
  /\ LET e == Lookup(Current(p).hash) IN
       IF e # None /\ e.source = "manual" THEN NextEntry(p)
       ELSE sync' = [sync EXCEPT ![p].pc = "insert"]
  /\ UNCHANGED <<db, user>>

(* ... and anything else is written, in a statement of its own. *)
InsertEntry(p) ==
  /\ sync[p].pc = "insert"
  /\ db' = Upserted(Current(p).hash, [name |-> Current(p).name, source |-> "feed"])
  /\ NextEntry(p)
  /\ UNCHANGED user

(* runSync reports the count and ends. *)
Report(p) ==
  /\ sync[p].pc = "report"
  /\ sync' = [sync EXCEPT ![p] = NoSync]
  /\ UNCHANGED <<db, user>>

(* A failed statement or a kill: the entries written so far stay. *)
Abort(p) ==
  /\ sync[p].pc \in {"select", "insert"}
  /\ sync' = [sync EXCEPT ![p] = NoSync]
  /\ UNCHANGED <<db, user>>

Sync(p) == \/ \E feed \in Feed : Fetch(p, feed)
           \/ SelectSource(p) \/ InsertEntry(p) \/ Report(p) \/ Abort(p)

Next == \/ \E h \in Hash : HashesRm(h) \/ \E n \in Label : HashesAdd(h, n)
        \/ \E p \in Proc : Sync(p)

Spec == Init /\ [][Next]_vars

-----------------------------------------------------------------------------
Spellings(d) == {h \in Hash : h.digest = d}

(* However a digest is written when it is added, removed, synced or looked   *)
(* up, and with syncs that are killed half-way or run beside each other and  *)
(* the user's commands: a stored entry is the one entry of its digest, and   *)
(* Lookup finds it under every spelling.                                     *)
OneEntryPerDigest ==
  \A g \in Hash : db[g] # None => \A h \in Spellings(g.digest) : Lookup(h) = db[g]

(* A digest that the user added stays a manual entry until the user removes  *)
(* it, through every sync that runs before, beside or after the addition,    *)
(* finished or not: "manually added hashes ... are never overwritten or      *)
(* removed by sync".  The one addition that can be lost is that made while a *)
(* sync is between the SELECT and the INSERT of this very digest.            *)
ManualSurvives ==
  \A h \in Hash : user[h.digest] = "added" => Lookup(h) # None /\ Lookup(h).source = "manual"

(* A digest that the user has removed, however it was spelled, is gone; if it *)
(* is known again, a feed has brought it back.                               *)
RemovedIsGone ==
  \A h \in Hash : user[h.digest] = "removed" => Lookup(h) = None \/ Lookup(h).source = "feed"

(* A sync that reports success has stored every entry of its feed, also what *)
(* an earlier one that failed half-way has left out, and whatever the user   *)
(* adds and removes beside it: each entry is known, by the name its last row *)
(* gives it unless the user named it, or the user has removed it.  A second  *)
(* sync beside it may bring another name.                                    *)
SyncCovers ==
  \A p \in Proc : sync[p].pc = "report" =>
    \A k \in DOMAIN sync[p].batch : LET r == sync[p].batch[k]  e == Lookup(r.hash) IN
      \/ e = None /\ user[r.hash.digest] = "removed"
      \/ e # None /\ e.source = "manual"
      \/ e # None /\ \E l \in k .. Len(sync[p].batch) :
                        sync[p].batch[l] = [r EXCEPT !.name = e.name]

-----------------------------------------------------------------------------
(* What the documents say and the code does not do. *)

(* "manually added hashes ... are never overwritten or removed by sync",     *)
(* whenever they are added.                                                  *)
AdditionSurvives ==
  \A h \in Hash : user[h.digest] \in {"added", "contested"} =>
     Lookup(h) # None /\ Lookup(h).source = "manual"

(* "tagging their source distinctly from manual entries so a manual removal  *)
(* isn't silently reintroduced by the next sync": a digest whose entry the   *)
(* user has removed stays out of the table until the user adds it again.     *)
RemovedStaysRemoved ==
  \A h \in Hash : user[h.digest] = "removed" => Lookup(h) = None
=============================================================================

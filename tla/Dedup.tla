-------------------------------- MODULE Dedup -------------------------------
(***************************************************************************)
(* The Redis side of deduplication: services/intake/internal/dedup.        *)
(*                                                                         *)
(* cache[k] is the Redis string at the key of k.  Each operator below is   *)
(* the effect of one Redis command.  Redis runs commands one at a time, so *)
(* each is atomic; whether the caller learns of the effect is decided in   *)
(* Submit.  SentinelHits, PendingEntryForever, PlainSetWins and            *)
(* ClaimForADay are not the code but mistakes that could be made in it.    *)
(***************************************************************************)
EXTENDS IntakeBase

VARIABLE cache

\* Seconds; 0 is Redis's "no expiration".
PendingTTL == 30
DefaultTTL == 24 * 60 * 60
NoTTL == 0

Empty == [value |-> Vacant, ttl |-> NoTTL]

PendingEntryForever == [value |-> Sentinel, ttl |-> NoTTL]
PendingEntry == [value |-> Sentinel, ttl |-> PendingTTL]

CommittedEntry(id) == [value |-> id, ttl |-> DefaultTTL]

\* What a key can hold: each value comes with its own TTL.
Entries == {Empty, PendingEntry} \cup {CommittedEntry(id) : id \in Ids}

DedupTypeOK == cache \in [Keys -> Entries]

DedupInit == cache = [k \in Keys |-> Empty]

Write(k, entry) == cache' = [cache EXCEPT ![k] = entry]

\* GET: only a committed id is a hit, the sentinel counts as a miss.
SentinelHits(k) == cache[k].value # Vacant
Hit(k) == cache[k].value \in Ids

\* SET NX: whether it takes the slot, and what it leaves behind.
PlainSetWins(k) == TRUE
Claimable(k) == cache[k] = Empty
ClaimForADay(k) == Write(k, [value |-> Sentinel, ttl |-> DefaultTTL])
Claim(k) == Write(k, PendingEntry)

Pending(k) == cache[k].value = Sentinel

\* SET with the store's TTL, whatever is there.
Set(k, id) == Write(k, CommittedEntry(id))

\* DEL, whatever is there.
Release(k) == Write(k, Empty)

\* Redis drops a key that has a TTL once it is due.
Expirable(k) == cache[k].ttl # NoTTL
=============================================================================

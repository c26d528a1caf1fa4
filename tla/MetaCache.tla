------------------------------ MODULE MetaCache ------------------------------
(***************************************************************************)
(* The concurrent id cache of src/meta_cache.go: lock-free lookups in one  *)
(* map, shards that order their entries by use under a lock of their own,  *)
(* and one capacity over all shards: an insert past it evicts the least    *)
(* recently used entry, usually of another shard.                          *)
(*                                                                         *)
(* A step runs from one access of a word shared outside the shard locks    *)
(* (size, full, tailUsed) to the next.  The map and the order of a shard   *)
(* change together, under its lock.                                        *)
(***************************************************************************)
EXTENDS Integers, Sequences, FiniteSets, SequencesExt

CONSTANTS Procs,         \* goroutines that use the cache
          Keys,
          Capacity,
          MaxShards,     \* metaCacheShardCount
          Hash,          \* Hash[k]: maphash.Comparable of a key
          MaxEntries,    \* bound: entries inserted in a behaviour
          HasTTL,        \* "yes" for the SQL UID cache, else "no"
          None

ShardCount   == IF Capacity < MaxShards THEN Capacity ELSE MaxShards
Shards       == 0 .. ShardCount - 1
AgeThreshold == LET half == (Capacity \div ShardCount) \div 2 IN IF half > 1 THEN half ELSE 1

VARIABLES
  m,          \* key -> its entry, 0 for none
  entry,      \* entries made: used and the two promotion marks
  made,       \* how many
  expired,    \* entries 1 .. expired are older than the ttl
  order,      \* per shard: entries, most recently used first
  mu,         \* per shard: the holder of the lock, or None
  opSeq, insertSeq,      \* per shard
  tailUsed,   \* per shard: used of its back as published
  size, clock, full,
  local,      \* per goroutine: pc, the key of its call, its entry e, and n, what
              \* its size.Add returned
  scan        \* per goroutine: oldestShard's next shard, choice and least used

entries == <<m, entry, made, order, opSeq, insertSeq, clock>>
vars == <<entries, expired, mu, tailUsed, size, full, local, scan>>

\* math.MaxUint64, which no clock reaches.
Infinity == (MaxEntries + 1) * (MaxEntries + 1)

Entries == 1 .. MaxEntries
NoEntry == [used |-> 0, lastPromoted |-> 0, promotedInsertSeq |-> 0]
NoScan  == [next |-> 0, oldest |-> None, least |-> Infinity]

ShardOf(k) == Hash[k] % ShardCount
MyShard(p) == ShardOf(local[p].key)
At(p, label) == local[p].pc = label

Goto(p, label) == local' = [local EXCEPT ![p].pc = label]
Call(p, label, k, x) == local' = [local EXCEPT ![p] = [pc |-> label, key |-> k, e |-> x, n |-> 0]]
Return(p) == Call(p, "idle", None, 0)
Rescan(p) == scan' = [scan EXCEPT ![p] = NoScan]

\* The used that syncTail publishes for shard s, as this step leaves it.
TailOf(ents, q) == IF q = <<>> THEN Infinity ELSE ents[Last(q)].used
syncTail(s) == tailUsed' = [tailUsed EXCEPT ![s] = TailOf(entry', order'[s])]

Unlock(s) == mu' = [mu EXCEPT ![s] = None]
Without(q, x) == SelectSeq(q, LAMBDA y : y # x)

\* The key of an entry that is in the map.
KeyOf(x) == CHOOSE k \in Keys : m[k] = x

\* A key leaves the map and an entry its order; nobody reads its marks again.
Delete(s, k, x) ==
  /\ m' = [m EXCEPT ![k] = 0]
  /\ order' = [order EXCEPT ![s] = Without(@, x)]
  /\ entry' = [entry EXCEPT ![x] = NoEntry]
  /\ UNCHANGED <<made, opSeq, insertSeq, clock>>

-----------------------------------------------------------------------------
(* peek: "promote" or "remove", both rechecked under the lock. *)

Expired(x) == x <= expired

promotionDue(x, s) ==
  /\ opSeq[s] - entry[x].lastPromoted >= AgeThreshold
  /\ insertSeq[s] # entry[x].promotedInsertSeq

\* The hits that go on to take the lock; the others change nothing.
peek(p, k) ==
  /\ At(p, "idle") /\ m[k] # 0
  /\ \/ Expired(m[k]) /\ Call(p, "remove", k, m[k])
     \/ /\ ~Expired(m[k]) /\ full = "yes" /\ promotionDue(m[k], ShardOf(k))
        /\ Call(p, "promote", k, m[k])
  /\ UNCHANGED <<entries, expired, mu, tailUsed, size, full, scan>>

SyncTailNever(s, x) == UNCHANGED tailUsed

\* wasBack: the entry that moves or goes was the back.
SyncTailIfBack(s, x) == IF Last(order[s]) = x THEN syncTail(s) ELSE UNCHANGED tailUsed

Promote(p) ==
  LET s == MyShard(p) x == local[p].e
      due == m[local[p].key] = x /\ full = "yes" /\ promotionDue(x, s)
  IN  /\ At(p, "promote") /\ mu[s] = None
      /\ \/ /\ due
            /\ order' = [order EXCEPT ![s] = <<x>> \o Without(@, x)]
            /\ opSeq' = [opSeq EXCEPT ![s] = @ + 1]
            /\ clock' = clock + 1
            /\ entry' = [entry EXCEPT ![x] = [used |-> clock + 1, lastPromoted |-> opSeq[s] + 1,
                                              promotedInsertSeq |-> insertSeq[s]]]
            /\ SyncTailIfBack(s, x)
            /\ UNCHANGED <<m, made, insertSeq>>
         \/ ~due /\ UNCHANGED <<entries, tailUsed>>
      /\ Return(p)
      /\ UNCHANGED <<expired, mu, size, full, scan>>

-----------------------------------------------------------------------------
(* peekOrAdd: "count", "full", "evict" and "publish" hold the shard's lock, *)
(* "overflow", "overflowEvict" and "overflowPublish" follow without it.     *)

\* The front is not the back unless the shard was empty.
PublishAdded(k) ==
  IF order[ShardOf(k)] = <<>> \/ Last(order[ShardOf(k)]) = m[k]
  THEN syncTail(ShardOf(k)) ELSE UNCHANGED tailUsed

\* What replacing an expired entry takes from the size.
Replaced(k) == IF m[k] = 0 THEN 0 ELSE 1

\* A key that is absent, or expired and so replaced; a present one is returned.
peekOrAdd(p, k) ==
  LET s == ShardOf(k) x == made + 1
  IN  /\ At(p, "idle") /\ mu[s] = None
      /\ x \in Entries
      /\ m[k] = 0 \/ Expired(m[k])
      /\ mu' = [mu EXCEPT ![s] = p]
      /\ size' = size - Replaced(k)
      /\ order' = [order EXCEPT ![s] = <<x>> \o Without(@, m[k])]
      /\ m' = [m EXCEPT ![k] = x]
      /\ made' = x
      /\ opSeq' = [opSeq EXCEPT ![s] = @ + 1]
      /\ insertSeq' = [insertSeq EXCEPT ![s] = @ + 1]
      /\ clock' = clock + 1
      /\ entry' = [y \in Entries |->
           IF y = x THEN [used |-> clock + 1, lastPromoted |-> opSeq[s] + 1,
                          promotedInsertSeq |-> insertSeq[s] + 1]
           ELSE IF y = m[k] THEN NoEntry ELSE entry[y]]
      /\ PublishAdded(k)
      /\ Call(p, "count", k, x)
      /\ UNCHANGED <<expired, full, scan>>

\* size.Add, for an insert and for a removal.
AddSize(p, pc, d, label) ==
  /\ At(p, pc)
  /\ size' = size + d
  /\ local' = [local EXCEPT ![p].pc = label, ![p].n = size + d]
  /\ UNCHANGED <<entries, expired, mu, tailUsed, full, scan>>

\* full is set at the capacity; past it an entry has to go.
SetFull(p) ==
  /\ At(p, "full")
  /\ full' = IF local[p].n >= Capacity THEN "yes" ELSE full
  /\ \/ local[p].n <= Capacity /\ Unlock(MyShard(p)) /\ Return(p)
     \/ local[p].n > Capacity /\ Call(p, "evict", local[p].key, local[p].e) /\ UNCHANGED mu
  /\ UNCHANGED <<entries, expired, tailUsed, size, scan>>

\* oldestShard reads one tailUsed after the other.
oldestShard(p) ==
  LET i == scan[p].next
  IN  /\ local[p].pc \in {"evict", "overflowEvict"}
      /\ i \in Shards
      /\ scan' = [scan EXCEPT ![p] =
           IF tailUsed[i] < @.least THEN [next |-> i + 1, oldest |-> i, least |-> tailUsed[i]]
           ELSE [@ EXCEPT !.next = i + 1]]
      /\ UNCHANGED <<entries, expired, mu, tailUsed, size, full, local>>

Scanned(p, label) == At(p, label) /\ scan[p].next = ShardCount

\* evictBack up to its size.Add, with the lock of shard s; syncTail follows.
evictBack(p, s, label) ==
  /\ order[s] # <<>>
  /\ Delete(s, KeyOf(Last(order[s])), Last(order[s]))
  /\ size' = size - 1
  /\ mu' = [mu EXCEPT ![s] = p]
  /\ scan' = [scan EXCEPT ![p].oldest = s]
  /\ Goto(p, label)
  /\ UNCHANGED <<expired, tailUsed, full>>

TryLockIgnored(s) == TRUE

\* The lock of another shard is only tried.
TryLock(s) == mu[s] = None

OtherTaken(p) ==
  scan[p].oldest \notin {None, MyShard(p)} /\ TryLock(scan[p].oldest)

\* evictFor: the back of another shard, else the own back but never the new
\* front, else the overflow is left to evictOverflow without the lock.
evictFor(p) ==
  LET s == MyShard(p) o == scan[p].oldest
      other == OtherTaken(p) /\ order[o] # <<>>
  IN  /\ Scanned(p, "evict")
      /\ \/ other /\ evictBack(p, o, "publish")
         \/ ~other /\ Len(order[s]) > 1 /\ evictBack(p, s, "publish")
         \/ /\ ~other /\ Len(order[s]) <= 1
            /\ Unlock(s) /\ Rescan(p)
            /\ Call(p, "overflow", local[p].key, 0)
            /\ UNCHANGED <<entries, expired, tailUsed, size, full>>

\* syncTail, and the unlocks of both shards.
Publish(p) ==
  /\ At(p, "publish")
  /\ UNCHANGED <<entries, expired, size, full>>
  /\ syncTail(scan[p].oldest)
  /\ mu' = [mu EXCEPT ![scan[p].oldest] = None, ![MyShard(p)] = None]
  /\ Return(p) /\ Rescan(p)

OverflowSkipped(p) ==
  /\ At(p, "overflow")
  /\ Return(p)
  /\ UNCHANGED <<entries, expired, mu, tailUsed, size, full, scan>>

\* evictOverflow reads the size, ...
Overflow(p) ==
  /\ At(p, "overflow")
  /\ \/ size > Capacity /\ Goto(p, "overflowEvict")
     \/ size <= Capacity /\ Return(p)
  /\ UNCHANGED <<entries, expired, mu, tailUsed, size, full, scan>>

\* ... finds every shard empty, or waits for the oldest one's lock and reads it
\* again.
OverflowEvict(p) ==
  LET o == scan[p].oldest
  IN  /\ Scanned(p, "overflowEvict")
      /\ \/ /\ o # None /\ mu[o] = None /\ size > Capacity
            /\ evictBack(p, o, "overflowPublish")
         \/ /\ \/ o = None /\ Return(p)
               \/ /\ o # None /\ mu[o] = None
                  /\ size <= Capacity \/ order[o] = <<>>
                  /\ Goto(p, "overflow")
            /\ Rescan(p)
            /\ UNCHANGED <<entries, expired, mu, tailUsed, size, full>>

OverflowPublish(p) ==
  /\ At(p, "overflowPublish")
  /\ UNCHANGED <<entries, expired, size, full>>
  /\ syncTail(scan[p].oldest)
  /\ Unlock(scan[p].oldest)
  /\ Goto(p, "overflow") /\ Rescan(p)

-----------------------------------------------------------------------------
(* remove, and removeEntry for both its callers: "remove", "shrink" and    *)
(* "clear".                                                                *)

\* The caller's isExpected accepts the entry.
remove(p, k) ==
  /\ At(p, "idle") /\ m[k] # 0
  /\ Call(p, "remove", k, m[k])
  /\ UNCHANGED <<entries, expired, mu, tailUsed, size, full, scan>>

MatchesAny(p) == m[local[p].key] # 0

\* Exactly the entry the caller saw, not whatever the key maps to by now.
Matches(p) == m[local[p].key] = local[p].e

removeEntry(p) ==
  LET s == MyShard(p) x == local[p].e
  IN  /\ At(p, "remove") /\ mu[s] = None
      /\ \/ /\ Matches(p)
            /\ Delete(s, local[p].key, x)
            /\ SyncTailIfBack(s, x)
            /\ mu' = [mu EXCEPT ![s] = p]
            /\ Goto(p, "shrink")
         \/ ~Matches(p) /\ Return(p) /\ UNCHANGED <<entries, tailUsed, mu>>
      /\ UNCHANGED <<expired, size, full, scan>>

ClearFull(p) ==
  /\ At(p, "clear")
  /\ full' = IF local[p].n < Capacity THEN "no" ELSE full
  /\ Unlock(MyShard(p))
  /\ Return(p)
  /\ UNCHANGED <<entries, expired, tailUsed, size, scan>>

-----------------------------------------------------------------------------
TimePasses ==
  /\ HasTTL = "yes" /\ expired < made
  /\ expired' = expired + 1
  /\ UNCHANGED <<entries, mu, tailUsed, size, full, local, scan>>

Init ==
  /\ m = [k \in Keys |-> 0] /\ entry = [x \in Entries |-> NoEntry]
  /\ made = 0 /\ expired = 0
  /\ order = [s \in Shards |-> <<>>] /\ mu = [s \in Shards |-> None]
  /\ opSeq = [s \in Shards |-> 0] /\ insertSeq = opSeq
  /\ tailUsed = [s \in Shards |-> Infinity]
  /\ size = 0 /\ clock = 0 /\ full = "no"
  /\ local = [p \in Procs |-> [pc |-> "idle", key |-> None, e |-> 0, n |-> 0]]
  /\ scan = [p \in Procs |-> NoScan]

\* Nobody is in a call; the application may never make another.  Any other
\* state with no step is a deadlock over the shard locks.
AtRest ==
  /\ \A p \in Procs : At(p, "idle")
  /\ UNCHANGED vars

Next ==
  \/ \E p \in Procs, k \in Keys : peek(p, k) \/ peekOrAdd(p, k) \/ remove(p, k)
  \/ \E p \in Procs :
       \/ AddSize(p, "count", 1, "full") \/ AddSize(p, "shrink", -1, "clear")
       \/ Promote(p) \/ removeEntry(p) \/ ClearFull(p) \/ SetFull(p)
       \/ oldestShard(p) \/ evictFor(p) \/ Publish(p)
       \/ Overflow(p) \/ OverflowEvict(p) \/ OverflowPublish(p)
  \/ TimePasses \/ AtRest

Spec == Init /\ [][Next]_vars

-----------------------------------------------------------------------------
(* Properties. *)

Mapped(s) == {m[k] : k \in {j \in Keys : ShardOf(j) = s}} \ {0}

\* Type invariant.
TypeOK ==
  /\ m \in [Keys -> {0} \cup Entries] /\ made \in 0 .. MaxEntries /\ expired \in 0 .. made
  /\ \A s \in Shards : Range(order[s]) \subseteq Entries
  /\ mu \in [Shards -> Procs \cup {None}]
  /\ tailUsed \in [Shards -> 1 .. Infinity]
  /\ size \in 0 .. MaxEntries /\ clock < Infinity /\ full \in {"yes", "no"}
  /\ \A p \in Procs : scan[p].next \in 0 .. ShardCount /\ scan[p].oldest \in Shards \cup {None}

\* The order of a shard holds the entries the map has of it, each once, from the
\* most to the least recently used: no removal, eviction or promotion of an
\* entry that was replaced meanwhile touches its successor.
OrderMatchesMap ==
  \A s \in Shards :
    /\ Range(order[s]) = Mapped(s)
    /\ \A a, b \in 1 .. Len(order[s]) : a < b => entry[order[s][a]].used > entry[order[s][b]].used

\* tailUsed, read without a lock to find the victim, is the use of a shard's
\* back whenever nobody holds its lock.
TailPublished ==
  \A s \in Shards : mu[s] = None => tailUsed[s] = TailOf(entry, order[s])

\* With no call in progress the size counts the entries, and racing inserts
\* "can leave the cache an entry short, never over" (evictOverflow).
CapacityKept ==
  (\A p \in Procs : At(p, "idle")) =>
    size = Cardinality({k \in Keys : m[k] # 0}) /\ size <= Capacity

\* An insert's entry is in the map for as long as it holds the lock: neither its
\* own eviction nor that of a concurrent insert takes "the entry just inserted".
NewEntryStays ==
  \A p \in Procs :
    local[p].pc \in {"count", "full", "evict", "publish"} => m[local[p].key] = local[p].e
==============================================================================

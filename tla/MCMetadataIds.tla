---------------------------- MODULE MCMetadataIds ----------------------------
(* Small instances of the registration of ids, of the cache that keeps them, *)
(* and of the balancer under the connection their metadata is sent on.  A    *)
(* behaviour is one of one component, `part': Metadata's own variables are   *)
(* its own, those of the others are w1, w2, ...                              *)
EXTENDS MCMetadata

VARIABLES part, w1, w2, w3, w4, w5, w6, w7, w8, w9, w10, w11, w12, w13, w14

partVars == <<part, w1, w2, w3, w4, w5, w6, w7, w8, w9, w10, w11, w12, w13, w14>>

\* Registrations that race for the last ids ...
Race == INSTANCE Metadata WITH MaxInt <- MaxInt - 1

\* ... and registrations one at a time, with an id more: a key can be registered,
\* evicted and registered again while a send of its first id is still to fail.
OneRegisters == Cardinality({p \in Producers : ppc[p] # "idle"}) <= 1

\* The keys of Metadata share a shard, k3 has one of its own.
CacheKeys == Keys \cup {"k3"}
CacheHash == [k \in CacheKeys |-> IF k = "k3" THEN 1 ELSE 2]

Cache == INSTANCE MetaCache WITH
  Procs <- Producers, Keys <- CacheKeys, Capacity <- 2, MaxShards <- 16,
  Hash <- CacheHash, MaxEntries <- 4, HasTTL <- "yes",
  m <- w1, entry <- w2, made <- w3, expired <- w4, order <- w5, mu <- w6,
  opSeq <- w7, insertSeq <- w8, tailUsed <- w9, size <- w10, clock <- w11,
  full <- w12, local <- w13, scan <- w14

\* Balancer: one address, the same and another, and an answer with none.
AddressLists == {<<"a">>, <<"a", "b">>, <<>>}

Conn == INSTANCE Balancer WITH
  MaxSubConns <- 3, MaxUpdates <- 2, MaxDrops <- 1, AddressLists <- AddressLists,
  addrs <- w1, next <- w2, closed <- w3, slot <- w4, subs <- w5,
  queue <- w6, published <- w7, idle <- w8, requests <- w9, updates <- w10,
  drops <- w11

Unused12 == w12 = 0 /\ w13 = 0 /\ w14 = 0
Unused1  == w1 = 0 /\ w2 = 0 /\ w3 = 0 /\ w4 = 0 /\ w5 = 0 /\ w6 = 0 /\ w7 = 0
              /\ w8 = 0 /\ w9 = 0 /\ w10 = 0 /\ w11 = 0 /\ Unused12

PartInit ==
  /\ Init
  /\ \/ part \in {"race", "again"} /\ Unused1
     \/ part = "metaCache" /\ Cache!Init
     \/ part = "balancer" /\ Conn!Init /\ Unused12

PartNext ==
  \/ part = "race" /\ Race!Next /\ UNCHANGED partVars
  \/ part = "again" /\ Next /\ OneRegisters' /\ UNCHANGED partVars
  \/ part = "metaCache" /\ Cache!Next /\ UNCHANGED <<part, vars>>
  \/ part = "balancer" /\ Conn!Next /\ UNCHANGED <<part, vars, w12, w13, w14>>

PartSpec == PartInit /\ [][PartNext]_<<vars, partVars>>

\* meta_cache.go: a shard's order lists exactly its entries of the map; what
\* oldestShard reads of a tail is what the tail was or will be published as; the
\* cache is within its capacity when no insert is under way; and an insert never
\* evicts the entry it just made.
CacheSound ==
  part = "metaCache" => /\ Cache!OrderMatchesMap /\ Cache!TailPublished
                        /\ Cache!CapacityKept /\ Cache!NewEntryStays

\* grpc_balancer.go: at most one SubConn in each slot, none left outside them or
\* shut down in one; and a slot names what its SubConn last reported, once no
\* callback is on its way.
SlotsSoundAndSettled ==
  part = "balancer" => Conn!SlotsSound /\ Conn!SlotsSettle

\* grpc_balancer.go: "a working connection is never torn down", except for
\* another that is READY and by Close.
ServingKept == [][part = "balancer" => Conn!KeepsServing]_<<vars, partVars>>
==============================================================================

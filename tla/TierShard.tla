----------------------------- MODULE TierShard -----------------------------
(***************************************************************************)
(* One lock shard of a node's storage engine (node/engine/src/hashtable.c) *)
(* with the NVMe tier under it (tiering.c): the index, the LRU list of     *)
(* resident entries, the byte and key accounting, eviction to spill files  *)
(* and promotion back, a restart of the node, and files the disk damages.  *)
(*                                                                         *)
(* A shard runs one call at a time, under its lock; the eviction loop at   *)
(* the end of a call is a sequence of steps with the lock held.  Shards    *)
(* share only counters.  An allocation that fails before anything changed  *)
(* is a call that did not happen.  Without a tier every eviction drops its *)
(* entry, which is a run of this module in which every spill write fails.  *)
(***************************************************************************)
EXTENDS Integers, Sequences, FiniteSetsExt, Functions

CONSTANTS Keys, Vals,
          Size,         \* Size[v]: bytes of value v
          Hash,         \* Hash[k]: pk_table_hash, which may collide
          None,         \* no node, no value, no file, no lock holder
          Bad,          \* a file pk_tier_read refuses
          Budget,       \* t->shard_budget_bytes
          MaxValue,     \* t->max_value_bytes
          UnlinkFails,  \* whether unlink may leave a file behind
          MaxId         \* bound on spill ids

Ids == 1..MaxId
Node == [val : Vals \cup {None}, len : Nat, resident : BOOLEAN, id : Ids \cup {0}]

(* What the constants are; None and Bad are no entry and no file. *)
TierConstants ==
    /\ IsFiniteSet(Keys)
    /\ Size \in [Vals -> Nat] /\ DOMAIN Hash = Keys
    /\ None \notin Keys \cup Vals \cup Node \cup (Keys \X Vals)
    /\ Bad \notin {None} \cup (Keys \X Vals)
    /\ Budget \in Nat /\ MaxValue \in Nat /\ UnlinkFails \in BOOLEAN /\ MaxId \in Nat

VARIABLES
    node,      \* node[k]: the pk_node of k, or None
    lru,       \* lru_head .. lru_tail, hottest first
    ram, nvme, ramKeys, nvmeKeys,  \* the shard's accounting
    entries,   \* t->count
    files,     \* files[<<hash, id>>]: the published spill file, or None
    nextId,    \* tier->next_id
    protect,   \* the entry the lock holder keeps from eviction, or None
    reply,     \* the value a call handed out, with its key; <<>> after a write
    orphans,   \* history: names of files an unlink failed to remove
    wrote      \* history: wrote[k], the value last put and not deleted, or None

counters == <<ram, nvme, ramKeys, nvmeKeys, entries>>
disk == <<files, orphans>>
shardVars == <<node, lru, counters, disk, nextId, protect, reply, wrote>>

Names == {<<Hash[k], id>> : k \in Keys, id \in Ids}
Content == (Keys \X Vals) \cup {None, Bad}

Present(k) == node[k] # None
Resident(k) == Present(k) /\ node[k].resident
Spilled(k) == Present(k) /\ ~node[k].resident
Name(k) == <<Hash[k], node[k].id>>

RamOf(k) == IF Resident(k) THEN node[k].len ELSE 0
NvmeOf(k) == IF Spilled(k) THEN node[k].len ELSE 0
One(b) == IF b THEN 1 ELSE 0

-----------------------------------------------------------------------------
(* lru_unlink, which joins the neighbours of the entry, and lru_push_front. *)
Unlinked(k) ==
    IF k \notin Range(lru) THEN lru
    ELSE LET at == CHOOSE i \in DOMAIN lru : lru[i] = k
         IN SubSeq(lru, 1, at - 1) \o SubSeq(lru, at + 1, Len(lru))
Touched(k) == <<k>> \o Unlinked(k)

(* pk_tier_remove, whose unlink is not checked. *)
RemoveFile(k) ==
    \/ files' = [files EXCEPT ![Name(k)] = None] /\ UNCHANGED orphans
    \/ UnlinkFails /\ orphans' = orphans \cup {Name(k)} /\ UNCHANGED files

RetireFile(k) == IF Spilled(k) THEN RemoveFile(k) ELSE UNCHANGED disk

(* shard_drop_node, from whichever tier the node is in. *)
Drop(k) ==
    /\ node' = [node EXCEPT ![k] = None]
    /\ lru' = Unlinked(k)
    /\ ram' = ram - RamOf(k) /\ ramKeys' = ramKeys - One(Resident(k))
    /\ nvme' = nvme - NvmeOf(k) /\ nvmeKeys' = nvmeKeys - One(Spilled(k))
    /\ entries' = entries - 1
    /\ RetireFile(k)

ShardInit ==
    /\ node = [k \in Keys |-> None] /\ lru = <<>>
    /\ ram = 0 /\ nvme = 0 /\ ramKeys = 0 /\ nvmeKeys = 0 /\ entries = 0
    /\ files = [n \in Names |-> None] /\ nextId = 1
    /\ protect = None /\ reply = <<>> /\ orphans = {}
    /\ wrote = [k \in Keys |-> None]

(* Bound: enough ids are left for the evictions one call can cause. *)
IdsLeft == nextId + Cardinality(Keys) <= MaxId + 1

RamAfterPut(k, v) == ram - RamOf(k) + Size[v]

(* pk_table_set of a new or an existing key, up to shard_enforce_budget. *)
Put(k, v) ==
    /\ protect = None /\ IdsLeft /\ Size[v] <= MaxValue
    /\ node' = [node EXCEPT ![k] = [val |-> v, len |-> Size[v], resident |-> TRUE, id |-> 0]]
    /\ lru' = Touched(k)
    /\ ram' = RamAfterPut(k, v)
    /\ ramKeys' = ramKeys - One(Resident(k)) + 1
    /\ nvme' = nvme - NvmeOf(k) /\ nvmeKeys' = nvmeKeys - One(Spilled(k))
    /\ entries' = entries + One(~Present(k))
    /\ RetireFile(k)
    /\ protect' = k /\ wrote' = [wrote EXCEPT ![k] = v]
    /\ reply' = <<>>
    /\ UNCHANGED nextId

-----------------------------------------------------------------------------
(* shard_enforce_budget: the loop, with the lock held. *)

OverBudget == ram > Budget

(* The coldest entry, or the next one if that is protected. *)
Victims ==
    IF lru = <<>> THEN {}
    ELSE IF lru[Len(lru)] # protect THEN {lru[Len(lru)]}
    ELSE {lru[i] : i \in {Len(lru) - 1} \cap DOMAIN lru}

LruAfterSpill(k) == Unlinked(k)

(* Mutant: a file already under that name is kept. *)
EvictSpillOver(k) ==
    /\ files' = [files EXCEPT ![<<Hash[k], nextId>>] = IF @ = None THEN <<k, node[k].val>> ELSE @]
    /\ orphans' = orphans \ {<<Hash[k], nextId>>}
    /\ node' = [node EXCEPT ![k].val = None, ![k].resident = FALSE, ![k].id = nextId]
    /\ lru' = LruAfterSpill(k)
    /\ ram' = ram - node[k].len /\ ramKeys' = ramKeys - 1
    /\ nvme' = nvme + node[k].len /\ nvmeKeys' = nvmeKeys + 1
    /\ UNCHANGED entries

(* evict_one: pk_tier_write publishes the file by renaming it over whatever *)
(* an earlier life of the node left under that name.                        *)
EvictSpill(k) ==
    /\ files' = [files EXCEPT ![<<Hash[k], nextId>>] = <<k, node[k].val>>]
    /\ orphans' = orphans \ {<<Hash[k], nextId>>}
    /\ node' = [node EXCEPT ![k].val = None, ![k].resident = FALSE, ![k].id = nextId]
    /\ lru' = LruAfterSpill(k)
    /\ ram' = ram - node[k].len /\ ramKeys' = ramKeys - 1
    /\ nvme' = nvme + node[k].len /\ nvmeKeys' = nvmeKeys + 1
    /\ UNCHANGED entries

(* evict_one: the spill write fails, or there is no tier. *)
EvictDrop(k) == Drop(k)

Evict ==
    /\ protect # None /\ OverBudget
    /\ \E k \in Victims : EvictSpill(k) \/ EvictDrop(k)
    /\ nextId' = nextId + 1
    /\ UNCHANGED <<protect, reply, wrote>>

Unlock ==
    /\ protect # None /\ (~OverBudget \/ Victims = {})
    /\ protect' = None
    /\ UNCHANGED <<node, lru, counters, disk, nextId, reply, wrote>>

-----------------------------------------------------------------------------
(* pk_tier_read accepts the file: its key and its length are those of the  *)
(* index.                                                                  *)
ReadsBack(k) ==
    LET file == files[Name(k)] IN
    file \notin {None, Bad} /\ file[1] = k /\ Size[file[2]] = node[k].len

GetResident(k) ==
    /\ protect = None /\ Resident(k)
    /\ reply' = <<k, node[k].val>>
    /\ lru' = Touched(k)
    /\ UNCHANGED <<node, counters, disk, nextId, protect, wrote>>

(* Mutant: the promoted value is accounted to both tiers. *)
NvmeAfterPromoteKept(k) == nvme

NvmeAfterPromote(k) == nvme - node[k].len

(* pk_table_get of a spilled entry: read, promote, remove the file. *)
GetPromote(k) ==
    /\ protect = None /\ IdsLeft /\ Spilled(k) /\ ReadsBack(k)
    /\ reply' = <<k, files[Name(k)][2]>>
    /\ node' = [node EXCEPT ![k].val = files[Name(k)][2], ![k].resident = TRUE, ![k].id = 0]
    /\ lru' = Touched(k)
    /\ ram' = ram + node[k].len /\ ramKeys' = ramKeys + 1
    /\ nvme' = NvmeAfterPromote(k) /\ nvmeKeys' = nvmeKeys - 1
    /\ RemoveFile(k)
    /\ protect' = k
    /\ UNCHANGED <<entries, nextId, wrote>>

Peek(k) ==
    /\ protect = None
    /\ \/ Resident(k) /\ reply' = <<k, node[k].val>>
       \/ Spilled(k) /\ ReadsBack(k) /\ reply' = <<k, files[Name(k)][2]>>
    /\ UNCHANGED <<node, lru, counters, disk, nextId, protect, wrote>>

(* read_spilled of a get or a peek fails, for the file's sake or because   *)
(* of an I/O error: the entry is dropped.                                  *)
ReadFails(k) ==
    /\ protect = None /\ Spilled(k)
    /\ Drop(k)
    /\ UNCHANGED <<nextId, protect, reply, wrote>>

Del(k) ==
    /\ protect = None /\ Present(k)
    /\ Drop(k) /\ wrote' = [wrote EXCEPT ![k] = None] /\ reply' = <<>>
    /\ UNCHANGED <<nextId, protect>>

-----------------------------------------------------------------------------
Occupied == {n \in Names : files[n] # None}

(* pk_tier_purge: every spill file is unlinked. *)
Purge ==
    \E kept \in SUBSET Occupied :
        /\ kept # {} => UnlinkFails
        /\ files' = [n \in Names |-> IF n \in kept THEN files[n] ELSE None]
        /\ orphans' = kept

(* The node stops or dies, whatever it was doing, and the engine is opened *)
(* again: the index is gone and ids start at one again.                    *)
Restart ==
    /\ node' = [k \in Keys |-> None] /\ lru' = <<>>
    /\ ram' = 0 /\ nvme' = 0 /\ ramKeys' = 0 /\ nvmeKeys' = 0 /\ entries' = 0
    /\ Purge /\ nextId' = 1 /\ protect' = None
    /\ wrote' = [k \in Keys |-> None] /\ reply' = <<>>

(* A spill file is truncated, overwritten or removed behind the engine. *)
Damage(n) ==
    /\ files[n] \notin {None, Bad}
    /\ files' = [files EXCEPT ![n] = Bad]
    /\ UNCHANGED <<node, lru, counters, nextId, protect, reply, orphans, wrote>>

-----------------------------------------------------------------------------
ShardNext ==
    \/ \E k \in Keys, v \in Vals : Put(k, v)
    \/ \E k \in Keys : \/ GetResident(k) \/ GetPromote(k) \/ Peek(k)
                       \/ ReadFails(k) \/ Del(k)
    \/ Evict \/ Unlock \/ Restart
    \/ \E n \in Names : Damage(n)

ShardSpec == ShardInit /\ [][ShardNext]_shardVars

-----------------------------------------------------------------------------
ShardTypeOK ==
    /\ node \in [Keys -> Node \cup {None}] /\ lru \in Seq(Keys)
    /\ ram \in Nat /\ nvme \in Nat /\ ramKeys \in Nat /\ nvmeKeys \in Nat /\ entries \in Nat
    /\ files \in [Names -> Content]
    /\ nextId \in 1..(MaxId + 1) /\ protect \in Keys \cup {None}
    /\ reply \in (Keys \X Vals) \cup {<<>>} /\ orphans \subseteq Names
    /\ wrote \in [Keys -> Vals \cup {None}]

(* The LRU list threads the resident entries, each once. *)
LruExact == IsInjective(lru) /\ Range(lru) = {k \in Keys : Resident(k)}

(* CapacityResponse is exact without walking anything: the counters equal  *)
(* what a walk over the entries would find, in the middle of a call too.   *)
Accounting ==
    /\ ram = SumFunction([k \in Keys |-> RamOf(k)]) /\ nvme = SumFunction([k \in Keys |-> NvmeOf(k)])
    /\ ramKeys = Cardinality({k \in Keys : Resident(k)})
    /\ nvmeKeys = Cardinality({k \in Keys : Spilled(k)})
    /\ entries = ramKeys + nvmeKeys

(* "a shard can exceed its budget by up to one value": between calls an    *)
(* over-full shard holds a single resident entry.                          *)
OverByOne == protect = None /\ ram > Budget => Len(lru) = 1

(* Nothing leaks on the disk: through overwrites, failed reads, promotions *)
(* and restarts, the spill directory holds the files of the spilled        *)
(* entries and those an unlink failed on.  No entry is left without its    *)
(* file.                                                                   *)
NoLeak == Occupied = orphans \cup {Name(k) : k \in {j \in Keys : Spilled(j)}}

(* The redundant views of the entries (index, LRU list, counters, spill    *)
(* directory) agree at every step of eviction and promotion, the failing   *)
(* ones too, and the budget is kept up to one value.                       *)
ShardExact == ShardTypeOK /\ LruExact /\ Accounting /\ OverByOne /\ NoLeak

(* A get never answers with anything but the value last put: not with an   *)
(* earlier one, another key's, or a file left by an earlier life of the    *)
(* node under the same name.                                               *)
Visible(k) ==
    IF Resident(k) THEN node[k].val
    ELSE IF Spilled(k) /\ ReadsBack(k) THEN files[Name(k)][2] ELSE None
Cache == INSTANCE LossyCache WITH cache <- [k \in Keys |-> Visible(k)]
ImplementsLossyCache == Cache!Spec
=============================================================================

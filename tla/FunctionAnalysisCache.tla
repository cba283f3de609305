------------------------- MODULE FunctionAnalysisCache ------------------------
(***************************************************************************)
(* The bounded, caller-owned cache of per-function plans                   *)
(* (src/src/builder/incremental.rs, FunctionAnalysisCache).  Entries live  *)
(* in buckets under a digest of their key; the whole key is kept beside    *)
(* the plan and compared on every lookup.  Occupancy is kept in running    *)
(* totals, and insertion ends in a loop that evicts while a bound is       *)
(* exceeded.  The cache is only used through &mut self: the steps of the   *)
(* loop interleave with nothing, which `enforcing` says.                   *)
(*                                                                         *)
(* Abstracted: the outcome counters (stats), which nothing reads back, and *)
(* the u128 clock's saturation, capped here by MaxClock.                   *)
(***************************************************************************)
EXTENDS Integers, Sequences, FiniteSetsExt

CONSTANTS
    Keys,          \* canonical keys
    Artifacts,     \* plans
    Digest,        \* [Keys -> Nat], DigestMode::digest
    KeyBytes,      \* [Keys -> Nat]
    ArtifactBytes, \* [Artifacts -> Nat], estimated_bytes
    RecordBytes,   \* size_of::<CacheEntry>()
    MaxEntries, MaxBytes,  \* FunctionAnalysisCacheLimits
    None,
    MaxClock       \* bound on the clock

ASSUME CacheAssumption ==
    /\ Digest \in [Keys -> Nat]
    /\ KeyBytes \in [Keys -> Nat] /\ ArtifactBytes \in [Artifacts -> Nat]
    /\ RecordBytes \in Nat \ {0}
    /\ {MaxEntries, MaxBytes, MaxClock} \subseteq Nat
    /\ None \notin Artifacts

VARIABLES
    entries,       \* BTreeMap<u64, Vec<CacheEntry>>: digest -> bucket
    entry_count, resident_bytes, resident_key_bytes, resident_artifact_bytes,
    clock,
    enforcing,     \* inside enforce_limits
    found          \* what the last call returned: an artifact or None

occupancy == <<entry_count, resident_bytes, resident_key_bytes, resident_artifact_bytes>>
vars == <<entries, entry_count, resident_bytes, resident_key_bytes,
          resident_artifact_bytes, clock, enforcing, found>>

CacheEntry == [key: Keys, artifact: Artifacts, last_used: Nat, estimated_bytes: Nat]

EmptyBuckets == [d \in {} |-> <<>>]

Init ==
    /\ entries = EmptyBuckets
    /\ entry_count = 0 /\ resident_bytes = 0
    /\ resident_key_bytes = 0 /\ resident_artifact_bytes = 0
    /\ clock = 0
    /\ enforcing = FALSE /\ found = None

-------------------------------------------------------------------------------
(* Buckets *)

Digests == {Digest[k] : k \in Keys}

\* Where an entry sits: <<digest, position in the bucket>>.
Slots == UNION {{d} \X DOMAIN entries[d] : d \in DOMAIN entries}
At(slot) == entries[slot[1]][slot[2]]

Bucket(d) == IF d \in DOMAIN entries THEN entries[d] ELSE <<>>


\* entries[d] := bucket, dropping a bucket that became empty.
PutBucket(d, bucket) ==
    [x \in (DOMAIN entries \cup {d}) \ (IF bucket = <<>> THEN {d} ELSE {}) |->
        IF x = d THEN bucket ELSE entries[x]]


\* Mutant: equal digests count as equal keys.
PositionsByDigest(k) == DOMAIN Bucket(Digest[k])

\* The position at which find meets an entry with exactly this key.
PositionsOf(k) == {i \in DOMAIN Bucket(Digest[k]) : Bucket(Digest[k])[i].key = k}
FirstOf(k) == CHOOSE i \in PositionsOf(k) : \A j \in PositionsOf(k) : i <= j

EstimatedBytes(k, a) == RecordBytes + KeyBytes[k] + ArtifactBytes[a]

Tick == clock < MaxClock /\ clock' = clock + 1

-------------------------------------------------------------------------------
(* Operations *)

\* lookup compares the whole key and refreshes the entry it returns.
Lookup(k) ==
    /\ ~enforcing
    /\ Tick
    /\ IF PositionsOf(k) # {}
       THEN LET hit == Bucket(Digest[k])[FirstOf(k)] IN
            /\ found' = hit.artifact
            /\ entries' = [entries EXCEPT ![Digest[k]][FirstOf(k)].last_used = clock + 1]
       ELSE found' = None /\ UNCHANGED entries
    /\ UNCHANGED <<occupancy, enforcing>>


\* An entry that could never fit is not retained, and does not tick the clock.
MustBypass(k, a) ==
    MaxEntries = 0 \/ EstimatedBytes(k, a) > MaxBytes \/ MaxBytes = 0

InsertBypass(k, a) ==
    /\ ~enforcing
    /\ MustBypass(k, a)
    /\ found' = None
    /\ UNCHANGED <<entries, occupancy, clock, enforcing>>

NewEntry(k, a) ==
    [key |-> k, artifact |-> a, last_used |-> clock + 1, estimated_bytes |-> EstimatedBytes(k, a)]


\* Mutant: the bytes of the replaced plan are not given back.
InsertReplaceAdding(k, a) ==
    /\ ~enforcing
    /\ ~MustBypass(k, a) /\ PositionsOf(k) # {}
    /\ Tick
    /\ resident_bytes' = resident_bytes + EstimatedBytes(k, a)
    /\ resident_artifact_bytes' = resident_artifact_bytes + ArtifactBytes[a]
    /\ entries' = [entries EXCEPT ![Digest[k]][FirstOf(k)] = NewEntry(k, a)]
    /\ enforcing' = TRUE /\ found' = None
    /\ UNCHANGED <<entry_count, resident_key_bytes>>

InsertReplace(k, a) ==
    /\ ~enforcing
    /\ ~MustBypass(k, a) /\ PositionsOf(k) # {}
    /\ Tick
    /\ LET old == Bucket(Digest[k])[FirstOf(k)] IN
       /\ resident_bytes' = resident_bytes - old.estimated_bytes + EstimatedBytes(k, a)
       /\ resident_key_bytes' = resident_key_bytes - KeyBytes[old.key] + KeyBytes[k]
       /\ resident_artifact_bytes' =
              resident_artifact_bytes - ArtifactBytes[old.artifact] + ArtifactBytes[a]
       /\ entries' = [entries EXCEPT ![Digest[k]][FirstOf(k)] = NewEntry(k, a)]
    /\ enforcing' = TRUE /\ found' = None
    /\ UNCHANGED entry_count

InsertNew(k, a) ==
    /\ ~enforcing
    /\ ~MustBypass(k, a) /\ PositionsOf(k) = {}
    /\ Tick
    /\ entries' = PutBucket(Digest[k], Append(Bucket(Digest[k]), NewEntry(k, a)))
    /\ entry_count' = entry_count + 1
    /\ resident_bytes' = resident_bytes + EstimatedBytes(k, a)
    /\ resident_key_bytes' = resident_key_bytes + KeyBytes[k]
    /\ resident_artifact_bytes' = resident_artifact_bytes + ArtifactBytes[a]
    /\ enforcing' = TRUE /\ found' = None

Insert(k, a) == InsertBypass(k, a) \/ InsertReplace(k, a) \/ InsertNew(k, a)

-------------------------------------------------------------------------------
(* enforce_limits *)


OverLimits == entry_count > MaxEntries \/ resident_bytes > MaxBytes

\* The order of the tuples (last_used, digest, index).
Precedes(s, t) ==
    \/ At(s).last_used < At(t).last_used
    \/ /\ At(s).last_used = At(t).last_used
       /\ s[1] < t[1] \/ (s[1] = t[1] /\ s[2] < t[2])

IsVictim(slot) == \A other \in Slots \ {slot} : Precedes(slot, other)

WithoutPosition(bucket, i) ==
    [j \in 1..(Len(bucket) - 1) |-> IF j < i THEN bucket[j] ELSE bucket[j + 1]]

\* usize::saturating_sub
Less(n, m) == IF m > n THEN 0 ELSE n - m

EvictVictim ==
    /\ enforcing /\ OverLimits
    /\ \E slot \in Slots :
         /\ IsVictim(slot)
         /\ entries' = PutBucket(slot[1], WithoutPosition(entries[slot[1]], slot[2]))
         /\ resident_bytes' = Less(resident_bytes, At(slot).estimated_bytes)
         /\ resident_key_bytes' = Less(resident_key_bytes, KeyBytes[At(slot).key])
         /\ resident_artifact_bytes' =
                Less(resident_artifact_bytes, ArtifactBytes[At(slot).artifact])
    /\ entry_count' = entry_count - 1
    /\ UNCHANGED <<clock, enforcing, found>>

\* The loop ends when both bounds hold, or breaks when nothing is left.
EnforceDone ==
    /\ enforcing
    /\ ~OverLimits \/ Slots = {}
    /\ enforcing' = FALSE
    /\ UNCHANGED <<entries, occupancy, clock, found>>

EnforceLimits == EvictVictim \/ EnforceDone

Clear ==
    /\ ~enforcing
    /\ entries' = EmptyBuckets
    /\ entry_count' = 0 /\ resident_bytes' = 0
    /\ resident_key_bytes' = 0 /\ resident_artifact_bytes' = 0
    /\ found' = None
    /\ UNCHANGED <<clock, enforcing>>

Next ==
    \/ \E k \in Keys : Lookup(k) \/ \E a \in Artifacts : Insert(k, a)
    \/ EnforceLimits
    \/ Clear

Spec == Init /\ [][Next]_vars

-------------------------------------------------------------------------------
(* Properties *)

Resident == {At(slot).key : slot \in Slots}
EntryOf(k) == Bucket(Digest[k])[FirstOf(k)]

(* The running totals that stats reports and enforce_limits compares are   *)
(* the sums over what is resident, after any sequence of insertions,       *)
(* replacements, evictions and clears; and between two calls what is       *)
(* resident exceeds neither of the "hard bounds".                          *)
OccupancyIsExact ==
    /\ entry_count = Cardinality(Slots)
    /\ resident_bytes = SumFunction([s \in Slots |-> At(s).estimated_bytes])
    /\ resident_key_bytes = SumFunction([s \in Slots |-> KeyBytes[At(s).key]])
    /\ resident_artifact_bytes = SumFunction([s \in Slots |-> ArtifactBytes[At(s).artifact]])
    /\ ~enforcing => entry_count <= MaxEntries /\ resident_bytes <= MaxBytes

\* The bounds, on a map from keys to artifacts.
ExceedsLimits(plan) ==
    \/ Cardinality(DOMAIN plan) > MaxEntries
    \/ SumFunction([k \in DOMAIN plan |-> EstimatedBytes(k, plan[k])]) > MaxBytes

Lru == INSTANCE LruCache WITH
    Exceeds <- ExceedsLimits,
    plan <- [k \in Resident |-> EntryOf(k).artifact],
    used <- [k \in Resident |-> EntryOf(k).last_used],
    now <- clock

(* The buckets, positions, digests and running totals implement an exact   *)
(* LRU map: a lookup returns the plan last stored under that very key and  *)
(* not forgotten since, and a key is forgotten only while a bound is       *)
(* exceeded, in order of last use.                                         *)
ImplementsLru == Lru!Spec

===============================================================================

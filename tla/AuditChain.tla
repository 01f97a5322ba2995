----------------------------- MODULE AuditChain -----------------------------
(***************************************************************************)
(* The tamper-evident audit log of aether-security (audit.rs) as operators *)
(* on a sequence of entries. An entry's `what` stands for its event,       *)
(* component and detail; Hash is SHA-256 over an entry's other fields. A   *)
(* cap of zero is excluded: its doc says "unbounded", but record would     *)
(* remove the first entry of an empty log and panic. The daemon's cap is   *)
(* 4096.                                                                   *)
(***************************************************************************)
EXTENDS Integers, Sequences

CONSTANTS
    MaxEntries,         \* RetentionPolicy::max_entries
    MaxAge,             \* RetentionPolicy::max_age_ms
    Genesis,            \* GENESIS_PREV_HASH
    Hash(_, _, _, _)    \* recompute_hash: index, timestamp, what, prev_hash

ASSUME RetentionAssumption == MaxEntries \in Nat \ {0} /\ MaxAge \in Nat

Stamp(index, ts, what, prev) ==
    [index |-> index, ts |-> ts, what |-> what, prev |-> prev, hash |-> Hash(index, ts, what, prev)]

LastHash(entries) == IF entries = <<>> THEN Genesis ELSE entries[Len(entries)].hash

(* record: at capacity the oldest entry goes, and the others stay as they are. *)
Evict(entries) == IF Len(entries) >= MaxEntries THEN Tail(entries) ELSE entries

(* Whether recording leaves a chain without its first entry. *)
Evicts(entries) == Len(entries) >= MaxEntries /\ MaxEntries > 1

Record(entries, ts, what) ==
    LET kept == Evict(entries) IN
    Append(kept, Stamp(Len(kept), ts, what, LastHash(kept)))

(* Mutant: the indices are left alone. *)
RestampHashes(entries) ==
    LET hash[i \in 0..Len(entries)] ==
            IF i = 0 THEN Genesis
            ELSE Hash(entries[i].index, entries[i].ts, entries[i].what, hash[i - 1])
    IN [i \in 1..Len(entries) |->
           Stamp(entries[i].index, entries[i].ts, entries[i].what, hash[i - 1])]

(* The loop of prune_older_than: renumber, link and hash every entry anew. *)
Restamp(entries) ==
    LET hash[i \in 0..Len(entries)] ==
            IF i = 0 THEN Genesis
            ELSE Hash(i - 1, entries[i].ts, entries[i].what, hash[i - 1])
    IN [i \in 1..Len(entries) |-> Stamp(i - 1, entries[i].ts, entries[i].what, hash[i - 1])]

(* Mutant: the age is not taken off. *)
CutoffNow(now) == now

Cutoff(now) == IF now > MaxAge THEN now - MaxAge ELSE 0

(* Mutant: every old entry goes, wherever it stands. *)
KeptYoung(entries, now) == SelectSeq(entries, LAMBDA e : e.ts >= Cutoff(now))

(* The entries from the first young one on: timestamps are the caller's and *)
(* need not increase.                                                       *)
KeptFrom(entries, now) ==
    LET young == {i \in DOMAIN entries : entries[i].ts >= Cutoff(now)} IN
    IF young = {} THEN <<>>
    ELSE SubSeq(entries, CHOOSE i \in young : \A j \in young : i <= j, Len(entries))

Prune(entries, now) ==
    LET kept == KeptFrom(entries, now) IN
    IF MaxAge = 0 \/ Len(kept) = Len(entries) THEN entries ELSE Restamp(kept)

(* verify_chain: indices from zero, links, hashes. *)
Verifies(entries) ==
    \A i \in DOMAIN entries :
        /\ entries[i].index = i - 1
        /\ entries[i].prev = IF i = 1 THEN Genesis ELSE entries[i - 1].hash
        /\ entries[i].hash = Hash(entries[i].index, entries[i].ts, entries[i].what, entries[i].prev)
=============================================================================

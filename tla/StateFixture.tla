---------------------------- MODULE StateFixture ----------------------------
(***************************************************************************)
(* The Git double of the T-334 capacity drivers (classes State,            *)
(* PipelineState, HistoryState): a real Git work tree behind the GitHub    *)
(* API, one ref that only moves forward, and a bounded cache of immutable  *)
(* objects in each process.  The same text opens all six drivers; lines    *)
(* are those of saved1001-compare-cache-metadata-corrected-frozen.py.      *)
(*                                                                         *)
(* A commit is named by its history, the sequence of its ancestors, so     *)
(* that `merge-base --is-ancestor' compares histories.  `at' stands for    *)
(* the committer's time: no two commits are equal.                         *)
(***************************************************************************)
EXTENDS Integers, SequencesExt, FiniteSets

CONSTANTS NoFile,          \* content of a path that is not in a tree
          Envelope,        \* the opaque file of the bootstrap commit
          RaceFile,        \* what the other writer commits
          Bytes,           \* Bytes[kind]: size of the JSON of an object
          CacheCapacity    \* 33554432

ASSUME FixtureAssumption ==
    /\ NoFile # Envelope /\ NoFile # RaceFile
    /\ Bytes \in [{"commits", "trees", "blobs"} -> Nat \ {0}]
    /\ CacheCapacity \in Nat

VARIABLES ref,        \* the commit of refs/heads/factory-reporting-state
          clock,      \* number of commits ever made
          foreign,    \* times of the commits of other writers
          switches,   \* fields of State that make it misbehave
          cache       \* provider_cache (oldest first) and provider_bytes

fixture == <<ref, clock, foreign, switches, cache>>

Switches == [conflict : {"off", "once", "always"}, lost : BOOLEAN,
             failed : BOOLEAN, fail_after_ack : BOOLEAN]
Off == [conflict |-> "off", lost |-> FALSE, failed |-> FALSE, fail_after_ack |-> FALSE]

IsAncestor(base, head) ==
    Len(base) <= Len(head) /\ \A i \in 1..Len(base) : base[i] = head[i]

\* PipelineState: ahead_by of `compare base...head'
AheadBy(base, head) == Len(head) - Len(base)

\* POST git/trees: read-tree base_tree, then update-index of the entry
PostTree(base, path, blob) == [base EXCEPT ![path] = blob]

\* POST git/commits, with one parent
PostCommit(tree, parent, time) == Append(parent, [tree |-> tree, at |-> time])

-----------------------------------------------------------------------------
(***************************************************************************)
(* PATCH git/refs: another writer may commit first (conflict,              *)
(* always_conflict, before_patch); then the update must be a fast-forward  *)
(* of what the ref is at that moment.                                      *)
(***************************************************************************)
Races == switches.conflict # "off"

Current ==
    IF Races THEN PostCommit(PostTree(Last(ref).tree, "race", RaceFile), ref, clock)
             ELSE ref

AfterRace == IF switches.conflict = "once" THEN "off" ELSE switches.conflict

\* Faulty variant: any commit becomes the ref.
AnyCommit(new) == TRUE

FastForward(new) == IsAncestor(Current, new)

Arrive(new) ==
    /\ ref' = new
    /\ clock' = IF Races THEN clock + 1 ELSE clock
    /\ foreign' = IF Races THEN foreign \cup {clock} ELSE foreign

PatchRefused(new) ==
    /\ ~ FastForward(new)
    /\ Arrive(Current)
    /\ switches' = [switches EXCEPT !.conflict = AfterRace]

PatchApplied(new) ==
    /\ FastForward(new)
    /\ Arrive(new)
    /\ switches' = [switches EXCEPT
                       !.conflict = AfterRace,
                       !.lost = FALSE,
                       !.failed = IF switches.lost THEN switches.fail_after_ack ELSE @]

-----------------------------------------------------------------------------
(***************************************************************************)
(* GET.  A target is <<kind>> or <<kind, sha>>; trees and blobs are named  *)
(* by their content, commits by their time.                                *)
(***************************************************************************)
Immutable(target) == target[1] \in DOMAIN Bytes

\* What git answers
Backend(target) ==
    CASE target[1] = "ref" -> ref
      [] target[1] = "commits" ->
            ref[CHOOSE i \in DOMAIN ref : ref[i].at = target[2]].tree
      [] OTHER -> target[2]

EmptyCache == [entries |-> <<>>, bytes |-> 0]

Cached(store, target) ==
    {i \in DOMAIN store.entries : store.entries[i].target = target}

BytesOf(entries) == FoldLeft(LAMBDA sum, e : sum + e.size, 0, entries)

\* Faulty variant: the total forgets what was evicted.
MakeRoomUncounted(store, size) ==
    LET fits(k) == store.bytes - BytesOf(SubSeq(store.entries, 1, k)) + size <= CacheCapacity
        gone == CHOOSE k \in 0..Len(store.entries) :
                   /\ fits(k) \/ k = Len(store.entries)
                   /\ \A j \in 0..(k - 1) : ~ fits(j)
    IN  [entries |-> SubSeq(store.entries, gone + 1, Len(store.entries)),
         bytes |-> store.bytes]

\* Lines 135-136: the oldest entries go until the new one fits or none is left.
MakeRoom(store, size) ==
    LET fits(k) == store.bytes - BytesOf(SubSeq(store.entries, 1, k)) + size <= CacheCapacity
        gone == CHOOSE k \in 0..Len(store.entries) :
                   /\ fits(k) \/ k = Len(store.entries)
                   /\ \A j \in 0..(k - 1) : ~ fits(j)
    IN  [entries |-> SubSeq(store.entries, gone + 1, Len(store.entries)),
         bytes |-> store.bytes - BytesOf(SubSeq(store.entries, 1, gone))]

Put(store, entry) ==
    [entries |-> Append(store.entries, entry), bytes |-> store.bytes + entry.size]

\* A GET that succeeds: a hit becomes the youngest entry; an immutable answer
\* is stored unless it is larger than the cache.
Fetch(store, target) ==
    LET hit == Cached(store, target)
        size == Bytes[target[1]]
        room == MakeRoom(store, size)
    IN  CASE ~ Immutable(target) -> store
          [] Immutable(target) /\ hit # {} ->
                LET i == CHOOSE i \in hit : TRUE
                IN  [store EXCEPT !.entries = Append(RemoveAt(@, i), @[i])]
          [] Immutable(target) /\ hit = {} /\ size > CacheCapacity -> room
          [] OTHER ->
                Put(room, [target |-> target, raw |-> Backend(target), size |-> size])

Served(target) ==
    LET hit == Cached(cache, target)
    IN  IF Immutable(target) /\ hit # {}
        THEN cache.entries[CHOOSE i \in hit : TRUE].raw
        ELSE Backend(target)

FixtureTypeOK ==
    /\ clock \in Nat /\ foreign \subseteq Nat
    /\ switches \in Switches

-----------------------------------------------------------------------------
\* The cache is what its counter says: within its capacity, the sum of its
\* entries, no object twice, and each entry what git would answer now.  Hits
\* reorder it, evictions shrink it, and the ref must never get in (lines
\* 119-138).
CacheIsExact ==
    /\ cache.bytes = BytesOf(cache.entries)
    /\ cache.bytes <= CacheCapacity
    /\ \A i, j \in DOMAIN cache.entries :
          cache.entries[i].target = cache.entries[j].target => i = j
    /\ \A i \in DOMAIN cache.entries :
          cache.entries[i].raw = Backend(cache.entries[i].target)

\* What another worker has committed stays in the branch to the byte, and so
\* does the envelope of the bootstrap commit: its commit is in the history, and
\* every later tree has the file (lines 80-83, 89-96; line 217 asserts it of
\* the envelope).
OthersSurvive ==
    /\ \A i \in DOMAIN ref : ref[i].tree["envelope"] = Envelope
    /\ \A f \in foreign :
          \E i \in DOMAIN ref :
             /\ ref[i].at = f
             /\ \A j \in i..Len(ref) : ref[j].tree["race"] = RaceFile
=============================================================================

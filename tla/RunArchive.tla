----------------------------- MODULE RunArchive -----------------------------
(***************************************************************************)
(* The rolling archive of monitor runs and the difference between two runs *)
(* (monitor_engine/archive/core.py): pure functions of the items of a run. *)
(* An item is its id and its tier; UrlOf gives the normalised URL.  Items  *)
(* with the same id or URL are the same story.  dedup_items has left one   *)
(* item per story in a batch, so a batch is a set.                         *)
(***************************************************************************)
EXTENDS Integers, Sequences, FiniteSets, SequencesExt

CONSTANTS
  Ids,      \* item ids
  UrlOf,    \* the normalised URL of each
  Tiers,    \* the tiers analysis may give, 1 the most important
  MaxRuns   \* bound of the rolling window (DEFAULT_MAX_RUNS)

ASSUME RunArchiveAssumption ==
  /\ DOMAIN UrlOf = Ids
  /\ Tiers \subseteq 1..3
  /\ MaxRuns \in Nat \ {0}

PersistTier == 1

Item == [id : Ids, tier : Tiers]

SameStory(i, j) == i.id = j.id \/ UrlOf[i.id] = UrlOf[j.id]

Batches == {b \in SUBSET Item : \A i, j \in b : SameStory(i, j) => i = j}

EmptyArchive == [runs |-> <<>>, pinned |-> {}]

Rolling(runs) == UNION {runs[k].items : k \in DOMAIN runs}

Holds(archive, i) ==
  \E j \in Rolling(archive.runs) \cup archive.pinned : SameStory(i, j)

LastRun(archive) ==
  IF archive.runs = <<>> THEN 0 ELSE Last(archive.runs).run

LastItems(archive) ==
  IF archive.runs = <<>> THEN {} ELSE Last(archive.runs).items

(* Mutant: runs leave the window without their important items.            *)
ForgetOnEviction(pinned, run) == pinned

(* The important items of a run that leaves the window are pinned, once.   *)
PinEvicted(pinned, run) ==
  pinned \cup {i \in run.items :
                 i.tier <= PersistTier /\ ~\E p \in pinned : SameStory(p, i)}

(* update_archive: append, evict and pin, and unpin what the window shows. *)
UpdateArchive(archive, run) ==
  LET all == Append(archive.runs, run)
      gone == IF Len(all) > MaxRuns THEN Len(all) - MaxRuns ELSE 0
      kept == SubSeq(all, gone + 1, Len(all))
      pinned == FoldLeft(PinEvicted, archive.pinned, SubSeq(all, 1, gone))
  IN [runs |-> kept,
      pinned |-> {p \in pinned : ~\E i \in Rolling(kept) : SameStory(p, i)}]

(* _match: the item of a run that is this story, by id before URL.         *)
Match(i, items) ==
  LET byId == {j \in items : j.id = i.id}
      same == {j \in items : SameStory(i, j)}
  IN IF byId # {} THEN byId ELSE same

(* compute_diff's new_tier_1: at tier 1 now and absent or lower before.    *)
NewTier1(current, previous) ==
  {i \in current : i.tier = 1 /\ \A p \in Match(i, previous) : p.tier # 1}
=============================================================================

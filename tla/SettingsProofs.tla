---------------------------- MODULE SettingsProofs ----------------------------
(***************************************************************************)
(* Proofs about the monitor runs: what the threads that trigger them and   *)
(* the child processes leave in the rows and in the two files, for any     *)
(* window of the archive and any mixture of failures, timeouts and stops   *)
(* of the API; and about the settings surface that triggers them and the   *)
(* versioned configurations behind it, for any number of saves, panels,    *)
(* threads and runs, whoever makes them.                                   *)
(***************************************************************************)
EXTENDS SettingsWorkspace, SequenceTheorems, TLAPS

-----------------------------------------------------------------------------
(* The runs.                                                               *)

RunRow ==
  [status : {"queued", "running", "completed", "failed", "dispatched"},
   at : Nat, cfg : Nat, checked : Nat]

Thread ==
  [pc : {"idle", "asked", "checked", "waiting", "answered"},
   cfg : Nat, checked : Nat, run : Nat, sender : Nat]

ArchivedRun == [run : Nat, items : SUBSET Item]

Archive ==
  {a \in [runs : Seq(ArchivedRun), pinned : SUBSET Item] : Len(a.runs) <= MaxRuns}

Feed == [run : Nat, newTier1 : SUBSET Item]

Child ==
  [phase : {"none", "done", "failed", "killed", "torn"} \cup Alive,
   cfg : Nat, items : SUBSET Item, loaded : Archive, before : Archive,
   feedBefore : Feed]

RunTypeOK ==
  /\ rows \in Seq(RunRow) /\ Len(rows) <= MaxRows
  /\ trigger \in [Triggers -> Thread]
  /\ child \in [RunId -> Child]
  /\ cfgFile \in Nat
  /\ archive \in Archive
  /\ feed \in Feed
  /\ mechanism \in {"subprocess", "github"}
  /\ clock \in Nat
  /\ latest \in SUBSET Item

(* Every configuration has a latest row, and its version is a number.      *)
ConfigsRead ==
  \A n \in Names :
    /\ \A row \in configs[n] : row.version \in Nat
    /\ \E row \in configs[n] : \A other \in configs[n] : other.version <= row.version

-----------------------------------------------------------------------------
(* The archive.                                                            *)

(* Important stories that the archive holds to stay: in the last run of    *)
(* the window that has the story, or pinned while no run of the window has *)
(* it.                                                                     *)
Lasting(a, l) ==
  \/ \E k \in DOMAIN a.runs :
       /\ l \in a.runs[k].items
       /\ \A m \in DOMAIN a.runs : m > k => \A i \in a.runs[m].items : ~ SameStory(i, l)
  \/ /\ \E p \in a.pinned : SameStory(p, l)
     /\ \A i \in Rolling(a.runs) : ~ SameStory(i, l)

AllLasting(a, L) == \A l \in L : l.tier <= PersistTier => Lasting(a, l)

AllHeld(a, L) == \A l \in L : l.tier <= PersistTier => Holds(a, l)

(* Being the same story is an equivalence.                                 *)
LEMMA StoryEquivalence ==
  /\ \A i, j : SameStory(i, j) <=> UrlOf[i.id] = UrlOf[j.id]
  /\ \A i : SameStory(i, i)
<1>1. ASSUME NEW i, NEW j PROVE SameStory(i, j) <=> UrlOf[i.id] = UrlOf[j.id]
  <2>1. CASE i.id = j.id
    BY <2>1 DEF SameStory
  <2>2. CASE i.id # j.id
    BY <2>2 DEF SameStory
  <2> QED
    BY <2>1, <2>2
<1> QED
  BY <1>1

(* Whatever lasts is held.                                                 *)
LEMMA LastingHeld ==
  ASSUME NEW a, NEW l, Lasting(a, l) PROVE Holds(a, l)
<1>1. \A x \in Rolling(a.runs) \cup a.pinned : SameStory(x, l) => Holds(a, l)
  BY StoryEquivalence DEF Holds
<1>2. ASSUME NEW k \in DOMAIN a.runs, l \in a.runs[k].items PROVE Holds(a, l)
  BY <1>1, <1>2, StoryEquivalence DEF Rolling
<1> QED
  BY <1>1, <1>2 DEF Lasting

(* Nothing is evicted: nothing is pinned.                                  *)
LEMMA PinNone ==
  ASSUME NEW pinned PROVE FoldLeft(PinEvicted, pinned, <<>>) = pinned
<1> DEFINE Iter(f) ==
      [s \in SUBSET {} |-> IF s = {} THEN pinned
                           ELSE LET m == Max(s) IN PinEvicted(f[s \ {m}], <<>>[m])]
<1>1. \A f : f = Iter(f) => f[{}] = pinned
  OBVIOUS
<1>2. [s \in SUBSET {} |-> pinned] = Iter([s \in SUBSET {} |-> pinned])
  OBVIOUS
<1>3. FoldLeft(PinEvicted, pinned, <<>>) = (CHOOSE f : f = Iter(f))[{}]
  <2>1. DOMAIN <<>> = {}
    OBVIOUS
  <2> QED
    BY <2>1 DEF FoldLeft, MapThenFoldSet
<1> HIDE DEF Iter
<1> QED
  BY <1>1, <1>2, <1>3

(* One run is evicted: its important items are pinned.                     *)
LEMMA PinOne ==
  ASSUME NEW pinned, NEW run
  PROVE  FoldLeft(PinEvicted, pinned, <<run>>) = PinEvicted(pinned, run)
<1> DEFINE Iter(f) ==
      [s \in SUBSET {1} |-> IF s = {} THEN pinned
                            ELSE LET m == Max(s) IN PinEvicted(f[s \ {m}], <<run>>[m])]
<1> DEFINE fold == [s \in SUBSET {1} |-> IF s = {} THEN pinned ELSE PinEvicted(pinned, run)]
<1>1. DOMAIN <<run>> = {1} /\ Max({1}) = 1 /\ {1} \ {1} = {}
  BY DEF Max
<1>2. ASSUME NEW f, f = Iter(f) PROVE f[{1}] = PinEvicted(pinned, run)
  <2>1. f[{}] = pinned
    BY <1>2
  <2>2. f[{1}] = PinEvicted(f[{1} \ {1}], <<run>>[1])
    BY <1>1, <1>2
  <2> QED
    BY <1>1, <2>1, <2>2
<1>3. fold = Iter(fold)
  <2>1. \A s \in SUBSET {1} : s = {} \/ s = {1}
    OBVIOUS
  <2>2. ASSUME NEW s \in SUBSET {1} PROVE fold[s] = Iter(fold)[s]
    <3>1. CASE s = {}
      BY <3>1
    <3>2. CASE s = {1}
      <4>1. Iter(fold)[s] = PinEvicted(fold[{1} \ {1}], <<run>>[1])
        BY <1>1, <3>2
      <4>2. fold[{1} \ {1}] = pinned
        BY <1>1
      <4>3. fold[s] = PinEvicted(pinned, run)
        BY <3>2
      <4> QED
        BY <4>1, <4>2, <4>3
    <3> QED
      BY <2>1, <3>1, <3>2
  <2> QED
    BY <2>2
<1>4. FoldLeft(PinEvicted, pinned, <<run>>) = (CHOOSE f : f = Iter(f))[{1}]
  BY <1>1 DEF FoldLeft, MapThenFoldSet
<1> HIDE DEF Iter, fold
<1> QED
  BY <1>2, <1>3, <1>4

(* A sequence of one element.                                              *)
LEMMA OneElement ==
  ASSUME NEW S, NEW s \in Seq(S), Len(s) = 1 PROVE s = <<s[1]>>
<1>1. s \in [1 .. 1 -> S] /\ <<s[1]>> \in [1 .. 1 -> S]
  OBVIOUS
<1> QED
  BY <1>1

(* The window moves on by one run, to archive b.                           *)
Moved(a, run, b, gone, pinned) ==
  /\ gone = 1 => Len(a.runs) = MaxRuns
  /\ b.runs \in Seq(ArchivedRun)
  /\ Len(b.runs) = Len(a.runs) + 1 - gone /\ Len(b.runs) \in 1 .. MaxRuns
  /\ \A k \in 1 .. Len(a.runs) - gone : b.runs[k] = a.runs[k + gone]
  /\ b.runs[Len(b.runs)] = run
  /\ gone = 0 => pinned = a.pinned
  /\ gone = 1 => pinned = PinEvicted(a.pinned, a.runs[1])
  /\ b.pinned = {p \in pinned : ~\E i \in Rolling(b.runs) : SameStory(p, i)}
  /\ b = [runs |-> b.runs, pinned |-> b.pinned]

(* What update_archive does to the window: the run comes last, and at most *)
(* one run, the first, leaves.                                             *)
LEMMA WindowMoves ==
  ASSUME NEW a \in Archive, NEW run \in ArchivedRun,
         NEW b, b = UpdateArchive(a, run)
  PROVE  \E gone \in {0, 1}, pinned \in SUBSET Item : Moved(a, run, b, gone, pinned)
<1> DEFINE all == Append(a.runs, run)
           gone == IF Len(all) > MaxRuns THEN Len(all) - MaxRuns ELSE 0
           kept == SubSeq(all, gone + 1, Len(all))
           pinned == FoldLeft(PinEvicted, a.pinned, SubSeq(all, 1, gone))
<1>1. /\ a.runs \in Seq(ArchivedRun) /\ a.pinned \in SUBSET Item
      /\ Len(a.runs) \in Nat /\ Len(a.runs) <= MaxRuns /\ MaxRuns \in Nat \ {0}
  BY RunArchiveAssumption DEF Archive, RunArchiveAssumption
<1>2. /\ all \in Seq(ArchivedRun) /\ Len(all) = Len(a.runs) + 1
      /\ \A i \in 1 .. Len(a.runs) : all[i] = a.runs[i]
      /\ all[Len(a.runs) + 1] = run
  BY <1>1, AppendProperties
<1>3. b = [runs |-> kept,
           pinned |-> {p \in pinned : ~\E i \in Rolling(kept) : SameStory(p, i)}]
  BY DEF UpdateArchive
<1> HIDE DEF all
<1>4. gone \in {0, 1} /\ (gone = 1 => Len(a.runs) = MaxRuns)
  BY <1>1, <1>2
<1> HIDE DEF gone
<1>5. /\ kept \in Seq(ArchivedRun) /\ Len(kept) = Len(a.runs) + 1 - gone
      /\ \A k \in 1 .. Len(kept) : kept[k] = all[k + gone]
  <2>1. \A i \in gone + 1 .. Len(all) : all[i] \in ArchivedRun
    BY <1>1, <1>2, <1>4
  <2>2. /\ kept \in Seq(ArchivedRun)
        /\ Len(kept) = IF gone + 1 <= Len(all) THEN Len(all) - (gone + 1) + 1 ELSE 0
        /\ \A k \in 1 .. Len(all) - (gone + 1) + 1 : kept[k] = all[gone + 1 + k - 1]
    BY <1>1, <1>2, <1>4, <2>1, SubSeqProperties
  <2> QED
    BY <1>1, <1>2, <1>4, <2>2
<1>6. Len(kept) \in 1 .. MaxRuns
  <2>1. CASE gone = 0
    <3>1. Len(a.runs) + 1 <= MaxRuns
      BY <1>1, <1>2, <2>1 DEF gone
    <3> QED
      BY <1>1, <1>5, <2>1, <3>1
  <2>2. CASE gone = 1
    BY <1>1, <1>4, <1>5, <2>2
  <2> QED
    BY <1>4, <2>1, <2>2
<1>7. gone = 0 => pinned = a.pinned
  <2>1. SubSeq(all, 1, 0) = <<>>
    BY SubSeqEmpty
  <2> QED
    BY <2>1, PinNone
<1>8. gone = 1 => pinned = PinEvicted(a.pinned, a.runs[1])
  <2> SUFFICES ASSUME gone = 1 PROVE pinned = PinEvicted(a.pinned, a.runs[1])
    OBVIOUS
  <2>1. Len(a.runs) >= 1 /\ all[1] = a.runs[1] /\ all[1] \in ArchivedRun
    BY <1>1, <1>2, <1>4
  <2>2. /\ SubSeq(all, 1, 1) \in Seq(ArchivedRun) /\ Len(SubSeq(all, 1, 1)) = 1
        /\ SubSeq(all, 1, 1)[1] = all[1]
    <3>1. \A i \in 1 .. 1 : all[i] \in ArchivedRun
      BY <2>1
    <3>2. /\ SubSeq(all, 1, 1) \in Seq(ArchivedRun)
          /\ Len(SubSeq(all, 1, 1)) = IF 1 <= 1 THEN 1 - 1 + 1 ELSE 0
          /\ \A i \in 1 .. 1 - 1 + 1 : SubSeq(all, 1, 1)[i] = all[1 + i - 1]
      BY <3>1, SubSeqProperties
    <3> QED
      BY <3>2
  <2>3. SubSeq(all, 1, 1) = <<a.runs[1]>>
    BY <2>1, <2>2, OneElement
  <2> QED
    BY <2>3, PinOne
<1> HIDE DEF kept, pinned
<1>9. pinned \in SUBSET Item
  <2>1. CASE gone = 0
    BY <1>1, <1>7, <2>1
  <2>2. CASE gone = 1
    <3>1. a.runs[1] \in ArchivedRun
      BY <1>1, <1>4, <2>2
    <3> QED
      BY <1>1, <1>8, <2>2, <3>1 DEF PinEvicted, ArchivedRun
  <2> QED
    BY <1>4, <2>1, <2>2
<1>10. b.runs = kept /\ b.pinned = {p \in pinned : ~\E i \in Rolling(kept) : SameStory(p, i)}
  BY <1>3
<1>11. \A k \in 1 .. Len(a.runs) - gone : kept[k] = a.runs[k + gone]
  <2> SUFFICES ASSUME NEW k \in 1 .. Len(a.runs) - gone PROVE kept[k] = a.runs[k + gone]
    OBVIOUS
  <2>1. k \in 1 .. Len(kept) /\ k + gone \in 1 .. Len(a.runs)
    BY <1>1, <1>4, <1>5
  <2> QED
    BY <1>2, <1>5, <2>1
<1>12. kept[Len(kept)] = run
  BY <1>1, <1>2, <1>4, <1>5, <1>6
<1>13. Moved(a, run, b, gone, pinned)
  BY <1>3, <1>4, <1>5, <1>6, <1>7, <1>8, <1>10, <1>11, <1>12 DEF Moved
<1> QED
  BY <1>4, <1>9, <1>13

(* update_archive keeps every important story: those of the new run last,  *)
(* those that lasted and have no newer copy last on, and all are held.     *)
LEMMA UpdateKeeps ==
  ASSUME NEW a \in Archive, NEW r \in Nat, NEW S \in SUBSET Item, NEW L,
         AllLasting(a, L), NEW b, b = UpdateArchive(a, [run |-> r, items |-> S])
  PROVE  /\ b \in Archive /\ LastRun(b) = r
         /\ AllLasting(b, S \cup {l \in L : ~\E i \in S : SameStory(l, i)})
         /\ AllHeld(b, L)
<1> DEFINE run == [run |-> r, items |-> S]
<1>1. run \in ArchivedRun /\ run.items = S /\ run.run = r /\ b = UpdateArchive(a, run)
  BY DEF ArchivedRun
<1> HIDE DEF run
<1> PICK gone \in {0, 1}, pinned \in SUBSET Item : Moved(a, run, b, gone, pinned)
  BY <1>1, WindowMoves
<1>2. /\ gone = 1 => Len(a.runs) = MaxRuns
      /\ b.runs \in Seq(ArchivedRun)
      /\ Len(b.runs) = Len(a.runs) + 1 - gone /\ Len(b.runs) \in 1 .. MaxRuns
      /\ \A k \in 1 .. Len(a.runs) - gone : b.runs[k] = a.runs[k + gone]
      /\ b.runs[Len(b.runs)] = run
      /\ gone = 0 => pinned = a.pinned
      /\ gone = 1 => pinned = PinEvicted(a.pinned, a.runs[1])
      /\ b.pinned = {p \in pinned : ~\E i \in Rolling(b.runs) : SameStory(p, i)}
      /\ b = [runs |-> b.runs, pinned |-> b.pinned]
  BY DEF Moved
<1>3. /\ a.runs \in Seq(ArchivedRun) /\ Len(a.runs) \in Nat
      /\ MaxRuns \in Nat \ {0}
      /\ DOMAIN a.runs = 1 .. Len(a.runs) /\ DOMAIN b.runs = 1 .. Len(b.runs)
  BY <1>2, RunArchiveAssumption DEF Archive, RunArchiveAssumption
<1>4. b \in Archive
  <2>1. b.pinned \in SUBSET Item
    BY <1>2
  <2> QED
    BY <1>2, <1>3, <2>1 DEF Archive
<1>5. LastRun(b) = r
  <2>1. b.runs # <<>>
    BY <1>2, <1>3
  <2> QED
    BY <1>1, <1>2, <1>3, <2>1 DEF LastRun, Last
<1>6. a.pinned \subseteq pinned
  BY <1>2 DEF PinEvicted
<1>7. \A k \in DOMAIN b.runs : k = Len(b.runs) \/ k + gone \in DOMAIN a.runs
  BY <1>2, <1>3
<1>8. ASSUME NEW k \in DOMAIN b.runs, k # Len(b.runs)
      PROVE  b.runs[k] = a.runs[k + gone] /\ k + gone \in DOMAIN a.runs
  BY <1>2, <1>3, <1>8
<1>9. \A i \in S : Lasting(b, i)
  <2>1. Len(b.runs) \in DOMAIN b.runs /\ \A m \in DOMAIN b.runs : ~ m > Len(b.runs)
    BY <1>2, <1>3
  <2> QED
    BY <1>1, <1>2, <2>1 DEF Lasting
<1>10. ASSUME NEW l \in L, l.tier <= PersistTier, \A i \in S : ~ SameStory(l, i)
       PROVE  Lasting(b, l)
  <2>0. Lasting(a, l) /\ \A i \in S : ~ SameStory(i, l)
    BY <1>10, StoryEquivalence DEF AllLasting
  <2>1. ASSUME NEW p \in pinned, SameStory(p, l), \A i \in Rolling(b.runs) : ~ SameStory(i, l)
        PROVE  Lasting(b, l)
    <3>1. ~\E i \in Rolling(b.runs) : SameStory(p, i)
      BY <2>1, StoryEquivalence
    <3>2. p \in b.pinned
      BY <1>2, <3>1
    <3> QED
      BY <2>1, <3>2 DEF Lasting
  <2>2. CASE \E p \in a.pinned : SameStory(p, l) /\ \A i \in Rolling(a.runs) : ~ SameStory(i, l)
    <3>1. PICK p \in pinned : SameStory(p, l)
      BY <1>6, <2>2
    <3>2. \A i \in Rolling(b.runs) : ~ SameStory(i, l)
      <4> SUFFICES ASSUME NEW k \in DOMAIN b.runs, NEW i \in b.runs[k].items
                   PROVE  ~ SameStory(i, l)
        BY DEF Rolling
      <4>1. CASE k = Len(b.runs)
        BY <1>1, <1>2, <2>0, <4>1
      <4>2. CASE k # Len(b.runs)
        BY <1>8, <2>2, <4>2 DEF Rolling
      <4> QED
        BY <4>1, <4>2
    <3> QED
      BY <2>1, <3>1, <3>2
  <2>3. ASSUME NEW k \in DOMAIN a.runs, l \in a.runs[k].items,
               \A m \in DOMAIN a.runs : m > k => \A i \in a.runs[m].items : ~ SameStory(i, l)
        PROVE  Lasting(b, l)
    <3>1. CASE k > gone
      <4>3. k - gone \in 1 .. Len(a.runs) - gone /\ (k - gone) + gone = k
        BY <1>3, <3>1
      <4>1. k - gone \in DOMAIN b.runs /\ b.runs[k - gone] = a.runs[k]
        BY <1>2, <1>3, <4>3
      <4>2. ASSUME NEW m \in DOMAIN b.runs, m > k - gone, NEW i \in b.runs[m].items
            PROVE  ~ SameStory(i, l)
        <5>1. CASE m = Len(b.runs)
          BY <1>1, <1>2, <2>0, <4>2, <5>1
        <5>2. CASE m # Len(b.runs)
          <6>1. m + gone \in DOMAIN a.runs /\ m + gone > k /\ b.runs[m] = a.runs[m + gone]
            BY <1>3, <1>8, <4>2, <5>2
          <6> QED
            BY <2>3, <4>2, <6>1
        <5> QED
          BY <5>1, <5>2
      <4> QED
        BY <2>3, <4>1, <4>2 DEF Lasting
    <3>2. CASE ~ k > gone
      <4>1. k = 1 /\ gone = 1 /\ pinned = PinEvicted(a.pinned, a.runs[1])
        BY <1>2, <1>3, <3>2
      <4>2. PICK p \in pinned : SameStory(p, l)
        <5>1. CASE \E p \in a.pinned : SameStory(p, l)
          BY <1>6, <5>1
        <5>2. CASE ~\E p \in a.pinned : SameStory(p, l)
          <6>1. l \in pinned
            BY <1>10, <2>3, <4>1, <5>2 DEF PinEvicted
          <6> QED
            BY <6>1, StoryEquivalence
        <5> QED
          BY <5>1, <5>2
      <4>3. \A i \in Rolling(b.runs) : ~ SameStory(i, l)
        <5> SUFFICES ASSUME NEW m \in DOMAIN b.runs, NEW i \in b.runs[m].items
                     PROVE  ~ SameStory(i, l)
          BY DEF Rolling
        <5>1. CASE m = Len(b.runs)
          BY <1>1, <1>2, <2>0, <5>1
        <5>2. CASE m # Len(b.runs)
          <6>1. m + 1 \in DOMAIN a.runs /\ m + 1 > k /\ b.runs[m] = a.runs[m + 1]
            BY <1>3, <1>8, <4>1, <5>2
          <6> QED
            BY <2>3, <6>1
        <5> QED
          BY <5>1, <5>2
      <4> QED
        BY <2>1, <4>2, <4>3
    <3> QED
      BY <3>1, <3>2
  <2> QED
    BY <2>0, <2>2, <2>3 DEF Lasting
<1>11. AllLasting(b, S \cup {l \in L : ~\E i \in S : SameStory(l, i)})
  BY <1>9, <1>10 DEF AllLasting
<1>12. ASSUME NEW l \in L, l.tier <= PersistTier PROVE Holds(b, l)
  <2>1. CASE \A i \in S : ~ SameStory(l, i)
    BY <1>10, <1>12, <2>1, LastingHeld
  <2>2. CASE \E i \in S : SameStory(l, i)
    <3>1. S \subseteq Rolling(b.runs)
      BY <1>1, <1>2, <1>3 DEF Rolling
    <3> QED
      BY <2>2, <3>1 DEF Holds
  <2> QED
    BY <2>1, <2>2
<1> QED
  BY <1>4, <1>5, <1>11, <1>12 DEF AllHeld

-----------------------------------------------------------------------------
(* What threads, children and files have to do with each other.            *)

(* What a thread has checked stays true until its row is in: the rows it   *)
(* saw have their outcomes, and the interval has passed since each.        *)
ThreadsChecked ==
  \A t \in Triggers :
    /\ trigger[t].pc = "checked" =>
         /\ trigger[t].checked <= Len(rows)
         /\ \A q \in 1 .. trigger[t].checked :
              /\ rows[q].status \notin InProgress
              /\ clock - rows[q].at >= MinInterval
    /\ trigger[t].pc = "waiting" => trigger[t].run \in DOMAIN rows

RowsOrdered ==
  /\ \A q, r \in DOMAIN rows : q <= r => rows[q].at <= rows[r].at
  /\ \A q \in DOMAIN rows : rows[q].at <= clock

(* A child is the one of its row, and has ended when the row has its       *)
(* outcome.                                                                *)
ChildrenMatch ==
  \A r \in RunId :
    /\ child[r].phase # "none" => r \in DOMAIN rows /\ mechanism = "subprocess"
    /\ child[r].phase \in Alive => rows[r].status \in InProgress

RacedAt(r) == \E q \in DOMAIN rows : Raced(q, r) \/ Raced(r, q)

(* A run reads the file that was written for it.                           *)
ConfigAhead ==
  \A r \in DOMAIN rows :
    /\ child[r].phase = "spawned" => cfgFile = rows[r].cfg \/ RacedAt(r)
    /\ child[r].phase \notin {"none", "spawned", "killed"} =>
         child[r].cfg = rows[r].cfg \/ RacedAt(r)

(* The archive and the feed are of one run, or the run was killed between  *)
(* the two.                                                                *)
Paired(a, f) ==
  \/ f.run = LastRun(a)
  \/ LastRun(a) \in RunId /\ child[LastRun(a)].phase = "torn"

(* The files while no run is between the two, and while one is.            *)
FilesKept ==
  /\ \A r \in RunId : child[r].phase = "loaded" => child[r].loaded = archive
  /\ (\A r \in RunId : child[r].phase # "archived") =>
       Paired(archive, feed) /\ AllLasting(archive, latest)
  /\ \A r \in RunId : child[r].phase = "archived" =>
       /\ LastRun(archive) = r
       /\ AllLasting(archive, Published(r)) /\ AllHeld(archive, latest)
       /\ Paired(child[r].before, child[r].feedBefore)
       /\ AllLasting(child[r].before, latest)

RInv ==
  /\ RunTypeOK
  /\ ThreadsChecked
  /\ RowsOrdered
  /\ TriggersSerialized
  /\ ChildrenMatch
  /\ ConfigAhead
  /\ Overlapped \/ FilesKept

(* The steps of threads and children, of whoever asks for a run, and of    *)
(* whoever hears its answer.                                               *)
AnswerHeard(t) ==
  /\ trigger[t].pc = "answered" /\ trigger' = [trigger EXCEPT ![t] = Idle]
  /\ UNCHANGED <<rows, child, cfgFile, archive, feed, mechanism, clock, crashes, latest>>

RunStep ==
  \/ RunNext
  \/ \E t \in Triggers, s \in Nat : Ask(t, s)
  \/ \E t \in Triggers : AnswerHeard(t)
  \/ UNCHANGED runVars

(* The latest row of a configuration is there, and none is later.          *)
LEMMA LatestRow ==
  ASSUME ConfigsRead, NEW n \in Names
  PROVE  /\ LatestConfig(n) \in configs[n] /\ LatestConfig(n).version \in Nat
         /\ \A other \in configs[n] : other.version <= LatestConfig(n).version
<1>1. PICK row \in configs[n] : \A other \in configs[n] : other.version <= row.version
  BY DEF ConfigsRead
<1> DEFINE top == LatestConfig(n)
<1>2. top \in configs[n] /\ \A other \in configs[n] : other.version <= top.version
  BY <1>1 DEF LatestConfig
<1> QED
  BY <1>2 DEF ConfigsRead

(* A thread that moves on.                                                 *)
Asked(x, s) == [x EXCEPT !.pc = "asked", !.sender = s]
CheckDone(x, n, v) == [x EXCEPT !.pc = "checked", !.checked = n, !.cfg = v]
Waiting(x, r) == [x EXCEPT !.pc = "waiting", !.run = r]
Answered(x) == [x EXCEPT !.pc = "answered", !.cfg = 0, !.checked = 0, !.run = 0]

LEMMA ThreadTyped ==
  /\ \A x \in Thread, n \in Nat : Asked(x, n) \in Thread
  /\ \A x \in Thread, n, v \in Nat : CheckDone(x, n, v) \in Thread
  /\ \A x \in Thread, n \in Nat : Waiting(x, n) \in Thread
  /\ \A x \in Thread : Answered(x) \in Thread
<1>1. ASSUME NEW x \in Thread, NEW n \in Nat PROVE Asked(x, n) \in Thread
  BY DEF Asked, Thread
<1>2. ASSUME NEW x \in Thread, NEW n \in Nat, NEW v \in Nat PROVE CheckDone(x, n, v) \in Thread
  BY DEF CheckDone, Thread
<1>3. ASSUME NEW x \in Thread, NEW n \in Nat PROVE Waiting(x, n) \in Thread
  BY DEF Waiting, Thread
<1>4. ASSUME NEW x \in Thread PROVE Answered(x) \in Thread
  BY DEF Answered, Thread
<1> QED
  BY <1>1, <1>2, <1>3, <1>4

(* Its fields.                                                             *)
LEMMA ThreadFields ==
  ASSUME NEW x \in Thread, NEW y
  PROVE  /\ \A n : y = Asked(x, n) => y.pc = "asked" /\ y.sender = n
         /\ \A n, v : y = CheckDone(x, n, v) =>
              y.pc = "checked" /\ y.checked = n /\ y.sender = x.sender
         /\ \A n : y = Waiting(x, n) => y.pc = "waiting" /\ y.run = n /\ y.sender = x.sender
         /\ y = Answered(x) => y.pc = "answered" /\ y.sender = x.sender
<1>1. ASSUME NEW n, y = Asked(x, n) PROVE y.pc = "asked" /\ y.sender = n
  BY <1>1 DEF Asked, Thread
<1>2. ASSUME NEW n, NEW v, y = CheckDone(x, n, v)
      PROVE  y.pc = "checked" /\ y.checked = n /\ y.sender = x.sender
  BY <1>2 DEF CheckDone, Thread
<1>3. ASSUME NEW n, y = Waiting(x, n)
      PROVE  y.pc = "waiting" /\ y.run = n /\ y.sender = x.sender
  BY <1>3 DEF Waiting, Thread
<1>4. ASSUME y = Answered(x) PROVE y.pc = "answered" /\ y.sender = x.sender
  BY <1>4 DEF Answered, Thread
<1> QED
  BY <1>1, <1>2, <1>3, <1>4

(* The steps of a thread.                                                  *)
LEMMA ThreadMoves ==
  ASSUME RunTypeOK, ConfigsRead, RunStep, NEW u \in Triggers
  PROVE  /\ trigger'[u] \in Thread
         /\ trigger'[u].pc = "checked" =>
              \/ trigger'[u] = trigger[u]
              \/ AssertCanStart /\ UNCHANGED <<rows, clock>> /\ trigger'[u].checked = Len(rows)
         /\ trigger'[u].pc = "waiting" =>
              \/ trigger'[u] = trigger[u]
              \/ Len(rows') = Len(rows) + 1 /\ trigger'[u].run = Len(rows')
<1>1. /\ trigger \in [Triggers -> Thread] /\ trigger[u] \in Thread /\ Len(rows) \in Nat
      /\ rows \in Seq(RunRow)
  BY DEF RunTypeOK
<1>2. Idle \in Thread /\ Idle.pc = "idle"
  BY DEF Idle, Thread, Nobody
<1>3. ASSUME NEW t \in Triggers, Answer(t)
      PROVE  trigger'[u] \in Thread /\ (trigger'[u] = trigger[u] \/ trigger'[u].pc \in {"idle", "answered"})
  <2>1. CASE u # t
    BY <1>1, <1>3, <2>1 DEF Answer
  <2>2. CASE u = t /\ trigger[t].sender = Nobody
    BY <1>1, <1>2, <1>3, <2>2 DEF Answer
  <2>3. CASE u = t /\ trigger[t].sender # Nobody
    <3>1. trigger'[u] = Answered(trigger[u])
      BY <1>1, <1>3, <2>3 DEF Answer, Answered
    <3> QED
      BY <1>1, <3>1, ThreadTyped, ThreadFields
  <2> QED
    BY <2>1, <2>2, <2>3
<1>4. ASSUME NEW t \in Triggers, NEW s \in Nat, Ask(t, s)
      PROVE  trigger'[u] \in Thread /\ (trigger'[u] = trigger[u] \/ trigger'[u].pc = "asked")
  <2>1. CASE u # t
    BY <1>1, <1>4, <2>1 DEF Ask
  <2>2. CASE u = t
    <3>1. trigger'[u] = Asked(trigger[u], s)
      BY <1>1, <1>4, <2>2 DEF Ask, Asked
    <3>2. trigger'[u] \in Thread
      BY <1>1, <3>1, ThreadTyped
    <3>3. trigger'[u].pc = "asked"
      BY <1>1, <3>1, ThreadFields
    <3> QED
      BY <3>2, <3>3
  <2> QED
    BY <2>1, <2>2
<1>5. ASSUME NEW t \in Triggers, Check(t)
      PROVE  /\ trigger'[u] \in Thread
             /\ \/ trigger'[u] = trigger[u]
                \/ trigger'[u].pc = "checked" /\ trigger'[u].checked = Len(rows)
             /\ AssertCanStart /\ UNCHANGED <<rows, clock>>
  <2>1. CASE u # t
    BY <1>1, <1>5, <2>1 DEF Check
  <2>2. CASE u = t
    <3>1. PICK v \in Nat : v = LatestConfig("source_registry").version
      BY LatestRow, MonitorRunsAssumption DEF MonitorRunsAssumption
    <3> PICK n \in Nat : n = Len(rows)
      BY <1>1
    <3>2. trigger'[u] = CheckDone(trigger[u], n, v)
      BY <1>1, <1>5, <2>2, <3>1 DEF Check, CheckDone
    <3>3. AssertCanStart /\ UNCHANGED <<rows, clock>>
      BY <1>5 DEF Check
    <3>4. trigger'[u] \in Thread
      BY <1>1, <3>2, ThreadTyped
    <3>5. trigger'[u].pc = "checked" /\ trigger'[u].checked = n
      BY <1>1, <3>2, ThreadFields
    <3> QED
      BY <3>3, <3>4, <3>5
  <2> QED
    BY <2>1, <2>2, <1>5 DEF Check
<1>6. ASSUME NEW t \in Triggers, InsertRun(t)
      PROVE  /\ trigger'[u] \in Thread
             /\ \/ trigger'[u] = trigger[u]
                \/ trigger'[u].pc = "waiting" /\ trigger'[u].run = Len(rows')
             /\ Len(rows') = Len(rows) + 1
  <2>3. Len(rows') = Len(rows) + 1
    BY <1>1, <1>6 DEF InsertRun
  <2>1. CASE u # t
    BY <1>1, <1>6, <2>1, <2>3 DEF InsertRun
  <2>2. CASE u = t
    <3> PICK n \in Nat : n = Len(rows) + 1
      BY <1>1
    <3>1. trigger'[u] = Waiting(trigger[u], n)
      BY <1>1, <1>6, <2>2 DEF InsertRun, Waiting
    <3>2. trigger'[u] \in Thread
      BY <1>1, <3>1, ThreadTyped
    <3>3. trigger'[u].pc = "waiting" /\ trigger'[u].run = n
      BY <1>1, <3>1, ThreadFields
    <3> QED
      BY <2>3, <3>2, <3>3
  <2> QED
    BY <2>1, <2>2
<1>7. ASSUME NEW t \in Triggers, TriggerStep(t)
      PROVE  Check(t) \/ InsertRun(t) \/ Answer(t)
  BY <1>7 DEF TriggerStep, RateLimit, Finish, Timeout, Dispatch, Outcome
<1>8. ASSUME NEW r \in RunId, ChildStep(r) PROVE UNCHANGED trigger
  BY <1>8 DEF ChildStep, Collect, LoadArchive, ReplaceArchive, ReplaceFeed, RestorePair
<1>9. CASE CrashApi
  BY <1>2, <1>9 DEF CrashApi
<1>10. ASSUME NEW t \in Triggers, AnswerHeard(t)
       PROVE  trigger'[u] \in Thread /\ (trigger'[u] = trigger[u] \/ trigger'[u].pc = "idle")
  BY <1>1, <1>2, <1>10 DEF AnswerHeard
<1>11. CASE UNCHANGED trigger
  BY <1>1, <1>11
<1>12. ASSUME NEW t \in Triggers, TriggerStep(t)
       PROVE  /\ trigger'[u] \in Thread
              /\ trigger'[u].pc = "checked" =>
                   \/ trigger'[u] = trigger[u]
                   \/ AssertCanStart /\ UNCHANGED <<rows, clock>> /\ trigger'[u].checked = Len(rows)
              /\ trigger'[u].pc = "waiting" =>
                   \/ trigger'[u] = trigger[u]
                   \/ Len(rows') = Len(rows) + 1 /\ trigger'[u].run = Len(rows')
  BY <1>3, <1>5, <1>6, <1>7, <1>12
<1> QED
  BY <1>4, <1>8, <1>9, <1>10, <1>11, <1>12 DEF RunStep, RunNext, Tick, runVars

(* A run gets its row, last; or its outcome, and nothing else of it.       *)
RowAdded(t) ==
  /\ trigger[t].pc = "checked"
  /\ Len(rows') = Len(rows) + 1 /\ Len(rows) < MaxRows
  /\ \A q \in DOMAIN rows : rows'[q] = rows[q]
  /\ rows'[Len(rows')].at = clock
  /\ rows'[Len(rows')].status \in InProgress
  /\ rows'[Len(rows')].checked = trigger[t].checked
  /\ rows'[Len(rows')].cfg = cfgFile'
  /\ UNCHANGED clock

RowEnded(r) ==
  /\ r \in DOMAIN rows /\ Len(rows') = Len(rows)
  /\ \A q \in DOMAIN rows \ {r} : rows'[q] = rows[q]
  /\ rows'[r].status \notin InProgress
  /\ rows'[r].at = rows[r].at /\ rows'[r].cfg = rows[r].cfg
  /\ rows'[r].checked = rows[r].checked
  /\ UNCHANGED <<clock, cfgFile>>

(* A row that is appended.                                                 *)
LEMMA InsertAdds ==
  ASSUME RunTypeOK, NEW t \in Triggers, InsertRun(t)
  PROVE  rows' \in Seq(RunRow) /\ RowAdded(t)
<1>1. /\ rows \in Seq(RunRow) /\ Len(rows) \in Nat /\ DOMAIN rows = 1 .. Len(rows)
      /\ trigger[t].cfg \in Nat /\ trigger[t].checked \in Nat
      /\ clock \in Nat /\ mechanism \in {"subprocess", "github"}
  BY DEF RunTypeOK, Thread
<1>2. PICK row : /\ row = [status |-> IF mechanism = "subprocess" THEN "running" ELSE "queued",
                           at |-> clock, cfg |-> trigger[t].cfg,
                           checked |-> trigger[t].checked]
                 /\ rows' = Append(rows, row)
  BY DEF InsertRun
<1>3. /\ row \in RunRow /\ row.at = clock /\ row.cfg = trigger[t].cfg
      /\ row.checked = trigger[t].checked /\ row.status \in InProgress
  BY <1>1, <1>2 DEF RunRow, InProgress
<1>4. /\ rows' \in Seq(RunRow) /\ Len(rows') = Len(rows) + 1
      /\ \A q \in 1 .. Len(rows) : rows'[q] = rows[q]
      /\ rows'[Len(rows) + 1] = row
  BY <1>1, <1>2, <1>3, AppendProperties
<1> QED
  BY <1>1, <1>3, <1>4 DEF InsertRun, RowAdded

(* A row that is given its outcome.                                        *)
LEMMA OutcomeEnds ==
  ASSUME RunTypeOK, ThreadsChecked, NEW t \in Triggers, trigger[t].pc = "waiting",
         NEW r, r = trigger[t].run,
         NEW status \in {"completed", "failed", "dispatched"}, Outcome(t, status),
         UNCHANGED <<clock, cfgFile>>
  PROVE  rows' \in Seq(RunRow) /\ RowEnded(r)
<1>1. rows \in Seq(RunRow) /\ DOMAIN rows = 1 .. Len(rows) /\ Len(rows) \in Nat
  BY DEF RunTypeOK
<1>2. r \in DOMAIN rows /\ rows[r] \in RunRow
  BY <1>1 DEF ThreadsChecked
<1>3. rows' = [rows EXCEPT ![r].status = status]
  BY DEF Outcome
<1>6. rows'[r] = [rows[r] EXCEPT !.status = status]
  BY <1>1, <1>2, <1>3
<1>7. /\ rows'[r] \in RunRow
      /\ rows'[r].status = status /\ rows'[r].at = rows[r].at
      /\ rows'[r].cfg = rows[r].cfg /\ rows'[r].checked = rows[r].checked
  BY <1>2, <1>6 DEF RunRow
<1>4. /\ DOMAIN rows' = 1 .. Len(rows) /\ rows' = [q \in 1 .. Len(rows) |-> rows'[q]]
      /\ \A q \in DOMAIN rows \ {r} : rows'[q] = rows[q]
  BY <1>1, <1>2, <1>3
<1>5. rows' \in Seq(RunRow) /\ Len(rows') = Len(rows)
  <2>1. \A q \in 1 .. Len(rows) : rows'[q] \in RunRow
    BY <1>1, <1>4, <1>7
  <2>2. rows' \in [1 .. Len(rows) -> RunRow]
    BY <1>4, <2>1
  <2> QED
    BY <1>1, <2>2
<1> QED
  BY <1>2, <1>4, <1>5, <1>7 DEF RowEnded, InProgress

(* The steps of the rows.                                                  *)
LEMMA RowMoves ==
  ASSUME RunTypeOK, ThreadsChecked, RunStep
  PROVE  /\ rows' \in Seq(RunRow)
         /\ \/ UNCHANGED rows
            \/ \E t \in Triggers : RowAdded(t)
            \/ \E r \in DOMAIN rows : RowEnded(r)
<1>1. CASE UNCHANGED rows
  BY <1>1 DEF RunTypeOK
<1>2. ASSUME NEW t \in Triggers, InsertRun(t)
      PROVE  rows' \in Seq(RunRow) /\ RowAdded(t)
  BY <1>2, InsertAdds
<1>3. ASSUME NEW t \in Triggers, Finish(t) \/ Timeout(t) \/ Dispatch(t)
      PROVE  rows' \in Seq(RunRow) /\ RowEnded(trigger[t].run) /\ trigger[t].run \in DOMAIN rows
  <2>1. PICK status \in {"completed", "failed", "dispatched"} :
          Outcome(t, status) /\ trigger[t].pc = "waiting" /\ UNCHANGED <<clock, cfgFile>>
    BY <1>3 DEF Finish, Timeout, Dispatch
  <2>2. trigger[t].run \in DOMAIN rows
    BY <2>1 DEF ThreadsChecked
  <2> QED
    BY <2>1, <2>2, OutcomeEnds
<1>4. ASSUME NEW t \in Triggers, TriggerStep(t)
      PROVE  \/ UNCHANGED rows
             \/ InsertRun(t) \/ Finish(t) \/ Timeout(t) \/ Dispatch(t)
  BY <1>4 DEF TriggerStep, Check, RateLimit
<1>5. ASSUME NEW r \in RunId, ChildStep(r) PROVE UNCHANGED rows
  BY <1>5 DEF ChildStep, Collect, LoadArchive, ReplaceArchive, ReplaceFeed, RestorePair
<1> QED
  BY <1>1, <1>2, <1>3, <1>4, <1>5 DEF RunStep, RunNext, Ask, AnswerHeard, CrashApi, Tick, runVars

-----------------------------------------------------------------------------
(* The children.                                                           *)

Spawned(x) == [x EXCEPT !.phase = "spawned"]
Analyzed(x, v, S) == [x EXCEPT !.phase = "analyzed", !.cfg = v, !.items = S]
Loaded(x, a) == [x EXCEPT !.phase = "loaded", !.loaded = a]
Replaced(x, a, f) == [x EXCEPT !.phase = "archived", !.before = a, !.feedBefore = f]
Over(phase, v) == [NoChild EXCEPT !.phase = phase, !.cfg = v]

(* The empty archive, and no child.                                        *)
LEMMA NoChildTyped == EmptyArchive \in Archive /\ NoChild \in Child /\ NoChild.phase = "none"
<1>1. MaxRuns \in Nat
  BY RunArchiveAssumption DEF RunArchiveAssumption
<1>2. /\ EmptyArchive \in [runs : Seq(ArchivedRun), pinned : SUBSET Item]
      /\ Len(EmptyArchive.runs) = 0
  BY DEF EmptyArchive
<1>3. EmptyArchive \in Archive
  BY <1>1, <1>2 DEF Archive
<1>4. [run |-> 0, newTier1 |-> {}] \in Feed
  BY DEF Feed
<1> QED
  BY <1>3, <1>4 DEF NoChild, Child

LEMMA ChildTyped ==
  /\ \A x \in Child : Spawned(x) \in Child
  /\ \A x \in Child, v \in Nat, S \in SUBSET Item : Analyzed(x, v, S) \in Child
  /\ \A x \in Child, a \in Archive : Loaded(x, a) \in Child
  /\ \A x \in Child, a \in Archive, f \in Feed : Replaced(x, a, f) \in Child
  /\ \A phase \in {"done", "failed", "killed", "torn"}, v \in Nat : Over(phase, v) \in Child
<1>1. ASSUME NEW x \in Child PROVE Spawned(x) \in Child
  BY DEF Spawned, Child, Alive
<1>2. ASSUME NEW x \in Child, NEW v \in Nat, NEW S \in SUBSET Item PROVE Analyzed(x, v, S) \in Child
  BY DEF Analyzed, Child, Alive
<1>3. ASSUME NEW x \in Child, NEW a \in Archive PROVE Loaded(x, a) \in Child
  BY DEF Loaded, Child, Alive
<1>4. ASSUME NEW x \in Child, NEW a \in Archive, NEW f \in Feed PROVE Replaced(x, a, f) \in Child
  BY DEF Replaced, Child, Alive
<1>5. ASSUME NEW phase \in {"done", "failed", "killed", "torn"}, NEW v \in Nat
      PROVE  Over(phase, v) \in Child
  BY NoChildTyped DEF Over, Child
<1> QED
  BY <1>1, <1>2, <1>3, <1>4, <1>5

LEMMA ChildFields ==
  ASSUME NEW x \in Child, NEW y
  PROVE  /\ y = Spawned(x) => y.phase = "spawned"
         /\ \A v, S : y = Analyzed(x, v, S) => y.phase = "analyzed" /\ y.cfg = v
         /\ \A a : y = Loaded(x, a) => y.phase = "loaded" /\ y.loaded = a /\ y.cfg = x.cfg
         /\ \A a, f : y = Replaced(x, a, f) =>
              /\ y.phase = "archived" /\ y.before = a /\ y.feedBefore = f
              /\ y.cfg = x.cfg /\ y.items = x.items
         /\ \A phase, v : y = Over(phase, v) => y.phase = phase /\ y.cfg = v
<1>1. ASSUME y = Spawned(x) PROVE y.phase = "spawned"
  BY <1>1 DEF Spawned, Child
<1>2. ASSUME NEW v, NEW S, y = Analyzed(x, v, S) PROVE y.phase = "analyzed" /\ y.cfg = v
  BY <1>2 DEF Analyzed, Child
<1>3. ASSUME NEW a, y = Loaded(x, a) PROVE y.phase = "loaded" /\ y.loaded = a /\ y.cfg = x.cfg
  BY <1>3 DEF Loaded, Child
<1>4. ASSUME NEW a, NEW f, y = Replaced(x, a, f)
      PROVE  /\ y.phase = "archived" /\ y.before = a /\ y.feedBefore = f
             /\ y.cfg = x.cfg /\ y.items = x.items
  BY <1>4 DEF Replaced, Child
<1>5. ASSUME NEW phase, NEW v, y = Over(phase, v) PROVE y.phase = phase /\ y.cfg = v
  BY <1>5, NoChildTyped DEF Over, Child
<1> QED
  BY <1>1, <1>2, <1>3, <1>4, <1>5

(* A child that ends, however it does.                                     *)
LEMMA EndedChild ==
  ASSUME RunTypeOK, NEW r \in RunId, NEW phase \in {"done", "failed", "killed", "torn"},
         NEW v \in Nat, Ended(r, phase, v)
  PROVE  /\ child'[r].phase = phase /\ child'[r] \in Child /\ child'[r].cfg = v
         /\ \A q \in RunId \ {r} : child'[q] = child[q]
<1>1. child \in [RunId -> Child] /\ child[r] \in Child
  BY DEF RunTypeOK
<1>2. child'[r] = Over(phase, v) /\ \A q \in RunId \ {r} : child'[q] = child[q]
  BY <1>1 DEF Ended, Over
<1>3. child'[r] \in Child
  BY <1>2, ChildTyped
<1>4. child'[r].phase = phase /\ child'[r].cfg = v
  BY <1>1, <1>2, ChildFields
<1> QED
  BY <1>2, <1>3, <1>4

ChildMoved(r, from, to) ==
  /\ child[r].phase = from /\ child'[r].phase = to
  /\ child'[r] \in Child
  /\ \A q \in RunId \ {r} : child'[q] = child[q]
  /\ UNCHANGED <<rows, trigger, cfgFile, mechanism, clock>>

(* What a child does.                                                      *)
LEMMA ChildSteps ==
  ASSUME RunTypeOK, NEW r \in RunId
  PROVE  /\ Collect(r) =>
              /\ ChildMoved(r, "spawned", "failed") \/ ChildMoved(r, "spawned", "analyzed")
              /\ child'[r].cfg = cfgFile /\ UNCHANGED <<archive, feed, latest>>
         /\ LoadArchive(r) =>
              /\ ChildMoved(r, "analyzed", "loaded") /\ child'[r].cfg = child[r].cfg
              /\ child'[r].loaded = archive /\ UNCHANGED <<archive, feed, latest>>
         /\ ReplaceArchive(r) =>
              /\ ChildMoved(r, "loaded", "archived") /\ child'[r].cfg = child[r].cfg
              /\ child'[r].items = child[r].items
              /\ child'[r].before = archive /\ child'[r].feedBefore = feed
              /\ UNCHANGED <<feed, latest>>
         /\ ReplaceFeed(r) =>
              /\ ChildMoved(r, "archived", "done") /\ child'[r].cfg = child[r].cfg
              /\ feed' \in Feed /\ feed'.run = r
              /\ latest' = Published(r) /\ UNCHANGED archive
         /\ RestorePair(r) =>
              /\ ChildMoved(r, "archived", "failed") /\ child'[r].cfg = child[r].cfg
              /\ archive' = child[r].before /\ feed' = child[r].feedBefore
              /\ UNCHANGED latest
<1>1. /\ child \in [RunId -> Child] /\ child[r] \in Child /\ cfgFile \in Nat
      /\ archive \in Archive /\ feed \in Feed /\ child[r].cfg \in Nat
  BY DEF RunTypeOK, Child
<1>2. ASSUME NEW phase \in {"done", "failed"}, NEW v \in Nat, Ended(r, phase, v)
      PROVE  /\ child'[r].phase = phase /\ child'[r] \in Child /\ child'[r].cfg = v
             /\ \A q \in RunId \ {r} : child'[q] = child[q]
  BY <1>2, EndedChild
<1>3. ASSUME Collect(r)
      PROVE  /\ ChildMoved(r, "spawned", "failed") \/ ChildMoved(r, "spawned", "analyzed")
             /\ child'[r].cfg = cfgFile /\ UNCHANGED <<archive, feed, latest>>
  <2>1. CASE Ended(r, "failed", cfgFile)
    BY <1>1, <1>2, <1>3, <2>1 DEF Collect, ChildMoved
  <2>2. CASE ~ Ended(r, "failed", cfgFile)
    <3>1. PICK S \in Batches :
            child' = [child EXCEPT ![r].phase = "analyzed", ![r].cfg = cfgFile, ![r].items = S]
      BY <1>3, <2>2 DEF Collect
    <3>2. child'[r] = Analyzed(child[r], cfgFile, S) /\ \A q \in RunId \ {r} : child'[q] = child[q]
      BY <1>1, <3>1 DEF Analyzed
    <3>3. S \in SUBSET Item
      BY DEF Batches
    <3>4. child'[r] \in Child
      BY <1>1, <3>2, <3>3, ChildTyped
    <3>5. child'[r].phase = "analyzed" /\ child'[r].cfg = cfgFile
      BY <1>1, <3>2, ChildFields
    <3> QED
      BY <1>3, <3>2, <3>4, <3>5 DEF Collect, ChildMoved
  <2> QED
    BY <2>1, <2>2
<1>4. ASSUME LoadArchive(r)
      PROVE  /\ ChildMoved(r, "analyzed", "loaded") /\ child'[r].cfg = child[r].cfg
             /\ child'[r].loaded = archive /\ UNCHANGED <<archive, feed, latest>>
  <2>1. child'[r] = Loaded(child[r], archive) /\ \A q \in RunId \ {r} : child'[q] = child[q]
    BY <1>1, <1>4 DEF LoadArchive, Loaded
  <2>2. child'[r] \in Child
    BY <1>1, <2>1, ChildTyped
  <2>3. child'[r].phase = "loaded" /\ child'[r].cfg = child[r].cfg /\ child'[r].loaded = archive
    BY <1>1, <2>1, ChildFields
  <2> QED
    BY <1>4, <2>1, <2>2, <2>3 DEF LoadArchive, ChildMoved
<1>5. ASSUME ReplaceArchive(r)
      PROVE  /\ ChildMoved(r, "loaded", "archived") /\ child'[r].cfg = child[r].cfg
             /\ child'[r].items = child[r].items
             /\ child'[r].before = archive /\ child'[r].feedBefore = feed
             /\ UNCHANGED <<feed, latest>>
  <2>1. child'[r] = Replaced(child[r], archive, feed) /\ \A q \in RunId \ {r} : child'[q] = child[q]
    BY <1>1, <1>5 DEF ReplaceArchive, Replaced
  <2>2. child'[r] \in Child
    BY <1>1, <2>1, ChildTyped
  <2>3. /\ child'[r].phase = "archived" /\ child'[r].cfg = child[r].cfg
        /\ child'[r].items = child[r].items
        /\ child'[r].before = archive /\ child'[r].feedBefore = feed
    BY <1>1, <2>1, ChildFields
  <2> QED
    BY <1>5, <2>1, <2>2, <2>3 DEF ReplaceArchive, ChildMoved
<1>6. ASSUME ReplaceFeed(r)
      PROVE  /\ ChildMoved(r, "archived", "done") /\ child'[r].cfg = child[r].cfg
             /\ feed' \in Feed /\ feed'.run = r
             /\ latest' = Published(r) /\ UNCHANGED archive
  <2>1. PICK T : T = NewTier1(child[r].items, LastItems(child[r].loaded))
    OBVIOUS
  <2>2. feed' = [run |-> r, newTier1 |-> T]
    BY <1>6, <2>1 DEF ReplaceFeed
  <2>3. T \in SUBSET Item /\ r \in Nat
    BY <1>1, <2>1 DEF NewTier1, Child, RunId
  <2>4. feed' \in Feed /\ feed'.run = r
    BY <2>2, <2>3 DEF Feed
  <2>5. Ended(r, "done", child[r].cfg)
    BY <1>6 DEF ReplaceFeed
  <2> QED
    BY <1>1, <1>2, <1>6, <2>4, <2>5 DEF ReplaceFeed, ChildMoved
<1>7. ASSUME RestorePair(r)
      PROVE  /\ ChildMoved(r, "archived", "failed") /\ child'[r].cfg = child[r].cfg
             /\ archive' = child[r].before /\ feed' = child[r].feedBefore
             /\ UNCHANGED latest
  <2>1. Ended(r, "failed", child[r].cfg)
    BY <1>7 DEF RestorePair
  <2> QED
    BY <1>1, <1>2, <1>7, <2>1 DEF RestorePair, ChildMoved
<1> QED
  BY <1>3, <1>4, <1>5, <1>6, <1>7
(* The arrays of threads and of children keep their indices.               *)
LEMMA ArraysKept ==
  ASSUME RunTypeOK, RunStep
  PROVE  /\ trigger' = [u \in Triggers |-> trigger'[u]]
         /\ child' = [r \in RunId |-> child'[r]]
<1>1. trigger = [u \in Triggers |-> trigger[u]] /\ child = [r \in RunId |-> child[r]]
  BY DEF RunTypeOK
<1>2. ASSUME NEW t \in Triggers, TriggerStep(t)
      PROVE  trigger' = [u \in Triggers |-> trigger'[u]]
  BY <1>1, <1>2 DEF TriggerStep, Check, RateLimit, InsertRun, Finish, Timeout, Dispatch,
                    Outcome, Answer
<1>3. ASSUME NEW t \in Triggers, TriggerStep(t) PROVE child' = [r \in RunId |-> child'[r]]
  <2>1. CASE InsertRun(t) \/ Timeout(t)
    BY <1>1, <2>1 DEF InsertRun, Timeout, Ended
  <2>2. CASE ~ (InsertRun(t) \/ Timeout(t))
    BY <1>1, <1>3, <2>2 DEF TriggerStep, Check, RateLimit, Finish, Dispatch
  <2> QED
    BY <2>1, <2>2
<1>4. ASSUME NEW r \in RunId, ChildStep(r)
      PROVE  UNCHANGED trigger /\ child' = [q \in RunId |-> child'[q]]
  BY <1>1, <1>4 DEF ChildStep, Collect, LoadArchive, ReplaceArchive, ReplaceFeed, RestorePair, Ended
<1>5. CASE CrashApi \/ Tick
  BY <1>1, <1>5 DEF CrashApi, Tick
<1>6. ASSUME NEW t \in Triggers, AnswerHeard(t) \/ \E s \in Nat : Ask(t, s)
      PROVE  trigger' = [u \in Triggers |-> trigger'[u]] /\ UNCHANGED child
  BY <1>1, <1>6 DEF AnswerHeard, Ask
<1> QED
  BY <1>1, <1>2, <1>3, <1>4, <1>5, <1>6 DEF RunStep, RunNext, runVars

-----------------------------------------------------------------------------
(* The steps, as the rows, the children and the files show them.           *)
Still == UNCHANGED <<rows, child, cfgFile, archive, feed, mechanism, clock, latest>>

Ticked == /\ clock' = clock + 1
          /\ UNCHANGED <<rows, child, cfgFile, archive, feed, mechanism, latest>>

Started(t) ==
  /\ RowAdded(t) /\ UNCHANGED <<archive, feed, mechanism, latest>>
  /\ \A r \in RunId \ {Len(rows')} : child'[r] = child[r]
  /\ \/ child'[Len(rows')] = child[Len(rows')]
     \/ /\ child'[Len(rows')].phase = "spawned" /\ mechanism = "subprocess"
        /\ child'[Len(rows')] \in Child

RunClosed(r) ==
  /\ RowEnded(r) /\ child[r].phase \notin Alive
  /\ UNCHANGED <<child, archive, feed, mechanism, latest>>

Stopped(r) ==
  /\ RowEnded(r) /\ child[r].phase \in Alive /\ mechanism = "subprocess"
  /\ child'[r].phase = IF child[r].phase = "archived" THEN "torn" ELSE "killed"
  /\ latest' = IF child[r].phase = "archived" THEN Published(r) ELSE latest
  /\ child'[r] \in Child /\ child'[r].cfg = child[r].cfg
  /\ \A q \in RunId \ {r} : child'[q] = child[q]
  /\ UNCHANGED <<archive, feed, mechanism>>

(* A run that starts.                                                      *)
LEMMA InsertStarts ==
  ASSUME RunTypeOK, NEW t \in Triggers, InsertRun(t) PROVE Started(t)
<1>1. /\ child \in [RunId -> Child] /\ rows \in Seq(RunRow) /\ Len(rows) \in Nat
      /\ mechanism \in {"subprocess", "github"}
  BY DEF RunTypeOK
<1>2. RowAdded(t) /\ Len(rows') = Len(rows) + 1 /\ Len(rows) < MaxRows
  BY InsertAdds DEF RowAdded
<1>3. MaxRows \in Nat
  BY MonitorRunsAssumption DEF MonitorRunsAssumption
<1>4. PICK n : n = Len(rows) + 1
  OBVIOUS
<1>5. n \in RunId /\ n = Len(rows')
  BY <1>1, <1>2, <1>3, <1>4 DEF RunId
<1>6. CASE mechanism = "subprocess"
  <2>1. child'[n] = Spawned(child[n]) /\ \A r \in RunId \ {n} : child'[r] = child[r]
    BY <1>1, <1>4, <1>5, <1>6 DEF InsertRun, Spawned
  <2>2. child'[n] \in Child
    BY <1>1, <1>5, <2>1, ChildTyped
  <2>3. child'[n].phase = "spawned"
    BY <1>1, <1>5, <2>1, ChildFields
  <2> QED
    BY <1>2, <1>5, <1>6, <2>1, <2>2, <2>3 DEF InsertRun, Started
<1>7. CASE mechanism # "subprocess"
  BY <1>2, <1>5, <1>7 DEF InsertRun, Started
<1> QED
  BY <1>6, <1>7

(* A thread that hears of the outcome of its run, or kills it.             *)
LEMMA OutcomeCloses ==
  ASSUME RunTypeOK, ThreadsChecked, ChildrenMatch, NEW t \in Triggers
  PROVE  /\ Finish(t) \/ Dispatch(t) => \E r \in RunId : RunClosed(r)
         /\ Timeout(t) => \E r \in RunId : Stopped(r)
<1> PICK r : r = trigger[t].run
  OBVIOUS
<1>1. /\ child \in [RunId -> Child] /\ rows \in Seq(RunRow) /\ DOMAIN rows = 1 .. Len(rows)
      /\ Len(rows) \in Nat
  BY DEF RunTypeOK
<1>9. Len(rows) <= MaxRows
  BY DEF RunTypeOK
<1>2. ASSUME Finish(t) \/ Dispatch(t) \/ Timeout(t)
      PROVE  RowEnded(r) /\ r \in DOMAIN rows
  <2>1. PICK status \in {"completed", "failed", "dispatched"} :
          Outcome(t, status) /\ trigger[t].pc = "waiting" /\ UNCHANGED <<clock, cfgFile>>
    BY <1>2 DEF Finish, Timeout, Dispatch
  <2> QED
    BY <2>1, OutcomeEnds DEF RowEnded
<1>3. ASSUME Finish(t) \/ Dispatch(t), r \in RunId PROVE RunClosed(r)
  <2>1. child[r].phase \notin Alive
    BY <1>3 DEF Finish, Dispatch, ChildrenMatch, Alive
  <2> QED
    BY <1>2, <1>3, <2>1 DEF RunClosed, Finish, Dispatch
<1>4. ASSUME Timeout(t), r \in RunId PROVE Stopped(r)
  <2> PICK phase : phase = IF child[r].phase = "archived" THEN "torn" ELSE "killed"
    OBVIOUS
  <2>1. Ended(r, phase, child[r].cfg) /\ phase \in {"killed", "torn"} /\ child[r].cfg \in Nat
    BY <1>1, <1>4 DEF Timeout, Child
  <2>2. /\ child'[r].phase = phase /\ child'[r] \in Child /\ child'[r].cfg = child[r].cfg
        /\ \A q \in RunId \ {r} : child'[q] = child[q]
    BY <1>4, <2>1, EndedChild
  <2> QED
    BY <1>2, <1>4, <2>2 DEF Stopped, Timeout
<1>5. ASSUME Finish(t) \/ Dispatch(t) \/ Timeout(t) PROVE r \in RunId
  BY <1>1, <1>2, <1>5, <1>9, MonitorRunsAssumption DEF MonitorRunsAssumption, RunId
<1> QED
  BY <1>3, <1>4, <1>5
(* Every step is one of these.                                             *)
LEMMA RunSteps ==
  ASSUME RunTypeOK, ThreadsChecked, ChildrenMatch, RunStep
  PROVE  \/ Still \/ Ticked
         \/ \E t \in Triggers : Started(t)
         \/ \E r \in RunId : RunClosed(r) \/ Stopped(r) \/ ChildStep(r)
<1>1. ASSUME NEW t \in Triggers, TriggerStep(t)
      PROVE  Still \/ Started(t) \/ \E r \in RunId : RunClosed(r) \/ Stopped(r)
  <2>1. CASE Check(t) \/ RateLimit(t)
    BY <2>1 DEF Check, RateLimit, Still
  <2>2. CASE InsertRun(t)
    BY <2>2, InsertStarts
  <2>3. CASE Finish(t) \/ Dispatch(t) \/ Timeout(t)
    BY <2>3, OutcomeCloses
  <2> QED
    BY <1>1, <2>1, <2>2, <2>3 DEF TriggerStep
<1>2. CASE CrashApi \/ Tick
  BY <1>2 DEF CrashApi, Tick, Still, Ticked
<1>3. CASE \E t \in Triggers : AnswerHeard(t) \/ \E s \in Nat : Ask(t, s)
  BY <1>3 DEF AnswerHeard, Ask, Still
<1>4. CASE UNCHANGED runVars
  BY <1>4 DEF runVars, Still
<1> QED
  BY <1>1, <1>2, <1>3, <1>4 DEF RunStep, RunNext

(* What it publishes are items.                                            *)
LEMMA PublishedItems ==
  ASSUME RunTypeOK, NEW r \in RunId
  PROVE  Published(r) \in SUBSET Item
<1>1. child[r].items \in SUBSET Item /\ latest \in SUBSET Item
  BY DEF RunTypeOK, Child
<1> QED
  BY <1>1 DEF Published

(* The archive that a run writes is an archive.                            *)
LEMMA ReplacedArchive ==
  ASSUME RunTypeOK, NEW r \in RunId, ReplaceArchive(r) PROVE archive' \in Archive
<1>1. child[r] \in Child
  BY DEF RunTypeOK
<1>2. PICK a \in Archive, S \in SUBSET Item : a = child[r].loaded /\ S = child[r].items
  BY <1>1 DEF Child
<1>3. archive' = UpdateArchive(a, [run |-> r, items |-> S])
  BY <1>2 DEF ReplaceArchive
<1>4. AllLasting(a, {}) /\ r \in Nat
  BY DEF AllLasting, RunId
<1> QED
  BY <1>3, <1>4, UpdateKeeps

(* The types last.                                                         *)
LEMMA TypesLast ==
  ASSUME RunTypeOK, ThreadsChecked, ChildrenMatch, ConfigsRead, RunStep
  PROVE  RunTypeOK'
<1>1. rows' \in Seq(RunRow) /\ trigger' \in [Triggers -> Thread]
  <2>1. \A u \in Triggers : trigger'[u] \in Thread
    BY ThreadMoves
  <2> QED
    BY <2>1, RowMoves, ArraysKept
<1>2. /\ child \in [RunId -> Child] /\ Len(rows) <= MaxRows /\ cfgFile \in Nat
      /\ archive \in Archive /\ feed \in Feed /\ latest \in SUBSET Item
      /\ mechanism \in {"subprocess", "github"} /\ clock \in Nat /\ Len(rows) \in Nat
      /\ MaxRows \in Nat
  BY MonitorRunsAssumption DEF MonitorRunsAssumption, RunTypeOK
<1>3. ASSUME \A r \in RunId : child'[r] \in Child, Len(rows') <= MaxRows, cfgFile' \in Nat,
             archive' \in Archive, feed' \in Feed, latest' \in SUBSET Item,
             UNCHANGED mechanism, clock' \in Nat
      PROVE  RunTypeOK'
  <2>1. child' \in [RunId -> Child]
    BY <1>3, ArraysKept
  <2> QED
    BY <1>1, <1>2, <1>3, <2>1 DEF RunTypeOK
<1>4. CASE Still \/ Ticked
  BY <1>2, <1>3, <1>4 DEF Still, Ticked
<1>5. ASSUME NEW t \in Triggers, Started(t) PROVE RunTypeOK'
  <2>1. Len(rows') \in 1 .. MaxRows /\ UNCHANGED clock /\ cfgFile' = rows'[Len(rows')].cfg
    BY <1>2, <1>5 DEF Started, RowAdded
  <2>2. cfgFile' \in Nat
    <3>1. rows'[Len(rows')] \in RunRow
      BY <1>1, <2>1
    <3> QED
      BY <2>1, <3>1 DEF RunRow
  <2>3. \A r \in RunId : child'[r] \in Child
    BY <1>2, <1>5 DEF Started, RunId
  <2> QED
    BY <1>2, <1>3, <1>5, <2>1, <2>2, <2>3 DEF Started
<1>6. ASSUME NEW r \in RunId, RunClosed(r) PROVE RunTypeOK'
  BY <1>2, <1>3, <1>6 DEF RunClosed, RowEnded
<1>7. ASSUME NEW r \in RunId, Stopped(r) PROVE RunTypeOK'
  <2>1. \A q \in RunId : child'[q] \in Child
    BY <1>2, <1>7 DEF Stopped
  <2> QED
    BY <1>2, <1>3, <1>7, <2>1, PublishedItems DEF Stopped, RowEnded
<1>8. ASSUME NEW r \in RunId, ChildStep(r) PROVE RunTypeOK'
  <2>1. /\ \E from, to : ChildMoved(r, from, to)
        /\ archive' \in Archive /\ feed' \in Feed /\ latest' \in SUBSET Item
    <3>1. CASE Collect(r) \/ LoadArchive(r)
      BY <1>2, <3>1, ChildSteps
    <3>2. CASE ReplaceArchive(r)
      BY <1>2, <3>2, ChildSteps, ReplacedArchive
    <3>3. CASE ReplaceFeed(r)
      BY <1>2, <3>3, ChildSteps, PublishedItems
    <3>4. CASE RestorePair(r)
      BY <1>2, <3>4, ChildSteps DEF Child
    <3> QED
      BY <1>8, <3>1, <3>2, <3>3, <3>4 DEF ChildStep
  <2>2. \A q \in RunId : child'[q] \in Child
    BY <1>2, <2>1 DEF ChildMoved
  <2> QED
    BY <1>2, <1>3, <2>1, <2>2 DEF ChildMoved
<1> QED
  BY <1>4, <1>5, <1>6, <1>7, <1>8, RunSteps
-----------------------------------------------------------------------------
(* The rows.                                                               *)

(* The indices and the figures of the rows.                                *)
LEMMA RowsTyped ==
  ASSUME RunTypeOK
  PROVE  /\ Len(rows) \in Nat /\ DOMAIN rows = 1 .. Len(rows) /\ clock \in Nat
         /\ \A q \in DOMAIN rows :
              rows[q].at \in Nat /\ rows[q].cfg \in Nat /\ rows[q].checked \in Nat
<1>1. rows \in Seq(RunRow) /\ clock \in Nat
  BY DEF RunTypeOK
<1>2. Len(rows) \in Nat /\ DOMAIN rows = 1 .. Len(rows) /\ \A q \in DOMAIN rows : rows[q] \in RunRow
  BY <1>1
<1>3. \A row \in RunRow : row.at \in Nat /\ row.cfg \in Nat /\ row.checked \in Nat
  BY DEF RunRow
<1> QED
  BY <1>1, <1>2, <1>3

(* There are as many rows as before, or one more.                          *)
LEMMA RowsGrow ==
  ASSUME RunTypeOK, ThreadsChecked, RunStep
  PROVE  \E n, m \in Nat :
           /\ n = Len(rows) /\ DOMAIN rows = 1 .. n
           /\ m = Len(rows') /\ DOMAIN rows' = 1 .. m
           /\ m = n \/ (m = n + 1 /\ \E t \in Triggers : RowAdded(t))
<1>1. PICK n \in Nat : n = Len(rows) /\ DOMAIN rows = 1 .. n
  BY RowsTyped
<1>2. PICK m \in Nat : m = Len(rows') /\ DOMAIN rows' = 1 .. m
  <2>1. rows' \in Seq(RunRow)
    BY RowMoves
  <2>2. Len(rows') \in Nat /\ DOMAIN rows' = 1 .. Len(rows')
    BY <2>1
  <2> QED
    BY <2>2
<1>3. CASE UNCHANGED rows
  BY <1>1, <1>2, <1>3
<1>4. ASSUME NEW t \in Triggers, RowAdded(t) PROVE m = n + 1
  BY <1>1, <1>2, <1>4 DEF RowAdded
<1>5. ASSUME NEW r \in DOMAIN rows, RowEnded(r) PROVE m = n
  BY <1>1, <1>2, <1>5 DEF RowEnded
<1>6. m = n \/ (m = n + 1 /\ \E t \in Triggers : RowAdded(t))
  BY <1>3, <1>4, <1>5, RowMoves, <1>1, <1>2
<1> QED
  BY <1>1, <1>2, <1>6

(* Rows stay: their time, their configuration and what their check saw;    *)
(* a status that is an outcome stays one; the clock does not go back.      *)
LEMMA RowsStay ==
  ASSUME RunTypeOK, ThreadsChecked, ChildrenMatch, RunStep
  PROVE  /\ DOMAIN rows \subseteq DOMAIN rows'
         /\ \A q \in DOMAIN rows :
              /\ rows'[q].at = rows[q].at /\ rows'[q].cfg = rows[q].cfg
              /\ rows'[q].checked = rows[q].checked
              /\ rows[q].status \notin InProgress => rows'[q].status \notin InProgress
         /\ clock' \in Nat /\ clock' >= clock
<1>1. clock \in Nat
  BY RowsTyped
<1>2. DOMAIN rows \subseteq DOMAIN rows'
  <2>1. PICK n, m \in Nat : DOMAIN rows = 1 .. n /\ DOMAIN rows' = 1 .. m /\ (m = n \/ m = n + 1)
    BY RowsGrow
  <2> QED
    BY <2>1
<1>3. clock' \in Nat /\ clock' >= clock
  <2>1. Still \/ Ticked \/ UNCHANGED clock
    BY RunSteps, ChildSteps DEF Started, RunClosed, Stopped, RowAdded, RowEnded,
       ChildStep, Collect, LoadArchive, ReplaceArchive, ReplaceFeed, RestorePair
  <2> QED
    BY <1>1, <2>1 DEF Still, Ticked
<1>4. ASSUME NEW q \in DOMAIN rows
      PROVE  /\ rows'[q].at = rows[q].at /\ rows'[q].cfg = rows[q].cfg
             /\ rows'[q].checked = rows[q].checked
             /\ rows[q].status \notin InProgress => rows'[q].status \notin InProgress
  <2>1. CASE UNCHANGED rows
    BY <2>1
  <2>2. ASSUME NEW t \in Triggers, RowAdded(t) PROVE rows'[q] = rows[q]
    BY <2>2 DEF RowAdded
  <2>3. ASSUME NEW r \in DOMAIN rows, RowEnded(r), q # r PROVE rows'[q] = rows[q]
    BY <2>3 DEF RowEnded
  <2>4. ASSUME RowEnded(q)
        PROVE  /\ rows'[q].at = rows[q].at /\ rows'[q].cfg = rows[q].cfg
               /\ rows'[q].checked = rows[q].checked
               /\ rows'[q].status \notin InProgress
    BY <2>4 DEF RowEnded
  <2> QED
    BY <2>1, <2>2, <2>3, <2>4, RowMoves
<1> QED
  BY <1>2, <1>3, <1>4

(* Triggers that raced have raced for good.                                *)
LEMMA RacesStay ==
  ASSUME RunTypeOK, ThreadsChecked, ChildrenMatch, RunStep
  PROVE  /\ \A q, r \in DOMAIN rows : Raced(q, r)' <=> Raced(q, r)
         /\ Overlapped => Overlapped'
         /\ \A r \in DOMAIN rows : RacedAt(r) => RacedAt(r)'
<1>1. \A q, r \in DOMAIN rows : Raced(q, r)' <=> Raced(q, r)
  BY RowsStay DEF Raced
<1>2. Overlapped => Overlapped'
  BY <1>1, RowsStay DEF Overlapped
<1>3. \A r \in DOMAIN rows : RacedAt(r) => RacedAt(r)'
  BY <1>1, RowsStay DEF RacedAt
<1> QED
  BY <1>1, <1>2, <1>3

LEMMA ThreadsCheckedLast ==
  ASSUME RunTypeOK, ThreadsChecked, ChildrenMatch, RowsOrdered, ConfigsRead, RunStep
  PROVE  ThreadsChecked'
<1> SUFFICES ASSUME NEW u \in Triggers
             PROVE  /\ trigger'[u].pc = "checked" =>
                         /\ trigger'[u].checked <= Len(rows')
                         /\ \A q \in 1 .. trigger'[u].checked :
                              /\ rows'[q].status \notin InProgress
                              /\ clock' - rows'[q].at >= MinInterval
                    /\ trigger'[u].pc = "waiting" => trigger'[u].run \in DOMAIN rows'
  BY DEF ThreadsChecked
<1> PICK n, m \in Nat :
      /\ n = Len(rows) /\ DOMAIN rows = 1 .. n
      /\ m = Len(rows') /\ DOMAIN rows' = 1 .. m /\ (m = n \/ m = n + 1)
  BY RowsGrow
<1>1. /\ Len(rows) \in Nat /\ DOMAIN rows = 1 .. Len(rows) /\ clock \in Nat
      /\ \A q \in DOMAIN rows : rows[q].at \in Nat
  BY RowsTyped
<1>9. trigger[u].checked \in Nat
  BY DEF RunTypeOK, Thread
<1>2. MinInterval \in Nat
  BY MonitorRunsAssumption DEF MonitorRunsAssumption
<1>3. ASSUME trigger'[u] = trigger[u], trigger'[u].pc = "checked"
      PROVE  /\ trigger'[u].checked <= Len(rows')
             /\ \A q \in 1 .. trigger'[u].checked :
                  /\ rows'[q].status \notin InProgress
                  /\ clock' - rows'[q].at >= MinInterval
  <2>1. /\ trigger[u].checked <= Len(rows)
        /\ \A q \in 1 .. trigger[u].checked :
             rows[q].status \notin InProgress /\ clock - rows[q].at >= MinInterval
    BY <1>3 DEF ThreadsChecked
  <2>2. 1 .. trigger[u].checked \subseteq DOMAIN rows
    BY <1>1, <1>9, <2>1
  <2>3. Len(rows') >= Len(rows) /\ Len(rows') \in Nat
    OBVIOUS
  <2>4. ASSUME NEW q \in 1 .. trigger[u].checked
        PROVE  rows'[q].status \notin InProgress /\ clock' - rows'[q].at >= MinInterval
    <3>1. /\ q \in DOMAIN rows /\ rows[q].at \in Nat /\ clock - rows[q].at >= MinInterval
          /\ rows[q].status \notin InProgress
      BY <1>1, <2>1, <2>2
    <3>2. /\ rows'[q].at = rows[q].at /\ clock' \in Nat /\ clock' >= clock
          /\ rows'[q].status \notin InProgress
      BY <3>1, RowsStay
    <3> QED
      BY <1>1, <1>2, <3>1, <3>2
  <2> QED
    BY <1>1, <1>3, <1>9, <2>1, <2>3, <2>4
<1>4. ASSUME AssertCanStart, UNCHANGED <<rows, clock>>, trigger'[u].checked = Len(rows)
      PROVE  /\ trigger'[u].checked <= Len(rows')
             /\ \A q \in 1 .. trigger'[u].checked :
                  /\ rows'[q].status \notin InProgress
                  /\ clock' - rows'[q].at >= MinInterval
  <2>1. ASSUME NEW q \in DOMAIN rows
        PROVE  rows[q].status \notin InProgress /\ clock - rows[q].at >= MinInterval
    <3>1. /\ Len(rows) \in DOMAIN rows /\ rows # <<>>
          /\ q <= Len(rows) /\ Last(rows) = rows[Len(rows)]
      BY <1>1 DEF Last
    <3>2. rows[q].at <= rows[Len(rows)].at /\ rows[q].at \in Nat /\ rows[Len(rows)].at \in Nat
      BY <1>1, <3>1 DEF RowsOrdered
    <3>3. rows[q].status \notin InProgress /\ clock - rows[Len(rows)].at >= MinInterval
      BY <1>4, <3>1 DEF AssertCanStart
    <3> QED
      BY <1>1, <1>2, <3>2, <3>3
  <2> QED
    BY <1>1, <1>4, <2>1
<1>5. ASSUME trigger'[u].pc = "waiting" PROVE trigger'[u].run \in DOMAIN rows'
  <2>1. CASE trigger'[u] = trigger[u]
    BY <1>5, <2>1, RowsStay DEF ThreadsChecked
  <2>2. CASE Len(rows') = Len(rows) + 1 /\ trigger'[u].run = Len(rows')
    <3>1. m = n + 1 /\ trigger'[u].run = m
      BY <2>2
    <3> QED
      BY <3>1
  <2> QED
    BY <1>5, <2>1, <2>2, ThreadMoves
<1> QED
  BY <1>3, <1>4, <1>5, ThreadMoves

LEMMA RowsOrderedLast ==
  ASSUME RunTypeOK, ThreadsChecked, ChildrenMatch, RowsOrdered, RunStep
  PROVE  RowsOrdered'
<1> PICK n, m \in Nat :
      /\ n = Len(rows) /\ DOMAIN rows = 1 .. n
      /\ m = Len(rows') /\ DOMAIN rows' = 1 .. m
      /\ m = n \/ (m = n + 1 /\ \E t \in Triggers : RowAdded(t))
  BY RowsGrow
<1>1. clock \in Nat /\ \A q \in 1 .. n : rows[q].at \in Nat
  BY RowsTyped
<1>2. clock' \in Nat /\ clock' >= clock /\ \A q \in 1 .. n : rows'[q].at = rows[q].at
  BY RowsStay
<1>3. \A q \in 1 .. n : rows'[q].at <= clock' /\ rows'[q].at \in Nat
  BY <1>1, <1>2 DEF RowsOrdered
<1>4. m = n + 1 => rows'[m].at = clock /\ clock' = clock
  BY DEF RowAdded
<1>5. \A q \in 1 .. m : rows'[q].at <= clock' /\ rows'[q].at \in Nat
  BY <1>1, <1>3, <1>4
<1>6. ASSUME NEW q \in 1 .. m, NEW r \in 1 .. m, q <= r PROVE rows'[q].at <= rows'[r].at
  <2>1. CASE r \in 1 .. n
    <3>1. q \in 1 .. n /\ rows[q].at <= rows[r].at
      BY <1>6, <2>1 DEF RowsOrdered
    <3> QED
      BY <1>2, <2>1, <3>1
  <2>2. CASE r \notin 1 .. n
    <3>1. r = m /\ m = n + 1
      BY <2>2
    <3> QED
      BY <1>4, <1>5, <3>1
  <2> QED
    BY <2>1, <2>2
<1> QED
  BY <1>5, <1>6 DEF RowsOrdered

(* Runs start one at a time, the interval apart, unless two triggers raced.*)
LEMMA SerializedLast ==
  ASSUME RunTypeOK, ThreadsChecked, ChildrenMatch, RowsOrdered, TriggersSerialized, RunStep
  PROVE  TriggersSerialized'
<1> SUFFICES ASSUME NEW q \in DOMAIN rows', NEW r \in DOMAIN rows', q < r, ~ Raced(q, r)'
             PROVE  rows'[q].status \notin InProgress /\ rows'[r].at - rows'[q].at >= MinInterval
  BY DEF TriggersSerialized
<1> PICK n, m \in Nat :
      /\ n = Len(rows) /\ DOMAIN rows = 1 .. n
      /\ m = Len(rows') /\ DOMAIN rows' = 1 .. m
      /\ m = n \/ (m = n + 1 /\ \E t \in Triggers : RowAdded(t))
  BY RowsGrow
<1>1. q \in 1 .. n /\ q \in DOMAIN rows
  OBVIOUS
<1>2. CASE r \in DOMAIN rows
  <2>1. rows[q].status \notin InProgress /\ rows[r].at - rows[q].at >= MinInterval
    BY <1>1, <1>2, RacesStay DEF TriggersSerialized
  <2> QED
    BY <1>1, <1>2, <2>1, RowsStay
<1>3. CASE r \notin DOMAIN rows
  <2>1. r = m /\ m = n + 1
    BY <1>3
  <2>2. PICK t \in Triggers : RowAdded(t)
    BY <2>1
  <2>3. /\ trigger[t].pc = "checked" /\ rows'[r].checked = trigger[t].checked
        /\ rows'[r].at = clock /\ rows'[q] = rows[q]
    BY <1>1, <2>1, <2>2 DEF RowAdded
  <2>4. trigger[t].checked \in Nat
    BY DEF RunTypeOK, Thread
  <2>5. q <= trigger[t].checked
    BY <1>1, <2>3, <2>4 DEF Raced
  <2>6. rows[q].status \notin InProgress /\ clock - rows[q].at >= MinInterval
    BY <1>1, <2>3, <2>4, <2>5 DEF ThreadsChecked
  <2> QED
    BY <2>3, <2>6
<1> QED
  BY <1>2, <1>3
-----------------------------------------------------------------------------
(* The children and the rows.                                              *)

(* A child whose run has no row yet does not exist.                        *)
LEMMA NoRowNoChild ==
  ASSUME RunTypeOK, ChildrenMatch, NEW t \in Triggers, Started(t)
  PROVE  /\ Len(rows') \in RunId /\ Len(rows') \notin DOMAIN rows
         /\ child[Len(rows')].phase = "none"
<1>1. Len(rows) \in Nat /\ DOMAIN rows = 1 .. Len(rows) /\ MaxRows \in Nat
  BY RowsTyped, MonitorRunsAssumption DEF MonitorRunsAssumption
<1>2. Len(rows') = Len(rows) + 1 /\ Len(rows) < MaxRows
  BY DEF Started, RowAdded
<1>3. Len(rows') \in RunId /\ Len(rows') \notin DOMAIN rows
  BY <1>1, <1>2 DEF RunId
<1> QED
  BY <1>3 DEF ChildrenMatch

(* The phase of the child that takes a step, before and after it.          *)
LEMMA ChildStepMoves ==
  ASSUME RunTypeOK, NEW r \in RunId, ChildStep(r)
  PROVE  /\ child[r].phase \in Alive
         /\ child'[r].phase \in {"failed", "analyzed", "loaded", "archived", "done"}
         /\ \A q \in RunId \ {r} : child'[q] = child[q]
         /\ UNCHANGED <<rows, trigger, cfgFile, mechanism, clock>>
<1>1. PICK from \in Alive, to \in {"failed", "analyzed", "loaded", "archived", "done"} :
        ChildMoved(r, from, to)
  BY ChildSteps DEF ChildStep, Alive
<1> QED
  BY <1>1 DEF ChildMoved

LEMMA ChildrenMatchLast ==
  ASSUME RunTypeOK, ThreadsChecked, ChildrenMatch, RunStep
  PROVE  ChildrenMatch'
<1> SUFFICES ASSUME NEW q \in RunId
             PROVE  /\ child'[q].phase # "none" => q \in DOMAIN rows' /\ mechanism' = "subprocess"
                    /\ child'[q].phase \in Alive => rows'[q].status \in InProgress
  BY DEF ChildrenMatch
<1>1. DOMAIN rows \subseteq DOMAIN rows'
  BY RowsStay
<1>2. CASE Still \/ Ticked
  BY <1>2 DEF Still, Ticked, ChildrenMatch
<1>3. ASSUME NEW t \in Triggers, Started(t)
      PROVE  /\ child'[q].phase # "none" => q \in DOMAIN rows' /\ mechanism' = "subprocess"
             /\ child'[q].phase \in Alive => rows'[q].status \in InProgress
  <2>1. CASE q # Len(rows')
    <3>1. child'[q] = child[q] /\ UNCHANGED mechanism
      BY <1>3, <2>1 DEF Started
    <3>2. q \in DOMAIN rows => rows'[q] = rows[q]
      BY <1>3 DEF Started, RowAdded
    <3>3. child[q].phase \in Alive => q \in DOMAIN rows
      BY DEF ChildrenMatch, Alive
    <3> QED
      BY <1>1, <3>1, <3>2, <3>3 DEF ChildrenMatch
  <2>2. CASE q = Len(rows')
    <3>1. child[q].phase = "none" /\ rows'[q].status \in InProgress /\ UNCHANGED mechanism
      BY <1>3, <2>2, NoRowNoChild DEF Started, RowAdded
    <3>2. q \in DOMAIN rows'
      <4>1. PICK m \in Nat : m = Len(rows') /\ DOMAIN rows' = 1 .. m
        BY RowsGrow
      <4> QED
        BY <2>2, <4>1 DEF RunId
    <3>3. child'[q] = child[q] \/ (child'[q].phase = "spawned" /\ mechanism = "subprocess")
      BY <1>3, <2>2 DEF Started
    <3> QED
      BY <3>1, <3>2, <3>3 DEF Alive
  <2> QED
    BY <2>1, <2>2
<1>4. ASSUME NEW r \in RunId, RunClosed(r)
      PROVE  /\ child'[q].phase # "none" => q \in DOMAIN rows' /\ mechanism' = "subprocess"
             /\ child'[q].phase \in Alive => rows'[q].status \in InProgress
  <2>1. UNCHANGED <<child, mechanism>> /\ child[r].phase \notin Alive
    BY <1>4 DEF RunClosed
  <2>2. q \in DOMAIN rows /\ q # r => rows'[q] = rows[q]
    BY <1>4 DEF RunClosed, RowEnded
  <2>3. child[q].phase \in Alive => q \in DOMAIN rows
    BY DEF ChildrenMatch, Alive
  <2> QED
    BY <1>1, <2>1, <2>2, <2>3 DEF ChildrenMatch
<1>5. ASSUME NEW r \in RunId, Stopped(r)
      PROVE  /\ child'[q].phase # "none" => q \in DOMAIN rows' /\ mechanism' = "subprocess"
             /\ child'[q].phase \in Alive => rows'[q].status \in InProgress
  <2>1. CASE q = r
    <3>1. child'[q].phase \in {"torn", "killed"} /\ q \in DOMAIN rows
          /\ mechanism = "subprocess" /\ UNCHANGED mechanism
      BY <1>5, <2>1 DEF Stopped, RowEnded
    <3> QED
      BY <1>1, <3>1 DEF Alive
  <2>2. CASE q # r
    <3>1. child'[q] = child[q] /\ UNCHANGED mechanism
      BY <1>5, <2>2 DEF Stopped
    <3>2. q \in DOMAIN rows => rows'[q] = rows[q]
      BY <1>5, <2>2 DEF Stopped, RowEnded
    <3>3. child[q].phase \in Alive => q \in DOMAIN rows
      BY DEF ChildrenMatch, Alive
    <3> QED
      BY <1>1, <3>1, <3>2, <3>3 DEF ChildrenMatch
  <2> QED
    BY <2>1, <2>2
<1>6. ASSUME NEW r \in RunId, ChildStep(r)
      PROVE  /\ child'[q].phase # "none" => q \in DOMAIN rows' /\ mechanism' = "subprocess"
             /\ child'[q].phase \in Alive => rows'[q].status \in InProgress
  <2>1. /\ child[r].phase \in Alive /\ UNCHANGED <<rows, mechanism>>
        /\ q # r => child'[q] = child[q]
    BY <1>6, ChildStepMoves
  <2>2. child[r].phase # "none"
    BY <2>1 DEF Alive
  <2> QED
    BY <2>1, <2>2 DEF ChildrenMatch
<1> QED
  BY <1>2, <1>3, <1>4, <1>5, <1>6, RunSteps

(* A run reads the file written for it, or it raced.                       *)
LEMMA ConfigAheadLast ==
  ASSUME RunTypeOK, ThreadsChecked, ChildrenMatch, RowsOrdered, TriggersSerialized,
         ConfigAhead, RunStep
  PROVE  ConfigAhead'
<1> SUFFICES ASSUME NEW q \in DOMAIN rows', ~ RacedAt(q)'
             PROVE  /\ child'[q].phase = "spawned" => cfgFile' = rows'[q].cfg
                    /\ child'[q].phase \notin {"none", "spawned", "killed"} =>
                         child'[q].cfg = rows'[q].cfg
  BY DEF ConfigAhead
<1> DEFINE Reads ==
      /\ child'[q].phase = "spawned" => cfgFile' = rows'[q].cfg
      /\ child'[q].phase \notin {"none", "spawned", "killed"} => child'[q].cfg = rows'[q].cfg
<1>0. DOMAIN rows \subseteq RunId
  BY RowsTyped, MonitorRunsAssumption DEF RunTypeOK, MonitorRunsAssumption, RunId
<1>1. q \in DOMAIN rows =>
        /\ q \in RunId /\ ~ RacedAt(q) /\ rows'[q].cfg = rows[q].cfg
        /\ child[q].phase = "spawned" => cfgFile = rows[q].cfg
        /\ child[q].phase \notin {"none", "spawned", "killed"} => child[q].cfg = rows[q].cfg
  BY <1>0, RacesStay, RowsStay DEF ConfigAhead
<1>2. q \in DOMAIN rows \/ \E t \in Triggers : Started(t) /\ q = Len(rows')
  <2>1. PICK n, m \in Nat :
          /\ n = Len(rows) /\ DOMAIN rows = 1 .. n
          /\ m = Len(rows') /\ DOMAIN rows' = 1 .. m /\ (m = n \/ m = n + 1)
    BY RowsGrow
  <2>2. q \in DOMAIN rows \/ (q = Len(rows') /\ m = n + 1)
    BY <2>1
  <2>3. ASSUME m = n + 1 PROVE \E t \in Triggers : Started(t)
    <3>1. ~ UNCHANGED rows
      BY <2>1, <2>3
    <3>2. \A r \in RunId : ~ RowEnded(r)
      BY <2>1, <2>3 DEF RowEnded
    <3> QED
      BY <3>1, <3>2, RunSteps, ChildStepMoves DEF Still, Ticked, RunClosed, Stopped
  <2> QED
    BY <2>2, <2>3
<1>3. ASSUME NEW t \in Triggers, Started(t) PROVE Reads
  <2>1. CASE q = Len(rows')
    <3>1. rows'[q].cfg = cfgFile' /\ child[q].phase = "none"
      BY <1>3, <2>1, NoRowNoChild DEF Started, RowAdded
    <3>2. child'[q] = child[q] \/ child'[q].phase = "spawned"
      BY <1>3, <2>1 DEF Started
    <3> QED
      BY <3>1, <3>2
  <2>2. CASE q # Len(rows')
    <3>1. q \in DOMAIN rows
      BY <1>2, <2>2
    <3>2. child'[q] = child[q] /\ rows'[q] = rows[q]
      BY <1>1, <1>3, <2>2, <3>1 DEF Started, RowAdded
    <3>3. child[q].phase # "spawned"
      <4> SUFFICES ASSUME child[q].phase = "spawned" PROVE FALSE
        OBVIOUS
      <4>1. rows'[q].status \in InProgress
        BY <1>1, <3>1, <3>2 DEF ChildrenMatch, Alive
      <4>2. PICK m \in Nat : m = Len(rows') /\ DOMAIN rows' = 1 .. m
        BY RowsGrow
      <4>3. q < m /\ m \in DOMAIN rows'
        BY <2>2, <4>2
      <4>4. Raced(q, m)'
        BY <4>1, <4>3, SerializedLast DEF TriggersSerialized
      <4> QED
        BY <4>3, <4>4 DEF RacedAt
    <3> QED
      BY <1>1, <3>1, <3>2, <3>3
  <2> QED
    BY <2>1, <2>2
<1>4. ASSUME q \in DOMAIN rows, UNCHANGED cfgFile, child'[q] = child[q] PROVE Reads
  BY <1>1, <1>4
<1>5. ASSUME q \in DOMAIN rows, Stopped(q) PROVE Reads
  <2>1. /\ child'[q].phase = "torn" \/ child'[q].phase = "killed"
        /\ child'[q].phase = "torn" => child[q].phase = "archived"
        /\ child'[q].cfg = child[q].cfg
    BY <1>5 DEF Stopped
  <2> QED
    BY <1>1, <1>5, <2>1
<1>6. ASSUME q \in DOMAIN rows, ChildStep(q) PROVE Reads
  <2>1. CASE Collect(q)
    <3>1. /\ child[q].phase = "spawned" /\ child'[q].cfg = cfgFile
          /\ child'[q].phase \in {"failed", "analyzed"}
      BY <1>1, <1>6, <2>1, ChildSteps DEF ChildMoved
    <3> QED
      BY <1>1, <1>6, <3>1
  <2>2. CASE ~ Collect(q)
    <3>1. /\ child[q].phase \in {"analyzed", "loaded", "archived"}
          /\ child'[q].phase # "spawned" /\ child'[q].cfg = child[q].cfg
      BY <1>1, <1>6, <2>2, ChildSteps DEF ChildStep, ChildMoved
    <3> QED
      BY <1>1, <1>6, <3>1
  <2> QED
    BY <2>1, <2>2
<1>7. CASE q \in DOMAIN rows /\ ~\E t \in Triggers : Started(t)
  <2>1. CASE Still \/ Ticked
    BY <1>4, <1>7, <2>1 DEF Still, Ticked
  <2>2. ASSUME NEW r \in RunId, RunClosed(r) \/ Stopped(r) \/ ChildStep(r), r # q
        PROVE  UNCHANGED cfgFile /\ child'[q] = child[q]
    BY <1>1, <1>7, <2>2, ChildStepMoves DEF RunClosed, Stopped, RowEnded
  <2>3. RunClosed(q) => UNCHANGED cfgFile /\ child'[q] = child[q]
    BY DEF RunClosed, RowEnded
  <2> QED
    BY <1>4, <1>5, <1>6, <1>7, <2>1, <2>2, <2>3, RunSteps
<1> QED
  BY <1>2, <1>3, <1>7
-----------------------------------------------------------------------------
(* The two files.                                                          *)

(* Runs that did not race are one at a time.                               *)
LEMMA OneAlive ==
  ASSUME RunTypeOK, TriggersSerialized, ChildrenMatch, ~ Overlapped,
         NEW q \in RunId, NEW r \in RunId,
         child[q].phase \in Alive, child[r].phase \in Alive
  PROVE  q = r
<1>1. /\ q \in DOMAIN rows /\ r \in DOMAIN rows
      /\ rows[q].status \in InProgress /\ rows[r].status \in InProgress
  BY DEF ChildrenMatch, Alive
<1>2. ~ Raced(q, r) /\ ~ Raced(r, q)
  BY <1>1 DEF Overlapped
<1>3. ~ q < r /\ ~ r < q
  BY <1>1, <1>2 DEF TriggersSerialized
<1> QED
  BY <1>3 DEF RunId

(* A pair of files stays one while its run stays torn.                     *)
LEMMA PairStays ==
  ASSUME NEW a, NEW f, Paired(a, f),
         \A q \in RunId : child[q].phase = "torn" => child'[q].phase = "torn"
  PROVE  \/ f.run = LastRun(a)
         \/ LastRun(a) \in RunId /\ child'[LastRun(a)].phase = "torn"
BY DEF Paired

(* Children and files that stay as they are.                               *)
FilesStill ==
  /\ UNCHANGED <<archive, feed, latest>>
  /\ \A q \in RunId : child'[q] = child[q] \/ (child[q].phase = "none" /\ child'[q].phase = "spawned")

LEMMA FilesStay ==
  ASSUME RunTypeOK, FilesKept, FilesStill
  PROVE  FilesKept'
<1>1. UNCHANGED <<archive, feed, latest>>
  BY DEF FilesStill
<1>2. \A q \in RunId : child[q].phase = "torn" => child'[q].phase = "torn"
  BY DEF FilesStill
<1>3. ASSUME NEW q \in RunId, child'[q].phase \in {"loaded", "archived"}
      PROVE  child'[q] = child[q]
  BY <1>3 DEF FilesStill
<1>4. \A q \in RunId : child[q].phase = "archived" => child'[q].phase = "archived"
  BY DEF FilesStill
<1>5. ASSUME NEW q \in RunId, child'[q].phase = "loaded" PROVE child'[q].loaded = archive'
  BY <1>1, <1>3, <1>5 DEF FilesKept
<1>6. ASSUME \A q \in RunId : child'[q].phase # "archived"
      PROVE  Paired(archive, feed)' /\ AllLasting(archive, latest)'
  <2>1. Paired(archive, feed) /\ AllLasting(archive, latest)
    BY <1>4, <1>6 DEF FilesKept
  <2>2. \/ feed.run = LastRun(archive)
        \/ LastRun(archive) \in RunId /\ child'[LastRun(archive)].phase = "torn"
    BY <1>2, <2>1, PairStays
  <2> QED
    BY <1>1, <2>1, <2>2 DEF Paired
<1>7. ASSUME NEW q \in RunId, child'[q].phase = "archived"
      PROVE  /\ LastRun(archive') = q
             /\ AllLasting(archive, Published(q))' /\ AllHeld(archive, latest)'
             /\ Paired(child[q].before, child[q].feedBefore)'
             /\ AllLasting(child[q].before, latest)'
  <2>1. child'[q] = child[q]
    BY <1>3, <1>7
  <2>2. /\ LastRun(archive) = q
        /\ AllLasting(archive, Published(q)) /\ AllHeld(archive, latest)
        /\ Paired(child[q].before, child[q].feedBefore)
        /\ AllLasting(child[q].before, latest)
    BY <1>7, <2>1 DEF FilesKept
  <2>3. Published(q)' = Published(q)
    BY <1>1, <2>1 DEF Published
  <2> PICK a, f : a = child[q].before /\ f = child[q].feedBefore
    OBVIOUS
  <2>4. \/ f.run = LastRun(a)
        \/ LastRun(a) \in RunId /\ child'[LastRun(a)].phase = "torn"
    BY <1>2, <2>2, PairStays
  <2>5. Paired(child[q].before, child[q].feedBefore)'
    BY <2>1, <2>4 DEF Paired
  <2> QED
    BY <1>1, <2>1, <2>2, <2>3, <2>5
<1> QED
  BY <1>5, <1>6, <1>7 DEF FilesKept

(* The only child at work takes a step: nobody else is between the files.  *)
LEMMA AloneAtWork ==
  ASSUME RunTypeOK, TriggersSerialized, ChildrenMatch, ~ Overlapped,
         NEW r \in RunId, child[r].phase \in Alive,
         \A q \in RunId \ {r} : child'[q] = child[q]
  PROVE  /\ \A q \in RunId \ {r} :
              child[q].phase \notin Alive /\ child'[q].phase \notin Alive
         /\ \A q \in RunId : child[q].phase = "torn" => child'[q].phase = "torn"
<1>1. \A q \in RunId \ {r} : child[q].phase \notin Alive
  BY OneAlive
<1>2. child[r].phase # "torn"
  BY DEF Alive
<1> QED
  BY <1>1, <1>2

(* Between its files, or not, when nobody else is at work.                 *)
LEMMA FilesOfOne ==
  ASSUME NEW r \in RunId, \A q \in RunId \ {r} : child'[q].phase \notin Alive,
         child'[r].phase = "loaded" => child'[r].loaded = archive',
         child'[r].phase # "archived" => Paired(archive, feed)' /\ AllLasting(archive, latest)',
         child'[r].phase = "archived" =>
           /\ LastRun(archive') = r
           /\ AllLasting(archive, Published(r))' /\ AllHeld(archive, latest)'
           /\ Paired(child[r].before, child[r].feedBefore)'
           /\ AllLasting(child[r].before, latest)'
  PROVE  FilesKept'
<1>1. \A q \in RunId : child'[q].phase \in {"loaded", "archived"} => q = r
  BY DEF Alive
<1> QED
  BY <1>1 DEF FilesKept

(* A run that is killed.                                                   *)
LEMMA FilesStopped ==
  ASSUME RunTypeOK, TriggersSerialized, ChildrenMatch, FilesKept, ~ Overlapped,
         NEW r \in RunId, Stopped(r)
  PROVE  FilesKept'
<1>1. /\ \A q \in RunId \ {r} : child[q].phase \notin Alive /\ child'[q].phase \notin Alive
      /\ \A q \in RunId : child[q].phase = "torn" => child'[q].phase = "torn"
  BY AloneAtWork DEF Stopped
<1>2. child'[r].phase \in {"torn", "killed"} /\ UNCHANGED <<archive, feed>>
  BY DEF Stopped
<1>3. Paired(archive, feed)' /\ AllLasting(archive, latest)'
  <2>1. CASE child[r].phase = "archived"
    <3>1. /\ child'[r].phase = "torn" /\ latest' = Published(r)
          /\ LastRun(archive) = r /\ AllLasting(archive, Published(r))
      BY <2>1 DEF Stopped, FilesKept
    <3> QED
      BY <1>2, <3>1 DEF Paired
  <2>2. CASE child[r].phase # "archived"
    <3>1. Paired(archive, feed) /\ AllLasting(archive, latest) /\ latest' = latest
      BY <1>1, <2>2 DEF Stopped, FilesKept, Alive
    <3>2. \/ feed.run = LastRun(archive)
          \/ LastRun(archive) \in RunId /\ child'[LastRun(archive)].phase = "torn"
      BY <1>1, <3>1, PairStays
    <3> QED
      BY <1>2, <3>1, <3>2 DEF Paired
  <2> QED
    BY <2>1, <2>2
<1> QED
  BY <1>1, <1>2, <1>3, FilesOfOne

(* A run that works, alone.                                                *)
LEMMA FilesWorked ==
  ASSUME RunTypeOK, TriggersSerialized, ChildrenMatch, FilesKept, ~ Overlapped,
         NEW r \in RunId, ChildStep(r)
  PROVE  FilesKept'
<1>1. /\ \A q \in RunId \ {r} : child[q].phase \notin Alive /\ child'[q].phase \notin Alive
      /\ \A q \in RunId : child[q].phase = "torn" => child'[q].phase = "torn"
  BY ChildStepMoves, AloneAtWork
<1>2. /\ child[r].phase \notin {"archived"} =>
           /\ Paired(archive, feed) /\ AllLasting(archive, latest)
           /\ \/ feed.run = LastRun(archive)
              \/ LastRun(archive) \in RunId /\ child'[LastRun(archive)].phase = "torn"
  <2>1. ASSUME child[r].phase # "archived"
        PROVE  Paired(archive, feed) /\ AllLasting(archive, latest)
    BY <1>1, <2>1 DEF FilesKept, Alive
  <2> QED
    BY <1>1, <2>1, PairStays
<1>3. ASSUME Collect(r) \/ LoadArchive(r) PROVE FilesKept'
  <2>1. /\ child[r].phase # "archived" /\ child'[r].phase # "archived"
        /\ child'[r].phase = "loaded" => child'[r].loaded = archive
        /\ UNCHANGED <<archive, feed, latest>>
    BY <1>3, ChildSteps DEF ChildMoved
  <2>2. Paired(archive, feed)' /\ AllLasting(archive, latest)'
    BY <1>2, <2>1 DEF Paired
  <2> QED
    BY <1>1, <2>1, <2>2, FilesOfOne
<1>4. ASSUME ReplaceArchive(r) PROVE FilesKept'
  <2>1. /\ child[r].phase = "loaded" /\ child'[r].phase = "archived"
        /\ child'[r].items = child[r].items
        /\ child'[r].before = archive /\ child'[r].feedBefore = feed
        /\ UNCHANGED <<feed, latest>>
    BY <1>4, ChildSteps DEF ChildMoved
  <2> PICK S \in SUBSET Item : S = child[r].items
    BY DEF RunTypeOK, Child
  <2>2. archive' = UpdateArchive(archive, [run |-> r, items |-> S])
    BY <1>4, <2>1 DEF ReplaceArchive, FilesKept
  <2>3. archive \in Archive /\ r \in Nat /\ AllLasting(archive, latest)
    BY <1>2, <2>1 DEF RunTypeOK, RunId
  <2>4. /\ LastRun(archive') = r
        /\ AllLasting(archive', S \cup {l \in latest : ~\E i \in S : SameStory(l, i)})
        /\ AllHeld(archive', latest)
    <3> PICK a, b, L : a = archive /\ b = archive' /\ L = latest
      OBVIOUS
    <3>1. b = UpdateArchive(a, [run |-> r, items |-> S])
      BY <2>2
    <3>2. a \in Archive /\ r \in Nat /\ AllLasting(a, L)
      BY <2>3
    <3>3. /\ LastRun(b) = r
          /\ AllLasting(b, S \cup {l \in L : ~\E i \in S : SameStory(l, i)})
          /\ AllHeld(b, L)
      BY <3>1, <3>2, UpdateKeeps
    <3> QED
      BY <3>3
  <2>5. Published(r)' = S \cup {l \in latest : ~\E i \in S : SameStory(l, i)}
    BY <2>1 DEF Published
  <2>6. Paired(child[r].before, child[r].feedBefore)'
    BY <1>2, <2>1 DEF Paired
  <2>7. AllLasting(archive, Published(r))'
    BY <2>4, <2>5
  <2>8. AllHeld(archive, latest)' /\ AllLasting(child[r].before, latest)'
    BY <2>1, <2>3, <2>4
  <2> QED
    BY <1>1, <2>1, <2>4, <2>6, <2>7, <2>8, FilesOfOne
<1>5. ASSUME ReplaceFeed(r) PROVE FilesKept'
  <2>1. /\ child[r].phase = "archived" /\ child'[r].phase = "done"
        /\ feed'.run = r /\ latest' = Published(r) /\ UNCHANGED archive
    BY <1>5, ChildSteps DEF ChildMoved
  <2>2. LastRun(archive) = r /\ AllLasting(archive, Published(r))
    BY <2>1 DEF FilesKept
  <2>3. Paired(archive, feed)' /\ AllLasting(archive, latest)'
    BY <2>1, <2>2 DEF Paired
  <2> QED
    BY <1>1, <2>1, <2>3, FilesOfOne
<1>6. ASSUME RestorePair(r) PROVE FilesKept'
  <2>1. /\ child[r].phase = "archived" /\ child'[r].phase = "failed"
        /\ archive' = child[r].before /\ feed' = child[r].feedBefore /\ UNCHANGED latest
    BY <1>6, ChildSteps DEF ChildMoved
  <2> PICK a, f : a = child[r].before /\ f = child[r].feedBefore
    OBVIOUS
  <2>2. Paired(a, f) /\ AllLasting(a, latest)
    BY <2>1 DEF FilesKept
  <2>3. \/ f.run = LastRun(a)
        \/ LastRun(a) \in RunId /\ child'[LastRun(a)].phase = "torn"
    BY <1>1, <2>2, PairStays
  <2>4. Paired(archive, feed)' /\ AllLasting(archive, latest)'
    BY <2>1, <2>2, <2>3 DEF Paired
  <2> QED
    BY <1>1, <2>1, <2>4, FilesOfOne
<1> QED
  BY <1>3, <1>4, <1>5, <1>6 DEF ChildStep

(* While no runs overlap, the files are kept.                              *)
LEMMA FilesLast ==
  ASSUME RunTypeOK, ThreadsChecked, TriggersSerialized, ChildrenMatch,
         Overlapped \/ FilesKept, RunStep
  PROVE  Overlapped' \/ FilesKept'
<1> SUFFICES ASSUME ~ Overlapped, FilesKept PROVE FilesKept'
  BY RacesStay
<1>1. CASE Still \/ Ticked
  BY <1>1, FilesStay DEF Still, Ticked, FilesStill
<1>2. ASSUME NEW t \in Triggers, Started(t) PROVE FilesKept'
  <2>1. child[Len(rows')].phase = "none"
    BY <1>2, NoRowNoChild
  <2>2. FilesStill
    BY <1>2, <2>1 DEF Started, FilesStill
  <2> QED
    BY <2>2, FilesStay
<1>3. ASSUME NEW r \in RunId, RunClosed(r) PROVE FilesKept'
  BY <1>3, FilesStay DEF RunClosed, FilesStill
<1> QED
  BY <1>1, <1>2, <1>3, FilesStopped, FilesWorked, RunSteps
-----------------------------------------------------------------------------
(* The invariant.                                                          *)

(* Before any run.                                                         *)
LEMMA RunsBegin == RunInit => RInv
<1> SUFFICES ASSUME RunInit PROVE RInv
  OBVIOUS
<1>1. archive \in Archive /\ LastRun(archive) = 0 /\ AllLasting(archive, latest)
  <2> PICK S \in SUBSET Item : S = Archived
    BY MonitorRunsAssumption DEF MonitorRunsAssumption, Batches
  <2> PICK a, b, L : a = EmptyArchive /\ b = archive /\ L = {}
    OBVIOUS
  <2>1. b = UpdateArchive(a, [run |-> 0, items |-> S]) /\ latest = S
    BY DEF RunInit
  <2>2. a \in Archive /\ 0 \in Nat /\ AllLasting(a, L)
    BY NoChildTyped DEF AllLasting
  <2>3. /\ b \in Archive /\ LastRun(b) = 0
        /\ AllLasting(b, S \cup {l \in L : ~\E i \in S : SameStory(l, i)})
    BY <2>1, <2>2, UpdateKeeps
  <2>4. S \cup {l \in L : ~\E i \in S : SameStory(l, i)} = S
    OBVIOUS
  <2> QED
    BY <2>1, <2>3, <2>4
<1>2. /\ rows = <<>> /\ DOMAIN rows = {} /\ Len(rows) = 0
      /\ \A t \in Triggers : trigger[t].pc = "idle"
      /\ \A r \in RunId : child[r].phase = "none"
  BY NoChildTyped DEF RunInit, Idle
<1>3. RunTypeOK
  <2>1. MaxRows \in Nat
    BY MonitorRunsAssumption DEF MonitorRunsAssumption
  <2>2. feed \in Feed
    BY DEF RunInit, Feed
  <2>3. trigger \in [Triggers -> Thread] /\ child \in [RunId -> Child]
    BY NoChildTyped DEF RunInit, Idle, Thread, Nobody
  <2>4. latest \in SUBSET Item
    BY MonitorRunsAssumption DEF RunInit, MonitorRunsAssumption, Batches
  <2>5. rows \in Seq(RunRow) /\ Len(rows) <= MaxRows
    BY <1>2, <2>1
  <2> QED
    BY <1>1, <2>2, <2>3, <2>4, <2>5 DEF RunInit, RunTypeOK
<1>4. FilesKept
  BY <1>1, <1>2 DEF FilesKept, Paired, RunInit
<1>5. ThreadsChecked /\ RowsOrdered /\ TriggersSerialized /\ ChildrenMatch /\ ConfigAhead
  BY <1>2 DEF ThreadsChecked, RowsOrdered, TriggersSerialized, ChildrenMatch, ConfigAhead, Alive
<1> QED
  BY <1>3, <1>4, <1>5 DEF RInv

(* Every step of the runs, and of who asks for one, preserves it.          *)
LEMMA RunsGoOn ==
  ASSUME RInv, ConfigsRead, RunStep
  PROVE  RInv'
<1>1. /\ RunTypeOK /\ ThreadsChecked /\ RowsOrdered /\ TriggersSerialized /\ ChildrenMatch
      /\ ConfigAhead /\ (Overlapped \/ FilesKept)
  BY DEF RInv
<1>2. RunTypeOK' /\ ThreadsChecked' /\ ChildrenMatch'
  BY <1>1, TypesLast, ThreadsCheckedLast, ChildrenMatchLast
<1>3. RowsOrdered' /\ TriggersSerialized' /\ ConfigAhead'
  BY <1>1, RowsOrderedLast, SerializedLast, ConfigAheadLast
<1>4. Overlapped' \/ FilesKept'
  BY <1>1, FilesLast
<1> QED
  BY <1>2, <1>3, <1>4 DEF RInv

(* It says that runs are apart, and that they lose no important story and  *)
(* collect as they were configured.                                        *)
LEMMA RunsOrderly == RInv => RunsApart /\ RunsKeep
<1> SUFFICES ASSUME RInv PROVE RunsApart /\ RunsKeep
  OBVIOUS
<1>1. TriggersSerialized /\ ConfigAhead /\ (Overlapped \/ FilesKept)
  BY DEF RInv
<1>2. CASE \E r \in RunId : child[r].phase = "archived" /\ FilesKept
  <2>1. PICK r \in RunId : child[r].phase = "archived" /\ FilesKept
    BY <1>2
  <2>2. LastRun(archive) = r /\ AllHeld(archive, latest)
    BY <2>1 DEF FilesKept
  <2> QED
    BY <1>1, <2>1, <2>2, <1>1 DEF RunsApart, PairTogether, RunsKeep, ImportantKept, AllHeld,
       RunReadsItsConfig, ConfigAhead, RacedAt
<1>3. CASE FilesKept /\ \A r \in RunId : child[r].phase # "archived"
  <2>1. Paired(archive, feed) /\ AllLasting(archive, latest)
    BY <1>3 DEF FilesKept
  <2>2. \A l \in latest : l.tier <= PersistTier => Holds(archive, l)
    BY <2>1, LastingHeld DEF AllLasting
  <2>3. PairTogether
    BY <2>1 DEF Paired, PairTogether
  <2> QED
    BY <1>1, <2>2, <2>3 DEF RunsApart, RunsKeep, ImportantKept, RunReadsItsConfig, ConfigAhead, RacedAt
<1>4. CASE Overlapped
  BY <1>1, <1>4 DEF RunsApart, PairTogether, RunsKeep, ImportantKept, RunReadsItsConfig,
     ConfigAhead, RacedAt
<1> QED
  BY <1>1, <1>2, <1>3, <1>4

(* A thread answers whoever asked it: its sender stays until it is idle.   *)
LEMMA ThreadSenders ==
  ASSUME RunTypeOK, ConfigsRead, RunNext, NEW u \in Triggers
  PROVE  trigger'[u].sender \in {trigger[u].sender, Nobody}
<1>1. /\ trigger \in [Triggers -> Thread] /\ trigger[u] \in Thread /\ Idle.sender = Nobody
      /\ rows \in Seq(RunRow) /\ Len(rows) \in Nat
  BY DEF RunTypeOK, Idle
<1>2. ASSUME NEW t \in Triggers, Answer(t) PROVE trigger'[u].sender \in {trigger[u].sender, Nobody}
  <2>1. CASE u # t
    BY <1>1, <1>2, <2>1 DEF Answer
  <2>2. CASE u = t /\ trigger[t].sender = Nobody
    BY <1>1, <1>2, <2>2 DEF Answer
  <2>3. CASE u = t /\ trigger[t].sender # Nobody
    <3>1. trigger'[u] = Answered(trigger[u])
      BY <1>1, <1>2, <2>3 DEF Answer, Answered
    <3> QED
      BY <1>1, <3>1, ThreadFields
  <2> QED
    BY <2>1, <2>2, <2>3
<1>3. ASSUME NEW t \in Triggers, Check(t) PROVE trigger'[u].sender = trigger[u].sender
  <2>1. CASE u # t
    BY <1>1, <1>3, <2>1 DEF Check
  <2>2. CASE u = t
    <3> PICK n, v : n = Len(rows) /\ v = LatestConfig("source_registry").version
      OBVIOUS
    <3>1. trigger'[u] = CheckDone(trigger[u], n, v)
      BY <1>1, <1>3, <2>2 DEF Check, CheckDone
    <3> QED
      BY <1>1, <3>1, ThreadFields
  <2> QED
    BY <2>1, <2>2
<1>4. ASSUME NEW t \in Triggers, InsertRun(t) PROVE trigger'[u].sender = trigger[u].sender
  <2>1. CASE u # t
    BY <1>1, <1>4, <2>1 DEF InsertRun
  <2>2. CASE u = t
    <3> PICK n : n = Len(rows) + 1
      OBVIOUS
    <3>1. trigger'[u] = Waiting(trigger[u], n)
      BY <1>1, <1>4, <2>2 DEF InsertRun, Waiting
    <3> QED
      BY <1>1, <3>1, ThreadFields
  <2> QED
    BY <2>1, <2>2
<1>5. ASSUME NEW t \in Triggers, TriggerStep(t) PROVE Check(t) \/ InsertRun(t) \/ Answer(t)
  BY <1>5 DEF TriggerStep, RateLimit, Finish, Timeout, Dispatch, Outcome
<1>6. ASSUME NEW r \in RunId, ChildStep(r) PROVE UNCHANGED trigger
  BY <1>6 DEF ChildStep, Collect, LoadArchive, ReplaceArchive, ReplaceFeed, RestorePair
<1>7. CASE CrashApi
  BY <1>1, <1>7 DEF CrashApi
<1> QED
  BY <1>2, <1>3, <1>4, <1>5, <1>6, <1>7 DEF RunNext, Tick
-----------------------------------------------------------------------------
(* The configurations.                                                     *)

PutShape(x) ==
  x = [phase |-> x.phase, name |-> x.name, document |-> x.document,
       sender |-> x.sender, version |-> x.version]

RowShape(x) == x = [version |-> x.version, document |-> x.document]

(* The rows are rows, and a request that is under way names a              *)
(* configuration; of what is answered, nothing is lost.                    *)
ConfigInv ==
  /\ ConfigsRead
  /\ configs = [n \in Names |-> configs[n]]
  /\ \A n \in Names : \A row \in configs[n] : RowShape(row)
  /\ put = [p \in Puts |-> put[p]]
  /\ \A p \in Puts :
       /\ PutShape(put[p]) /\ put[p].sender \in Nat /\ put[p].version \in Nat
       /\ put[p].phase # "unused" => put[p].name \in Names
  /\ AnsweredSavesKept

(* What a request becomes.                                                 *)
PutSent(n, d, s) == [phase |-> "sent", name |-> n, document |-> d, sender |-> s, version |-> 0]
PutRead(x, v) == [x EXCEPT !.phase = "read", !.version = v]
PutOver(x, phase) == [x EXCEPT !.phase = phase]
PutHeard(x) == [x EXCEPT !.sender = Nobody]

LEMMA PutFields ==
  ASSUME NEW x, PutShape(x), NEW y
  PROVE  /\ \A v : y = PutRead(x, v) =>
              /\ PutShape(y) /\ y.phase = "read" /\ y.version = v
              /\ y.name = x.name /\ y.document = x.document /\ y.sender = x.sender
         /\ \A phase : y = PutOver(x, phase) =>
              /\ PutShape(y) /\ y.phase = phase /\ y.version = x.version
              /\ y.name = x.name /\ y.document = x.document /\ y.sender = x.sender
         /\ y = PutHeard(x) =>
              /\ PutShape(y) /\ y.phase = x.phase /\ y.version = x.version
              /\ y.name = x.name /\ y.document = x.document /\ y.sender = Nobody
<1> PICK a, b, c, d, e :
      x = [phase |-> a, name |-> b, document |-> c, sender |-> d, version |-> e]
  BY DEF PutShape
<1>1. ASSUME NEW v, y = PutRead(x, v)
      PROVE  /\ PutShape(y) /\ y.phase = "read" /\ y.version = v
             /\ y.name = x.name /\ y.document = x.document /\ y.sender = x.sender
  BY <1>1 DEF PutRead, PutShape
<1>2. ASSUME NEW phase, y = PutOver(x, phase)
      PROVE  /\ PutShape(y) /\ y.phase = phase /\ y.version = x.version
             /\ y.name = x.name /\ y.document = x.document /\ y.sender = x.sender
  BY <1>2 DEF PutOver, PutShape
<1>3. ASSUME y = PutHeard(x)
      PROVE  /\ PutShape(y) /\ y.phase = x.phase /\ y.version = x.version
             /\ y.name = x.name /\ y.document = x.document /\ y.sender = Nobody
  BY <1>3 DEF PutHeard, PutShape
<1> QED
  BY <1>1, <1>2, <1>3
(* The steps of the requests; the answer to one leaves it without sender.  *)
PutAnswered(p) == put' = [put EXCEPT ![p].sender = Nobody] /\ UNCHANGED configs

ConfigStep ==
  \/ UNCHANGED configVars
  \/ \E p \in Puts : ReadLatest(p) \/ Insert(p) \/ PutAnswered(p)
  \/ \E p \in Puts, n \in Names, s \in Nat : \E d : SendPut(p, n, d, s) /\ UNCHANGED configs

(* Requests keep what they ask for, and who waits for it.                  *)
SameRequest(q) ==
  /\ put'[q].name = put[q].name /\ put'[q].document = put[q].document
  /\ put'[q].sender = put[q].sender

(* What one step does to one request: the others stay as they are.         *)
LEMMA PutSteps ==
  ASSUME ConfigInv, NEW p \in Puts
  PROVE  /\ ReadLatest(p) \/ Insert(p) \/ PutAnswered(p)
              \/ (\E n \in Names, s \in Nat : \E d : SendPut(p, n, d, s)) =>
              /\ put' = [q \in Puts |-> put'[q]] /\ \A q \in Puts \ {p} : put'[q] = put[q]
         /\ ReadLatest(p) =>
              /\ PutShape(put'[p]) /\ put[p].phase = "sent" /\ put'[p].phase = "read"
              /\ SameRequest(p) /\ put'[p].version \in Nat /\ UNCHANGED configs
         /\ Insert(p) =>
              /\ PutShape(put'[p]) /\ put[p].phase = "read" /\ SameRequest(p)
              /\ put'[p].version = put[p].version
              /\ \/ put'[p].phase = "failed" /\ UNCHANGED configs
                 \/ /\ put'[p].phase = "stored"
                    /\ \A r \in configs[put[p].name] : r.version # put[p].version
                    /\ configs' = [configs EXCEPT ![put[p].name] = @ \cup {PutRow(p)}]
         /\ PutAnswered(p) =>
              /\ PutShape(put'[p]) /\ put'[p].phase = put[p].phase
              /\ put'[p].version = put[p].version /\ put'[p].name = put[p].name
              /\ put'[p].document = put[p].document /\ put'[p].sender = Nobody
         /\ \A n, d, s : SendPut(p, n, d, s) =>
              /\ PutShape(put'[p]) /\ put[p].phase = "unused" /\ put'[p].phase = "sent"
              /\ put'[p].version = 0 /\ put'[p].name = n
              /\ put'[p].document = d /\ put'[p].sender = s
<1>1. put = [q \in Puts |-> put[q]] /\ PutShape(put[p]) /\ put[p].version \in Nat
  BY DEF ConfigInv
<1>2. ASSUME ReadLatest(p) \/ Insert(p) \/ PutAnswered(p)
               \/ (\E n \in Names, s \in Nat : \E d : SendPut(p, n, d, s))
      PROVE  put' = [q \in Puts |-> put'[q]] /\ \A q \in Puts \ {p} : put'[q] = put[q]
  BY <1>1, <1>2 DEF ReadLatest, Insert, PutAnswered, SendPut
<1>3. ASSUME ReadLatest(p)
      PROVE  /\ PutShape(put'[p]) /\ put[p].phase = "sent" /\ put'[p].phase = "read"
             /\ SameRequest(p) /\ put'[p].version \in Nat /\ UNCHANGED configs
  <2>1. LatestConfig(put[p].name).version \in Nat
    BY <1>3, LatestRow DEF ConfigInv, ReadLatest
  <2> PICK v \in Nat : v = LatestConfig(put[p].name).version + 1
    BY <2>1
  <2>2. put'[p] = PutRead(put[p], v)
    BY <1>1, <1>3 DEF ReadLatest, PutRead
  <2>3. /\ PutShape(put'[p]) /\ put'[p].phase = "read" /\ put'[p].version = v /\ SameRequest(p)
    BY <1>1, <2>2, PutFields DEF SameRequest
  <2> QED
    BY <1>3, <2>3 DEF ReadLatest
<1>4. ASSUME Insert(p)
      PROVE  /\ PutShape(put'[p]) /\ put[p].phase = "read" /\ SameRequest(p)
             /\ put'[p].version = put[p].version
             /\ \/ put'[p].phase = "failed" /\ UNCHANGED configs
                \/ /\ put'[p].phase = "stored"
                   /\ \A r \in configs[put[p].name] : r.version # put[p].version
                   /\ configs' = [configs EXCEPT ![put[p].name] = @ \cup {PutRow(p)}]
  <2>1. CASE \E r \in configs[put[p].name] : r.version = put[p].version
    <3>1. put'[p] = PutOver(put[p], "failed") /\ UNCHANGED configs
      BY <1>1, <1>4, <2>1 DEF Insert, PutOver
    <3> QED
      BY <1>1, <1>4, <3>1, PutFields DEF Insert, SameRequest
  <2>2. CASE ~\E r \in configs[put[p].name] : r.version = put[p].version
    <3>1. /\ put'[p] = PutOver(put[p], "stored")
          /\ configs' = [configs EXCEPT ![put[p].name] = @ \cup {PutRow(p)}]
      BY <1>1, <1>4, <2>2 DEF Insert, PutOver
    <3>2. /\ PutShape(put'[p]) /\ put'[p].phase = "stored" /\ SameRequest(p)
          /\ put'[p].version = put[p].version
      BY <1>1, <3>1, PutFields DEF SameRequest
    <3> QED
      BY <1>4, <2>2, <3>1, <3>2 DEF Insert
  <2> QED
    BY <2>1, <2>2
<1>5. ASSUME PutAnswered(p)
      PROVE  /\ PutShape(put'[p]) /\ put'[p].phase = put[p].phase
             /\ put'[p].version = put[p].version /\ put'[p].name = put[p].name
             /\ put'[p].document = put[p].document /\ put'[p].sender = Nobody
  <2>1. put'[p] = PutHeard(put[p])
    BY <1>1, <1>5 DEF PutAnswered, PutHeard
  <2> QED
    BY <1>1, <2>1, PutFields
<1>6. ASSUME NEW n, NEW d, NEW s, SendPut(p, n, d, s)
      PROVE  /\ PutShape(put'[p]) /\ put[p].phase = "unused" /\ put'[p].phase = "sent"
             /\ put'[p].version = 0 /\ put'[p].name = n
             /\ put'[p].document = d /\ put'[p].sender = s
  <2>1. put'[p] = PutSent(n, d, s)
    BY <1>1, <1>6 DEF SendPut, PutSent
  <2> QED
    BY <1>6, <2>1 DEF SendPut, PutSent, PutShape
<1> QED
  BY <1>2, <1>3, <1>4, <1>5, <1>6
(* No version is ever taken back, and rows stay rows.                      *)
LEMMA ConfigsGrow ==
  ASSUME ConfigInv, ConfigStep
  PROVE  /\ configs' = [n \in Names |-> configs'[n]]
         /\ \A n \in Names : configs[n] \subseteq configs'[n]
         /\ \A n \in Names : \A row \in configs'[n] : RowShape(row)
         /\ ConfigsRead'
<1>1. /\ configs = [n \in Names |-> configs[n]] /\ ConfigsRead
      /\ \A n \in Names : \A row \in configs[n] : RowShape(row)
  BY DEF ConfigInv
<1>2. CASE UNCHANGED configs
  BY <1>1, <1>2 DEF ConfigsRead
<1>3. ASSUME NEW p \in Puts, Insert(p), ~ UNCHANGED configs
      PROVE  /\ configs' = [n \in Names |-> configs'[n]]
             /\ \A n \in Names : configs[n] \subseteq configs'[n]
             /\ \A n \in Names : \A row \in configs'[n] : RowShape(row)
             /\ ConfigsRead'
  <2> PICK name, new : name = put[p].name /\ new = PutRow(p)
    OBVIOUS
  <2>1. configs' = [configs EXCEPT ![name] = @ \cup {new}]
    BY <1>3, PutSteps
  <2>2. name \in Names
    BY <1>3, PutSteps DEF ConfigInv
  <2>3. RowShape(new) /\ new.version \in Nat
    BY <1>3 DEF PutRow, RowShape, ConfigInv
  <2>4. /\ configs' = [n \in Names |-> configs'[n]]
        /\ configs'[name] = configs[name] \cup {new}
        /\ \A n \in Names \ {name} : configs'[n] = configs[n]
    BY <1>1, <2>1, <2>2
  <2>5. \A n \in Names : \A row \in configs'[n] : RowShape(row)
    BY <1>1, <2>3, <2>4
  <2>6. ASSUME NEW n \in Names
        PROVE  /\ \A row \in configs'[n] : row.version \in Nat
               /\ \E row \in configs'[n] : \A other \in configs'[n] : other.version <= row.version
    <3>1. /\ \A row \in configs[n] : row.version \in Nat
          /\ \E row \in configs[n] : \A other \in configs[n] : other.version <= row.version
      BY <1>1 DEF ConfigsRead
    <3>2. CASE n # name
      BY <2>4, <3>1, <3>2
    <3>3. CASE n = name
      <4> PICK row \in configs[n] : \A other \in configs[n] : other.version <= row.version
        BY <3>1
      <4>1. row.version \in Nat /\ \A other \in configs[n] : other.version \in Nat
        BY <3>1
      <4>2. CASE new.version <= row.version
        BY <2>3, <2>4, <3>1, <3>3, <4>2
      <4>3. CASE ~ new.version <= row.version
        <5>1. \A other \in configs[n] : other.version <= new.version
          BY <2>3, <4>1, <4>3
        <5> QED
          BY <2>3, <2>4, <3>1, <3>3, <5>1
      <4> QED
        BY <4>2, <4>3
    <3> QED
      BY <3>2, <3>3
  <2>7. ConfigsRead'
    BY <2>6 DEF ConfigsRead
  <2> QED
    BY <2>4, <2>5, <2>7
<1> QED
  BY <1>2, <1>3, PutSteps DEF ConfigStep, configVars, PutAnswered

(* Every request that is answered with 200 keeps its version.              *)
LEMMA SavesKept ==
  ASSUME ConfigInv, ConfigStep, NEW p \in Puts, NEW q \in Puts, put'[p].phase = "stored"
  PROVE  /\ PutRow(p)' \in configs'[put'[p].name]
         /\ q # p /\ put'[q].phase = "stored" /\ put'[q].name = put'[p].name =>
              put'[q].version # put'[p].version
<1> DEFINE Told(r, s) ==
      /\ PutRow(r) \in configs[put[r].name]
      /\ s # r /\ put[s].phase = "stored" /\ put[s].name = put[r].name =>
           put[s].version # put[r].version
<1>1. \A r, s \in Puts : put[r].phase = "stored" => Told(r, s)
  BY DEF ConfigInv, AnsweredSavesKept
<1>2. \A r \in Puts : put[r].phase # "unused" => put[r].name \in Names
  BY DEF ConfigInv
<1>3. \A n \in Names : configs[n] \subseteq configs'[n]
  BY ConfigsGrow
<1> DEFINE Stays(r) == /\ put'[r].phase = "stored" <=> put[r].phase = "stored"
                       /\ put'[r].phase = "stored" =>
                            /\ put'[r].name = put[r].name /\ put'[r].version = put[r].version
                            /\ put'[r].document = put[r].document
<1>4. CASE Stays(p) /\ Stays(q)
  <2>1. PutRow(p)' = PutRow(p) /\ put'[p].name = put[p].name /\ put[p].name \in Names
    BY <1>2, <1>4 DEF PutRow
  <2> QED
    BY <1>1, <1>3, <1>4, <2>1
<1>5. ASSUME NEW r \in Puts, Insert(r), put'[r].phase = "stored"
      PROVE  /\ PutRow(p)' \in configs'[put'[p].name]
             /\ q # p /\ put'[q].phase = "stored" /\ put'[q].name = put'[p].name =>
                  put'[q].version # put'[p].version
  <2>1. /\ put[r].phase = "read" /\ put'[r].name = put[r].name
        /\ put'[r].version = put[r].version /\ put'[r].document = put[r].document
        /\ \A row \in configs[put[r].name] : row.version # put[r].version
        /\ configs' = [configs EXCEPT ![put[r].name] = @ \cup {PutRow(r)}]
        /\ \A s \in Puts \ {r} : put'[s] = put[s]
    BY <1>5, PutSteps DEF SameRequest
  <2>2. PutRow(r)' \in configs'[put'[r].name]
    <3>1. PutRow(r)' = PutRow(r)
      BY <2>1 DEF PutRow
    <3>2. put[r].name \in DOMAIN configs
      BY <1>2, <2>1 DEF ConfigInv
    <3>3. configs'[put[r].name] = configs[put[r].name] \cup {PutRow(r)}
      BY <2>1, <3>2
    <3> QED
      BY <2>1, <3>1, <3>3
  <2>3. ASSUME NEW s \in Puts \ {r}, put[s].phase = "stored", put[s].name = put[r].name
        PROVE  put[s].version # put[r].version
    <3>1. PutRow(s) \in configs[put[r].name]
      BY <1>1, <2>3
    <3>2. PutRow(s).version # put[r].version
      BY <2>1, <3>1
    <3> QED
      BY <3>2 DEF PutRow
  <2>4. CASE p = r
    BY <2>1, <2>2, <2>3, <2>4
  <2>5. CASE p # r
    <3>1. put'[p] = put[p] /\ PutRow(p)' = PutRow(p)
      BY <2>1, <2>5 DEF PutRow
    <3>2. PutRow(p) \in configs'[put[p].name]
      BY <1>1, <1>2, <1>3, <3>1
    <3>3. q # p /\ q # r /\ put'[q].phase = "stored" /\ put'[q].name = put'[p].name =>
            put'[q].version # put'[p].version
      BY <1>1, <2>1, <3>1
    <3>4. q = r /\ put'[q].name = put'[p].name => put'[q].version # put'[p].version
      BY <2>1, <2>3, <2>5, <3>1
    <3> QED
      BY <3>1, <3>2, <3>3, <3>4
  <2> QED
    BY <2>4, <2>5
<1>6. ASSUME NEW r \in Puts,
             \/ ReadLatest(r) \/ (Insert(r) /\ put'[r].phase # "stored") \/ PutAnswered(r)
             \/ \E n \in Names, s \in Nat : \E d : SendPut(r, n, d, s)
      PROVE  Stays(p) /\ Stays(q)
  <2>1. Stays(r)
    BY <1>6, PutSteps
  <2>2. \A s \in Puts \ {r} : Stays(s)
    BY <1>6, PutSteps
  <2> QED
    BY <2>1, <2>2
<1>7. CASE UNCHANGED configVars
  BY <1>4, <1>7 DEF configVars
<1> QED
  BY <1>4, <1>5, <1>6, <1>7 DEF ConfigStep

LEMMA ConfigGoesOn ==
  ASSUME ConfigInv, ConfigStep
  PROVE  ConfigInv'
<1>1. put = [p \in Puts |-> put[p]]
  BY DEF ConfigInv
<1>2. put' = [p \in Puts |-> put'[p]]
  BY <1>1, PutSteps DEF ConfigStep, configVars
<1>3. ASSUME NEW p \in Puts
      PROVE  /\ PutShape(put'[p]) /\ put'[p].sender \in Nat /\ put'[p].version \in Nat
             /\ put'[p].phase # "unused" => put'[p].name \in Names
  <2>1. /\ PutShape(put[p]) /\ put[p].sender \in Nat /\ put[p].version \in Nat
        /\ put[p].phase # "unused" => put[p].name \in Names
    BY DEF ConfigInv
  <2>2. CASE put'[p] = put[p]
    BY <2>1, <2>2
  <2>3. CASE ReadLatest(p) \/ Insert(p)
    BY <2>1, <2>3, PutSteps DEF SameRequest
  <2>4. CASE PutAnswered(p)
    BY <2>1, <2>4, PutSteps DEF Nobody
  <2>5. ASSUME NEW n \in Names, NEW s \in Nat, NEW d, SendPut(p, n, d, s)
        PROVE  /\ PutShape(put'[p]) /\ put'[p].sender \in Nat /\ put'[p].version \in Nat
               /\ put'[p].phase # "unused" => put'[p].name \in Names
    BY <2>5, PutSteps
  <2>6. \/ put'[p] = put[p] \/ ReadLatest(p) \/ Insert(p) \/ PutAnswered(p)
        \/ \E n \in Names, s \in Nat : \E d : SendPut(p, n, d, s)
    BY PutSteps DEF ConfigStep, configVars
  <2> QED
    BY <2>2, <2>3, <2>4, <2>5, <2>6
<1>4. AnsweredSavesKept'
  BY SavesKept DEF AnsweredSavesKept
<1> QED
  BY <1>2, <1>3, <1>4, ConfigsGrow DEF ConfigInv
-----------------------------------------------------------------------------
(* The panel.                                                              *)

PanelShape(x) ==
  x = [name |-> x.name, number |-> x.number, document |-> x.document, saved |-> x.saved,
       busy |-> x.busy, removing |-> x.removing, stray |-> x.stray]

(* The panel that another one becomes.                                     *)
PanelOf(n, k, d) == [NoPanel EXCEPT !.name = n, !.number = k, !.document = d, !.stray = TRUE]
PanelLoaded(x, d, v) ==
  [x EXCEPT !.document = d, !.saved = v, !.stray = x.busy = "save"]
PanelChanged(x, d) == [x EXCEPT !.document = d, !.removing = None, !.stray = TRUE]
PanelAsking(x, s) == [x EXCEPT !.removing = s]
PanelSaving(x) == [x EXCEPT !.busy = "save", !.stray = FALSE]
PanelSaved(x, v) == [x EXCEPT !.saved = v, !.busy = "no"]
PanelRefused(x) == [x EXCEPT !.busy = "no", !.stray = TRUE]
PanelBusy(x, b) == [x EXCEPT !.busy = b]

(* Their fields.                                                           *)
LEMMA MountedFields ==
  ASSUME NEW y, NEW n, NEW k, NEW d, y = PanelOf(n, k, d)
  PROVE  /\ PanelShape(y) /\ y.name = n /\ y.number = k /\ y.document = d
         /\ y.saved = 0 /\ y.busy = "no" /\ y.stray
BY DEF PanelOf, NoPanel, PanelShape

LEMMA UnmountedFields ==
  ASSUME NEW y, y = NoPanel
  PROVE  /\ PanelShape(y) /\ y.name = None /\ y.number = 0
         /\ y.saved = 0 /\ y.busy = "no"
BY DEF NoPanel, PanelShape

LEMMA LoadedFields ==
  ASSUME NEW x, PanelShape(x), NEW y, NEW d, NEW v, y = PanelLoaded(x, d, v)
  PROVE  /\ PanelShape(y) /\ y.name = x.name /\ y.number = x.number
         /\ y.busy = x.busy /\ y.document = d /\ y.saved = v /\ (x.busy = "save" => y.stray)
BY DEF PanelLoaded, PanelShape

LEMMA ChangedFields ==
  ASSUME NEW x, PanelShape(x), NEW y, NEW d, y = PanelChanged(x, d)
  PROVE  /\ PanelShape(y) /\ y.name = x.name /\ y.number = x.number
         /\ y.busy = x.busy /\ y.document = d /\ y.saved = x.saved /\ y.stray
BY DEF PanelChanged, PanelShape

LEMMA AskingFields ==
  ASSUME NEW x, PanelShape(x), NEW y, NEW s, y = PanelAsking(x, s)
  PROVE  /\ PanelShape(y) /\ y.name = x.name /\ y.number = x.number
         /\ y.busy = x.busy /\ y.document = x.document /\ y.saved = x.saved /\ y.stray = x.stray
BY DEF PanelAsking, PanelShape

LEMMA SavingFields ==
  ASSUME NEW x, PanelShape(x), NEW y, y = PanelSaving(x)
  PROVE  /\ PanelShape(y) /\ y.name = x.name /\ y.number = x.number
         /\ y.busy = "save" /\ y.document = x.document /\ y.saved = x.saved
BY DEF PanelSaving, PanelShape

LEMMA SavedFields ==
  ASSUME NEW x, PanelShape(x), NEW y, NEW v, y = PanelSaved(x, v)
  PROVE  /\ PanelShape(y) /\ y.name = x.name /\ y.number = x.number
         /\ y.busy = "no" /\ y.document = x.document /\ y.saved = v /\ y.stray = x.stray
BY DEF PanelSaved, PanelShape

LEMMA RefusedFields ==
  ASSUME NEW x, PanelShape(x), NEW y, y = PanelRefused(x)
  PROVE  /\ PanelShape(y) /\ y.name = x.name /\ y.number = x.number
         /\ y.busy = "no" /\ y.document = x.document /\ y.saved = x.saved /\ y.stray
BY DEF PanelRefused, PanelShape

LEMMA BusyFields ==
  ASSUME NEW x, PanelShape(x), NEW y, NEW b, y = PanelBusy(x, b)
  PROVE  /\ PanelShape(y) /\ y.name = x.name /\ y.number = x.number
         /\ y.busy = b /\ y.document = x.document /\ y.saved = x.saved /\ y.stray = x.stray
BY DEF PanelBusy, PanelShape

Load ==
  [phase : {"sent", "read", "settled"}, name : Names \cup {None}, version : Nat]

(* A load that is under way is the one of the panel with its number, and   *)
(* what it has read is a version.                                          *)
LoadsAwaited ==
  \A k \in DOMAIN load : load[k].phase # "settled" =>
    /\ load[k].name \in Names
    /\ panel.number = k => panel.name = load[k].name
    /\ load[k].phase = "read" => \E row \in configs[load[k].name] : row.version = load[k].version

(* The panel waits for one save at most, of what it shows unless the user  *)
(* has gone on; and is busy until it hears of it.                          *)
SavesAwaited ==
  \A p \in Puts :
    /\ put[p].sender <= Opened
    /\ put[p].sender # Nobody /\ put[p].sender = panel.number =>
         /\ panel.busy = "save" /\ put[p].name = panel.name
         /\ ~ panel.stray => put[p].document = panel.document
         /\ \A q \in Puts : put[q].sender = put[p].sender => q = p

(* Or for one run.                                                         *)
RunsAwaited ==
  \A t \in Triggers :
    /\ trigger[t].sender <= Opened
    /\ trigger[t].sender # Nobody /\ trigger[t].sender = panel.number =>
         /\ panel.busy = "run"
         /\ \A u \in Triggers : trigger[u].sender = trigger[t].sender => u = t

PanelInv ==
  /\ PanelShape(panel) /\ panel.name \in Names \cup {None} /\ panel.number \in 0 .. Opened
  /\ load \in Seq(Load)
  /\ LoadsAwaited
  /\ SavesAwaited
  /\ RunsAwaited
  /\ panel.number # 0 => panel.name \in Names
  /\ panel.saved > 0 => panel.number # 0
  /\ LabelTruthful

SInv == RInv /\ ConfigInv /\ PanelInv
-----------------------------------------------------------------------------
(* The steps, as the panel and those it waits for show them.               *)

PanelKept == PanelShape(panel') /\ panel'.name = panel.name /\ panel'.number = panel.number

Mounted(n) ==
  /\ PanelShape(panel') /\ panel'.name = n /\ panel'.number = Opened + 1
  /\ panel'.saved = 0 /\ panel'.busy = "no"
  /\ \E l \in Load : load' = Append(load, l) /\ (l.phase # "settled" => l.phase = "sent" /\ l.name = n)
  /\ UNCHANGED <<configs, put, trigger>>

Unmounted ==
  /\ PanelShape(panel') /\ panel'.name = None /\ panel'.number = 0
  /\ panel'.saved = 0 /\ panel'.busy = "no"
  /\ load' = load \/ load' = [k \in DOMAIN load |-> Settled]
  /\ UNCHANGED <<configs, put, trigger>>

LoadStep(k) ==
  /\ load[k].phase # "settled"
  /\ \E l \in Load :
       /\ load' = [load EXCEPT ![k] = l]
       /\ l.phase # "settled" => l.name = load[k].name
       /\ l.phase = "read" => \E row \in configs[l.name] : row.version = l.version
  /\ PanelKept /\ panel'.busy = panel.busy
  /\ \/ panel' = panel
     \/ /\ panel.number = k
        /\ [version |-> panel'.saved, document |-> panel'.document] \in configs[load[k].name]
        /\ panel.busy = "save" => panel'.stray
  /\ UNCHANGED <<configs, put, trigger>>

Edited ==
  /\ PanelKept /\ panel'.busy = panel.busy /\ panel'.saved = panel.saved
  /\ panel'.stray \/ (panel'.document = panel.document /\ panel'.stray = panel.stray)
  /\ UNCHANGED <<configs, put, trigger, load>>

Saving(p) ==
  /\ PanelKept /\ panel.busy = "no" /\ panel'.busy = "save"
  /\ panel'.saved = panel.saved /\ panel'.document = panel.document
  /\ panel.name \in Names /\ SendPut(p, panel.name, panel.document, panel.number)
  /\ UNCHANGED <<configs, trigger, load>>

SaveHeard(p) ==
  /\ put[p].sender # Nobody /\ PutAnswered(p)
  /\ \/ panel' = panel /\ panel.number # put[p].sender
     \/ /\ PanelKept /\ panel.number = put[p].sender
        /\ panel'.busy = "no" /\ panel'.document = panel.document
        /\ \/ panel'.stray
           \/ /\ put[p].phase = "stored" /\ panel'.saved = put[p].version
              /\ panel'.stray = panel.stray
  /\ UNCHANGED <<trigger, load>>

Elsewhere ==
  /\ ConfigStep /\ \A q \in Puts : SameRequest(q) \/ put'[q].sender = Nobody
  /\ \A t \in Triggers : trigger'[t].sender \in {trigger[t].sender, Nobody}
  /\ UNCHANGED <<panel, load>>

PanelTurned(from, to) ==
  /\ PanelKept /\ panel.busy = from /\ panel'.busy = to /\ panel'.saved = panel.saved
  /\ panel'.document = panel.document /\ panel'.stray = panel.stray
  /\ UNCHANGED <<configs, put, load>>

RunAsked(t) ==
  /\ PanelTurned("no", "run") /\ trigger'[t].sender = panel.number
  /\ \A u \in Triggers \ {t} : trigger'[u] = trigger[u]

RunHeard(t) ==
  /\ trigger'[t].sender = Nobody /\ \A u \in Triggers \ {t} : trigger'[u] = trigger[u]
  /\ \/ panel' = panel /\ UNCHANGED <<configs, put, load>>
     \/ panel.number = trigger[t].sender /\ PanelTurned(panel.busy, "no")

RunGivenUp ==
  /\ PanelTurned("run", "no") /\ UNCHANGED trigger
  /\ \A t \in Triggers : trigger[t].sender # panel.number

(* A load: what is in a sequence of them.                                  *)
LEMMA LoadTyped ==
  ASSUME PanelInv
  PROVE  /\ Opened \in Nat /\ DOMAIN load = 1 .. Opened
         /\ \A k \in DOMAIN load : load[k] \in Load
         /\ Settled \in Load /\ Settled.phase = "settled"
<1>1. load \in Seq(Load)
  BY DEF PanelInv
<1>2. Settled \in Load /\ Settled.phase = "settled"
  BY DEF Settled, Load
<1> QED
  BY <1>1, <1>2 DEF Opened

(* The steps of the loads.                                                 *)
LEMMA LoadSteps ==
  ASSUME PanelInv, ConfigInv, NEW k \in DOMAIN load
  PROVE  ReadConfig(k) \/ LoadAnswered(k) \/ LoadFailed(k) => LoadStep(k)
<1>1. load[k] \in Load /\ Settled \in Load /\ Settled.phase = "settled" /\ PanelShape(panel)
  BY LoadTyped DEF PanelInv
<1>2. load[k].phase # "settled" => load[k].name \in Names
  BY DEF PanelInv, LoadsAwaited
<1>3. ASSUME ReadConfig(k) PROVE LoadStep(k)
  <2>1. PICK v : v = LatestConfig(load[k].name).version
    OBVIOUS
  <2>2. v \in Nat /\ \E row \in configs[load[k].name] : row.version = v
    BY <1>2, <1>3, <2>1, LatestRow DEF ReadConfig, ConfigInv
  <2> PICK l : l = [load[k] EXCEPT !.phase = "read", !.version = v]
    OBVIOUS
  <2>3. load' = [load EXCEPT ![k] = l]
    BY <1>3, <2>1 DEF ReadConfig
  <2>4. l \in Load /\ l.phase = "read" /\ l.name = load[k].name /\ l.version = v
    BY <1>1, <2>2 DEF Load
  <2>5. load[k].phase # "settled" /\ UNCHANGED <<panel, configs, put, trigger>>
    BY <1>3 DEF ReadConfig, Frame
  <2>6. PanelKept /\ panel'.busy = panel.busy
    BY <1>1, <2>5 DEF PanelKept
  <2> QED
    BY <2>2, <2>3, <2>4, <2>5, <2>6 DEF LoadStep
<1>4. ASSUME LoadFailed(k) PROVE LoadStep(k)
  BY <1>1, <1>4 DEF LoadFailed, Frame, LoadStep, PanelKept
<1>5. ASSUME LoadAnswered(k), panel.number # k PROVE LoadStep(k)
  BY <1>1, <1>5 DEF LoadAnswered, Frame, LoadStep, PanelKept
<1>6. ASSUME LoadAnswered(k), panel.number = k PROVE LoadStep(k)
  <2>1. PICK row : row = LoadedRow(k)
    OBVIOUS
  <2>2. row \in configs[load[k].name] /\ row.version = load[k].version
    <3>1. \E r \in configs[load[k].name] : r.version = load[k].version
      BY <1>6 DEF LoadAnswered, PanelInv, LoadsAwaited
    <3> QED
      BY <2>1, <3>1 DEF LoadedRow
  <2>3. row = [version |-> load[k].version, document |-> row.document]
    BY <1>2, <1>6, <2>2 DEF LoadAnswered, ConfigInv, RowShape
  <2>5. /\ PanelShape(panel') /\ panel'.name = panel.name /\ panel'.number = panel.number
        /\ panel'.busy = panel.busy /\ panel'.document = row.document
        /\ panel'.saved = load[k].version /\ (panel.busy = "save" => panel'.stray)
    <3> PICK d, v : d = row.document /\ v = load[k].version
      OBVIOUS
    <3>1. panel' = PanelLoaded(panel, d, v)
      BY <1>6, <2>1 DEF LoadAnswered, PanelLoaded
    <3> QED
      BY <1>1, <3>1, LoadedFields
  <2>6. [version |-> panel'.saved, document |-> panel'.document] \in configs[load[k].name]
    BY <2>2, <2>3, <2>5
  <2>7. panel.busy = "save" => panel'.stray
    BY <2>5
  <2> QED
    BY <1>1, <1>6, <2>5, <2>6, <2>7 DEF LoadAnswered, Frame, LoadStep, PanelKept
<1> QED
  BY <1>3, <1>4, <1>5, <1>6
(* What the tab and the others do to the runs, they may do.                *)
LEMMA RunsMove ==
  ASSUME SInv, SettingsNext
  PROVE  RunStep
<1>1. panel.number \in Nat /\ Nobody \in Nat
  BY LoadTyped DEF SInv, PanelInv, Nobody
<1>2. CASE PanelNext
  <2>1. UNCHANGED runVars
    BY <1>2 DEF PanelNext, Open, Leave, ReadConfig, LoadAnswered, LoadFailed, EditWeights,
       EditSources, Change, AskRemove, CancelRemove, ConfirmRemove, SaveLocally,
       ResetWorkspace, RunFailed, Frame, runVars
  <2> QED
    BY <2>1 DEF RunStep
<1>3. CASE PutNext
  <2>1. UNCHANGED runVars
    BY <1>3 DEF PutNext, Save, SaveAnswered, SaveFailed, OtherSaves, Frame, runVars
  <2> QED
    BY <2>1 DEF RunStep
<1>4. ASSUME NEW t \in Triggers, RunNow(t) \/ OtherRuns(t) PROVE RunStep
  BY <1>1, <1>4 DEF RunNow, OtherRuns, RunStep
<1>5. ASSUME NEW t \in Triggers, RunAnswered(t) PROVE RunStep
  BY <1>5 DEF RunAnswered, Frame, AnswerHeard, RunStep
<1> QED
  BY <1>2, <1>3, <1>4, <1>5 DEF SettingsNext, TriggerNext, RunStep

(* And to the configurations.                                              *)
LEMMA ConfigsMove ==
  ASSUME SInv, SettingsNext
  PROVE  ConfigStep
<1>1. /\ panel.number \in Nat /\ Nobody \in Nat
      /\ panel.name # None => panel.name \in Names
  BY LoadTyped DEF SInv, PanelInv, Nobody
<1>2. CASE PanelNext
  <2>1. UNCHANGED configVars
    BY <1>2 DEF PanelNext, Open, Leave, ReadConfig, LoadAnswered, LoadFailed, EditWeights,
       EditSources, Change, AskRemove, CancelRemove, ConfirmRemove, SaveLocally,
       ResetWorkspace, RunFailed, Frame, configVars
  <2> QED
    BY <2>1 DEF ConfigStep
<1>3. ASSUME NEW p \in Puts, Save(p) PROVE ConfigStep
  <2>1. panel.name \in Names /\ SendPut(p, panel.name, panel.document, panel.number) /\ UNCHANGED configs
    BY <1>1, <1>3 DEF Save, MaySave, Frame
  <2> QED
    BY <1>1, <2>1 DEF ConfigStep
<1>4. ASSUME NEW p \in Puts, SaveAnswered(p) \/ SaveFailed(p) PROVE ConfigStep
  BY <1>4 DEF SaveAnswered, SaveFailed, Frame, PutAnswered, ConfigStep
<1>5. ASSUME NEW p \in Puts, NEW n \in Names, NEW d, OtherSaves(p, n, d) PROVE ConfigStep
  BY <1>1, <1>5 DEF OtherSaves, Frame, ConfigStep
<1>6. ASSUME NEW p \in Puts, ReadLatest(p) \/ Insert(p) PROVE ConfigStep
  BY <1>6 DEF ConfigStep
<1>7. CASE TriggerNext
  BY <1>7 DEF TriggerNext, RunNow, OtherRuns, RunAnswered, Frame, ConfigStep, configVars
<1> QED
  BY <1>2, <1>3, <1>4, <1>5, <1>6, <1>7 DEF SettingsNext, PutNext, ConfigStep

(* What the user and the answers do to the panel.                          *)
LEMMA PanelSteps ==
  ASSUME SInv, PanelNext
  PROVE  \/ \E n \in Names : Mounted(n)
         \/ Unmounted
         \/ \E k \in DOMAIN load : LoadStep(k)
         \/ Edited
         \/ RunGivenUp
<1>1. PanelShape(panel) /\ PanelInv /\ ConfigInv
  BY DEF SInv, PanelInv
<1>2. ASSUME NEW n \in Names, Open(n) PROVE Mounted(n)
  <2> PICK number, d : number = Opened + 1 /\ d = local[n]
    OBVIOUS
  <2>1. panel' = PanelOf(n, number, d)
    BY <1>2 DEF Open, PanelOf
  <2>2. /\ PanelShape(panel') /\ panel'.name = n /\ panel'.number = number
        /\ panel'.saved = 0 /\ panel'.busy = "no"
    BY <2>1, MountedFields
  <2> PICK l : l = IF live THEN [phase |-> "sent", name |-> n, version |-> 0] ELSE Settled
    OBVIOUS
  <2>3. l \in Load /\ (l.phase # "settled" => l.phase = "sent" /\ l.name = n)
    BY DEF Load, Settled
  <2>4. load' = Append(load, l) /\ UNCHANGED <<configs, put, trigger>>
    BY <1>2 DEF Open, Frame
  <2> QED
    BY <2>2, <2>3, <2>4 DEF Mounted
<1>3. ASSUME Leave \/ ResetWorkspace PROVE Unmounted
  <2>1. /\ panel' = NoPanel /\ UNCHANGED <<configs, put, trigger>>
        /\ load' = load \/ load' = [k \in DOMAIN load |-> Settled]
    BY <1>3 DEF Leave, ResetWorkspace, Frame
  <2> QED
    BY <2>1, UnmountedFields DEF Unmounted
<1>4. ASSUME NEW k \in DOMAIN load, ReadConfig(k) \/ LoadAnswered(k) \/ LoadFailed(k)
      PROVE  LoadStep(k)
  BY <1>1, <1>4, LoadSteps
<1>5. ASSUME NEW d, Change(d) PROVE Edited
  <2>1. panel' = PanelChanged(panel, d) /\ UNCHANGED <<configs, put, trigger, load>>
    BY <1>5 DEF Change, PanelChanged, Frame
  <2> QED
    BY <1>1, <2>1, ChangedFields DEF Edited, PanelKept
<1>6. ASSUME CancelRemove \/ \E source : AskRemove(source) PROVE Edited
  <2>1. PICK source : panel' = PanelAsking(panel, source) /\ UNCHANGED <<configs, put, trigger, load>>
    BY <1>6 DEF CancelRemove, AskRemove, PanelAsking, Frame
  <2> QED
    BY <1>1, <2>1, AskingFields DEF Edited, PanelKept
<1>7. ASSUME SaveLocally PROVE Edited
  BY <1>1, <1>7 DEF SaveLocally, Frame, Edited, PanelKept
<1>8. ASSUME RunFailed PROVE RunGivenUp
  <2>1. /\ panel' = PanelBusy(panel, "no") /\ panel.busy = "run"
        /\ UNCHANGED <<configs, put, trigger, load>>
        /\ \A t \in Triggers : trigger[t].sender # panel.number
    BY <1>8 DEF RunFailed, PanelBusy, Frame
  <2> QED
    BY <1>1, <2>1, BusyFields DEF RunGivenUp, PanelTurned, PanelKept
<1> QED
  BY <1>2, <1>3, <1>4, <1>5, <1>6, <1>7, <1>8 DEF PanelNext, EditWeights, EditSources, ConfirmRemove

(* What saves, runs and other people do.                                   *)
LEMMA OtherSteps ==
  ASSUME SInv, SettingsNext
  PROVE  \/ PanelNext \/ Elsewhere
         \/ \E p \in Puts : Saving(p) \/ SaveHeard(p)
         \/ \E t \in Triggers : RunAsked(t) \/ RunHeard(t)
<1>1. PanelShape(panel) /\ PanelInv /\ ConfigInv /\ RunTypeOK /\ ConfigsRead
  BY DEF SInv, PanelInv, RInv, ConfigInv
<1>2. ASSUME NEW p \in Puts, Save(p) PROVE Saving(p)
  <2>1. /\ panel' = PanelSaving(panel) /\ panel.busy = "no" /\ panel.name \in Names
        /\ SendPut(p, panel.name, panel.document, panel.number)
        /\ UNCHANGED <<configs, trigger, load>>
    BY <1>1, <1>2 DEF Save, MaySave, PanelSaving, Frame, PanelInv
  <2>2. /\ PanelKept /\ panel'.busy = "save"
        /\ panel'.saved = panel.saved /\ panel'.document = panel.document
    BY <1>1, <2>1, SavingFields DEF PanelKept
  <2> QED
    BY <2>1, <2>2 DEF Saving
<1>3. ASSUME NEW p \in Puts, SaveAnswered(p) PROVE SaveHeard(p)
  <2>1. /\ PutAnswered(p) /\ put[p].sender # Nobody /\ put[p].phase = "stored"
        /\ UNCHANGED <<trigger, load>>
    BY <1>3 DEF SaveAnswered, PutAnswered, Frame
  <2>2. CASE panel.number = put[p].sender
    <3> PICK v : v = put[p].version
      OBVIOUS
    <3>1. panel' = PanelSaved(panel, v)
      BY <1>3, <2>2 DEF SaveAnswered, PanelSaved
    <3>2. /\ PanelKept /\ panel'.busy = "no" /\ panel'.document = panel.document
          /\ panel'.saved = v /\ panel'.stray = panel.stray
      BY <1>1, <3>1, SavedFields DEF PanelKept
    <3> QED
      BY <2>1, <2>2, <3>2 DEF SaveHeard
  <2>3. CASE panel.number # put[p].sender
    BY <1>3, <2>1, <2>3 DEF SaveAnswered, SaveHeard
  <2> QED
    BY <2>2, <2>3
<1>4. ASSUME NEW p \in Puts, SaveFailed(p) PROVE SaveHeard(p)
  <2>1. PutAnswered(p) /\ put[p].sender # Nobody /\ UNCHANGED <<trigger, load>>
    BY <1>4 DEF SaveFailed, PutAnswered, Frame
  <2>2. CASE panel.number = put[p].sender
    <3>1. panel' = PanelRefused(panel)
      BY <1>4, <2>2 DEF SaveFailed, PanelRefused
    <3>2. PanelKept /\ panel'.busy = "no" /\ panel'.document = panel.document /\ panel'.stray
      BY <1>1, <3>1, RefusedFields DEF PanelKept
    <3> QED
      BY <2>1, <2>2, <3>2 DEF SaveHeard
  <2>3. CASE panel.number # put[p].sender
    BY <1>4, <2>1, <2>3 DEF SaveFailed, SaveHeard
  <2> QED
    BY <2>2, <2>3
<1>5. ASSUME NEW p \in Puts, NEW n \in Names, NEW d, OtherSaves(p, n, d) PROVE Elsewhere
  <2>1. SendPut(p, n, d, Nobody) /\ UNCHANGED <<configs, trigger, panel, load>> /\ ConfigStep
    BY <1>5 DEF OtherSaves, Frame, ConfigStep, Nobody
  <2>2. put'[p].sender = Nobody /\ \A q \in Puts \ {p} : put'[q] = put[q]
    BY <1>1, <2>1, PutSteps DEF Nobody
  <2> QED
    BY <2>1, <2>2 DEF Elsewhere, SameRequest
<1>6. ASSUME NEW p \in Puts, ReadLatest(p) \/ Insert(p), UNCHANGED <<runVars, panelVars>>
      PROVE  Elsewhere
  <2>1. ConfigStep /\ UNCHANGED <<trigger, panel, load>>
    BY <1>6 DEF ConfigStep, runVars, panelVars
  <2>2. SameRequest(p) /\ \A q \in Puts \ {p} : put'[q] = put[q]
    BY <1>1, <1>6, PutSteps
  <2> QED
    BY <2>1, <2>2 DEF Elsewhere, SameRequest
<1>7. ASSUME NEW t \in Triggers, NEW s \in Nat, Ask(t, s)
      PROVE  trigger'[t].sender = s /\ \A u \in Triggers \ {t} : trigger'[u] = trigger[u]
  <2>1. trigger \in [Triggers -> Thread] /\ trigger[t] \in Thread
    BY <1>1 DEF RunTypeOK
  <2>2. trigger'[t] = Asked(trigger[t], s)
    BY <1>7, <2>1 DEF Ask, Asked
  <2>3. trigger'[t].sender = s
    BY <2>1, <2>2, ThreadFields
  <2> QED
    BY <1>7, <2>1, <2>3 DEF Ask
<1>8. ASSUME NEW t \in Triggers, RunNow(t) PROVE RunAsked(t)
  <2>1. /\ panel' = PanelBusy(panel, "run") /\ panel.busy = "no" /\ Ask(t, panel.number)
        /\ UNCHANGED <<configs, put, load>>
    BY <1>8 DEF RunNow, PanelBusy
  <2>2. PanelTurned("no", "run")
    BY <1>1, <2>1, BusyFields DEF PanelTurned, PanelKept
  <2>3. panel.number \in Nat
    BY <1>1, LoadTyped DEF PanelInv
  <2> QED
    BY <1>7, <2>1, <2>2, <2>3 DEF RunAsked
<1>9. ASSUME NEW t \in Triggers, OtherRuns(t) PROVE Elsewhere
  <2>1. Ask(t, Nobody) /\ UNCHANGED <<configs, put, panel, load>> /\ Nobody \in Nat
    BY <1>9 DEF OtherRuns, Nobody
  <2>2. \A u \in Triggers : trigger'[u].sender \in {trigger[u].sender, Nobody}
    BY <1>7, <2>1
  <2> QED
    BY <2>1, <2>2 DEF Elsewhere, SameRequest, ConfigStep, configVars
<1>10. ASSUME NEW t \in Triggers, RunAnswered(t) PROVE RunHeard(t)
  <2>1. trigger'[t].sender = Nobody /\ \A u \in Triggers \ {t} : trigger'[u] = trigger[u]
    BY <1>1, <1>10 DEF RunAnswered, RunTypeOK, Idle
  <2>2. UNCHANGED <<configs, put, load>>
    BY <1>10 DEF RunAnswered, Frame
  <2>3. CASE panel.number = trigger[t].sender
    <3>1. panel' = PanelBusy(panel, "no")
      BY <1>10, <2>3 DEF RunAnswered, PanelBusy
    <3>2. PanelTurned(panel.busy, "no")
      BY <1>1, <2>2, <3>1, BusyFields DEF PanelTurned, PanelKept
    <3> QED
      BY <2>1, <2>3, <3>2 DEF RunHeard
  <2>4. CASE panel.number # trigger[t].sender
    BY <1>10, <2>1, <2>2, <2>4 DEF RunAnswered, RunHeard
  <2> QED
    BY <2>3, <2>4
<1>11. ASSUME RunNext, UNCHANGED <<configVars, panelVars>> PROVE Elsewhere
  <2>1. \A t \in Triggers : trigger'[t].sender \in {trigger[t].sender, Nobody}
    BY <1>1, <1>11, ThreadSenders
  <2> QED
    BY <1>11, <2>1 DEF Elsewhere, SameRequest, ConfigStep, configVars, panelVars
<1> QED
  BY <1>2, <1>3, <1>4, <1>5, <1>6, <1>8, <1>9, <1>10, <1>11 DEF SettingsNext, PutNext, TriggerNext
-----------------------------------------------------------------------------
(* The panel's invariant, step by step.                                    *)

(* Every step is one of these.                                             *)
PanelStep ==
  \/ \E n \in Names : Mounted(n)
  \/ Unmounted
  \/ \E k \in DOMAIN load : LoadStep(k)
  \/ Edited
  \/ \E p \in Puts : Saving(p) \/ SaveHeard(p)
  \/ Elsewhere
  \/ \E t \in Triggers : RunAsked(t) \/ RunHeard(t)
  \/ RunGivenUp

(* Loads that are answered are settled, and none is forgotten.             *)
LEMMA LoadMoves ==
  ASSUME SInv, PanelStep
  PROVE  /\ load' \in Seq(Load) /\ Opened' \in Nat
         /\ \/ Opened' = Opened
            \/ Opened' = Opened + 1 /\ \E n \in Names : Mounted(n)
         /\ \A k \in DOMAIN load' :
              \/ load'[k].phase = "settled"
              \/ k \in DOMAIN load /\ load'[k] = load[k]
              \/ /\ k \in DOMAIN load /\ LoadStep(k)
                 /\ load[k].phase # "settled" /\ load'[k].name = load[k].name
                 /\ load'[k].phase = "read" =>
                      \E row \in configs[load[k].name] : row.version = load'[k].version
              \/ /\ k = Opened + 1 /\ load'[k].phase = "sent"
                 /\ Mounted(load'[k].name) /\ load'[k].name \in Names
<1>1. /\ load \in Seq(Load) /\ Opened \in Nat /\ DOMAIN load = 1 .. Opened /\ Len(load) = Opened
      /\ Settled \in Load /\ Settled.phase = "settled"
  BY LoadTyped DEF SInv, PanelInv, Opened
<1>2. CASE load' = load
  BY <1>1, <1>2 DEF Opened
<1>3. ASSUME NEW n \in Names, Mounted(n)
      PROVE  /\ load' \in Seq(Load) /\ Opened' = Opened + 1
             /\ \A k \in DOMAIN load' :
                  \/ load'[k].phase = "settled"
                  \/ k \in DOMAIN load /\ load'[k] = load[k]
                  \/ /\ k = Opened + 1 /\ load'[k].phase = "sent"
                     /\ Mounted(load'[k].name) /\ load'[k].name \in Names
  <2> PICK l \in Load : load' = Append(load, l) /\ (l.phase # "settled" => l.phase = "sent" /\ l.name = n)
    BY <1>3 DEF Mounted
  <2>1. /\ load' \in Seq(Load) /\ Len(load') = Opened + 1
        /\ \A k \in 1 .. Opened : load'[k] = load[k]
        /\ load'[Opened + 1] = l
    BY <1>1, AppendProperties
  <2>2. DOMAIN load' = 1 .. (Opened + 1)
    BY <1>1, <2>1
  <2>3. ASSUME NEW k \in DOMAIN load'
        PROVE  \/ load'[k].phase = "settled"
               \/ k \in DOMAIN load /\ load'[k] = load[k]
               \/ /\ k = Opened + 1 /\ load'[k].phase = "sent"
                  /\ Mounted(load'[k].name) /\ load'[k].name \in Names
    <3>1. CASE k \in DOMAIN load
      BY <1>1, <2>1, <3>1
    <3>2. CASE k \notin DOMAIN load
      <4>1. k = Opened + 1 /\ load'[k] = l
        BY <1>1, <2>1, <2>2, <3>2
      <4> QED
        BY <1>3, <4>1
    <3> QED
      BY <3>1, <3>2
  <2> QED
    BY <2>1, <2>3 DEF Opened
<1>4. CASE load' = [k \in DOMAIN load |-> Settled]
  <2>1. load' \in [1 .. Opened -> Load]
    BY <1>1, <1>4
  <2>2. load' \in Seq(Load) /\ Len(load') = Opened
    BY <1>1, <2>1
  <2> QED
    BY <1>1, <1>4, <2>2 DEF Opened
<1>5. ASSUME NEW j \in DOMAIN load, LoadStep(j)
      PROVE  /\ load' \in Seq(Load) /\ Opened' = Opened
             /\ \A k \in DOMAIN load' :
                  \/ load'[k].phase = "settled"
                  \/ k \in DOMAIN load /\ load'[k] = load[k]
                  \/ /\ k \in DOMAIN load /\ LoadStep(k)
                     /\ load[k].phase # "settled" /\ load'[k].name = load[k].name
                     /\ load'[k].phase = "read" =>
                          \E row \in configs[load[k].name] : row.version = load'[k].version
  <2> PICK l \in Load :
        /\ load' = [load EXCEPT ![j] = l]
        /\ l.phase # "settled" => l.name = load[j].name
        /\ l.phase = "read" => \E row \in configs[l.name] : row.version = l.version
    BY <1>5 DEF LoadStep
  <2>1. load' \in [1 .. Opened -> Load]
    BY <1>1
  <2>2. load' \in Seq(Load) /\ Len(load') = Opened
    BY <1>1, <2>1
  <2>3. DOMAIN load' = DOMAIN load /\ load'[j] = l /\ \A k \in DOMAIN load \ {j} : load'[k] = load[k]
    BY <1>1
  <2>4. load[j].phase # "settled"
    BY <1>5 DEF LoadStep
  <2>5. l.phase = "read" => \E row \in configs[load[j].name] : row.version = l.version
    OBVIOUS
  <2> QED
    BY <1>5, <2>2, <2>3, <2>4, <2>5 DEF Opened
<1>6. \/ load' = load \/ load' = [k \in DOMAIN load |-> Settled]
      \/ \E n \in Names : Mounted(n)
      \/ \E k \in DOMAIN load : LoadStep(k)
  BY DEF PanelStep, Unmounted, Edited, Saving, SaveHeard, Elsewhere, RunAsked, RunHeard,
     RunGivenUp, PanelTurned
<1> QED
  BY <1>1, <1>2, <1>3, <1>4, <1>5, <1>6
(* What the panel is, and the loads it may wait for.                       *)
LEMMA LoadsLast ==
  ASSUME SInv, PanelStep, ConfigStep
  PROVE  /\ PanelShape(panel') /\ panel'.name \in Names \cup {None} /\ panel'.number \in 0 .. Opened'
         /\ panel'.number # 0 => panel'.name \in Names
         /\ panel'.saved > 0 => panel'.number # 0
         /\ LoadsAwaited'
<1>1. /\ PanelShape(panel) /\ panel.name \in Names \cup {None} /\ panel.number \in 0 .. Opened
      /\ panel.number # 0 => panel.name \in Names
      /\ panel.saved > 0 => panel.number # 0
      /\ Opened \in Nat /\ DOMAIN load = 1 .. Opened /\ LoadsAwaited
  BY LoadTyped DEF SInv, PanelInv
<1>2. Opened' \in Nat /\ (Opened' = Opened \/ (Opened' = Opened + 1 /\ \E n \in Names : Mounted(n)))
  BY LoadMoves
<1>3. \/ PanelKept
      \/ panel' = panel
      \/ Unmounted
      \/ \E n \in Names : Mounted(n)
  BY DEF PanelStep, LoadStep, Edited, Saving, SaveHeard, Elsewhere, RunAsked, RunHeard,
     RunGivenUp, PanelTurned
<1>4. /\ PanelShape(panel') /\ panel'.name \in Names \cup {None} /\ panel'.number \in 0 .. Opened'
      /\ panel'.number # 0 => panel'.name \in Names
  <2>1. CASE PanelKept \/ panel' = panel
    BY <1>1, <1>2, <2>1 DEF PanelKept
  <2>2. CASE Unmounted
    BY <1>2, <2>2 DEF Unmounted
  <2>3. ASSUME NEW n \in Names, Mounted(n)
        PROVE  /\ PanelShape(panel') /\ panel'.name \in Names /\ panel'.number \in 0 .. Opened'
    <3>1. Opened' = Opened + 1
      <4> PICK l \in Load : load' = Append(load, l)
        BY <2>3 DEF Mounted
      <4>1. load \in Seq(Load)
        BY DEF SInv, PanelInv
      <4> QED
        BY <4>1, AppendProperties DEF Opened
    <3> QED
      BY <1>1, <2>3, <3>1 DEF Mounted
  <2> QED
    BY <1>3, <2>1, <2>2, <2>3
<1>5. panel'.saved > 0 => panel'.number # 0
  <2>1. CASE panel' = panel \/ Edited \/ \E p \in Puts : Saving(p)
    BY <1>1, <2>1 DEF Edited, Saving, PanelKept
  <2>2. CASE \E from, to : PanelTurned(from, to)
    BY <1>1, <2>2 DEF PanelTurned, PanelKept
  <2>3. ASSUME NEW p \in Puts, SaveHeard(p) PROVE panel' = panel \/ panel'.number # 0
    BY <2>3 DEF SaveHeard, PanelKept, Nobody
  <2>4. ASSUME NEW k \in DOMAIN load, LoadStep(k) PROVE panel' = panel \/ panel'.number # 0
    BY <1>1, <2>4 DEF LoadStep, PanelKept
  <2>5. CASE Unmounted \/ \E n \in Names : Mounted(n)
    <3>1. panel'.saved = 0
      BY <2>5 DEF Unmounted, Mounted
    <3> QED
      BY <3>1
  <2> QED
    BY <1>1, <2>1, <2>2, <2>3, <2>4, <2>5 DEF PanelStep, Elsewhere, RunAsked, RunHeard, RunGivenUp
<1>6. LoadsAwaited'
  <2> SUFFICES ASSUME NEW k \in DOMAIN load', load'[k].phase # "settled"
               PROVE  /\ load'[k].name \in Names
                      /\ panel'.number = k => panel'.name = load'[k].name
                      /\ load'[k].phase = "read" =>
                           \E row \in configs'[load'[k].name] : row.version = load'[k].version
    BY DEF LoadsAwaited
  <2>1. CASE k \in DOMAIN load /\ load[k].phase # "settled" /\ load'[k].name = load[k].name
    <3>1. load[k].name \in Names /\ (panel.number = k => panel.name = load[k].name)
      BY <1>1, <2>1 DEF LoadsAwaited
    <3>2. panel'.number = k => panel'.name = load'[k].name
      <4>1. k # 0 /\ k # Opened + 1
        BY <1>1, <2>1
      <4> QED
        BY <1>3, <2>1, <3>1, <4>1 DEF PanelKept, Unmounted, Mounted
    <3>3. configs[load[k].name] \subseteq configs'[load[k].name]
      BY <3>1, ConfigsGrow DEF SInv
    <3>4. load'[k].phase = "read" => \E row \in configs[load[k].name] : row.version = load'[k].version
      BY <1>1, <2>1, LoadMoves DEF LoadsAwaited
    <3> QED
      BY <2>1, <3>1, <3>2, <3>3, <3>4
  <2>2. CASE k = Opened + 1 /\ load'[k].phase = "sent" /\ Mounted(load'[k].name) /\ load'[k].name \in Names
    BY <2>2 DEF Mounted
  <2> QED
    BY <2>1, <2>2, LoadMoves
<1> QED
  BY <1>4, <1>5, <1>6

(* The panel waits for its own save, and once.                             *)
LEMMA SavesLast ==
  ASSUME SInv, PanelStep
  PROVE  SavesAwaited'
<1>1. /\ Opened \in Nat /\ panel.number \in 0 .. Opened /\ SavesAwaited
      /\ \A p \in Puts : put[p].sender \in Nat
  BY LoadTyped DEF SInv, PanelInv, ConfigInv
<1>2. Opened' \in Nat /\ Opened' >= Opened
  BY <1>1, LoadMoves
<1> DEFINE Waits(p) ==
      put[p].sender # Nobody /\ put[p].sender = panel.number =>
        /\ panel.busy = "save" /\ put[p].name = panel.name
        /\ ~ panel.stray => put[p].document = panel.document
        /\ \A q \in Puts : put[q].sender = put[p].sender => q = p
<1>3. ASSUME \A p \in Puts : put'[p].sender \in {put[p].sender, Nobody},
             NEW p \in Puts, Waits(p)'
      PROVE  /\ put'[p].sender <= Opened'
             /\ Waits(p)'
  BY <1>1, <1>2, <1>3 DEF SavesAwaited, Nobody
<1>4. ASSUME UNCHANGED put, panel'.number = 0 \/ panel'.number > Opened PROVE SavesAwaited'
  <2>1. \A p \in Puts : put[p].sender <= Opened /\ (put[p].sender = panel'.number => put[p].sender = Nobody)
    BY <1>1, <1>4 DEF SavesAwaited, Nobody
  <2> QED
    BY <1>1, <1>2, <1>4, <2>1 DEF SavesAwaited
<1>5. CASE Unmounted \/ \E n \in Names : Mounted(n)
  BY <1>1, <1>4, <1>5 DEF Unmounted, Mounted
<1>6. ASSUME UNCHANGED put, PanelKept, panel'.busy = panel.busy,
             \/ panel'.stray
             \/ panel.busy # "save"
             \/ panel'.document = panel.document /\ panel'.stray = panel.stray
      PROVE  SavesAwaited'
  <2>1. ASSUME NEW p \in Puts PROVE Waits(p)'
    BY <1>1, <1>6, <2>1 DEF SavesAwaited, PanelKept
  <2> QED
    BY <1>3, <1>6, <2>1 DEF SavesAwaited
<1>7. CASE Edited
  BY <1>6, <1>7 DEF Edited
<1>8. ASSUME NEW k \in DOMAIN load, LoadStep(k) PROVE SavesAwaited'
  BY <1>6, <1>8 DEF LoadStep
<1>9. ASSUME NEW p \in Puts, Saving(p) PROVE SavesAwaited'
  <2>1. /\ \A q \in Puts \ {p} : put'[q] = put[q]
        /\ put'[p].name = panel.name /\ put'[p].document = panel.document
        /\ put'[p].sender = panel.number
    <3>1. SendPut(p, panel.name, panel.document, panel.number) /\ panel.name \in Names
      BY <1>9 DEF Saving
    <3>2. panel.number \in Nat
      BY <1>1
    <3>3. \A q \in Puts \ {p} : put'[q] = put[q]
      BY <3>1, <3>2, PutSteps DEF SInv
    <3> PICK n, d, s : n = panel.name /\ d = panel.document /\ s = panel.number
      OBVIOUS
    <3>4. put'[p].name = n /\ put'[p].document = d /\ put'[p].sender = s
      BY <3>1, PutSteps DEF SInv
    <3> QED
      BY <3>3, <3>4
  <2>2. \A q \in Puts : put[q].sender # Nobody => put[q].sender # panel.number
    BY <1>1, <1>9 DEF Saving, SavesAwaited
  <2>3. /\ PanelKept /\ panel'.busy = "save" /\ panel'.document = panel.document
    BY <1>9 DEF Saving
  <2>4. Opened' = Opened
    BY <1>9 DEF Saving, Opened
  <2>5. ASSUME NEW q \in Puts PROVE put'[q].sender <= Opened'
    BY <1>1, <2>1, <2>4 DEF SavesAwaited
  <2>6. ASSUME NEW q \in Puts, put'[q].sender # Nobody, put'[q].sender = panel'.number PROVE q = p
    BY <2>1, <2>2, <2>3, <2>6 DEF PanelKept
  <2>7. ASSUME NEW q \in Puts PROVE Waits(q)'
    BY <2>1, <2>3, <2>6 DEF PanelKept
  <2> QED
    BY <2>5, <2>7 DEF SavesAwaited
<1>10. ASSUME NEW p \in Puts, SaveHeard(p) PROVE SavesAwaited'
  <2>1. /\ \A q \in Puts \ {p} : put'[q] = put[q]
        /\ put'[p].sender = Nobody /\ put[p].sender # Nobody
    BY <1>10, PutSteps DEF SaveHeard, SInv
  <2>2. CASE panel' = panel
    <3>1. ASSUME NEW q \in Puts PROVE Waits(q)'
      BY <1>1, <2>1, <2>2 DEF SavesAwaited
    <3> QED
      BY <1>3, <2>1, <3>1 DEF SavesAwaited
  <2>3. CASE PanelKept /\ panel.number = put[p].sender
    <3>1. \A q \in Puts : put[q].sender = panel.number => q = p
      BY <1>1, <2>1, <2>3 DEF SavesAwaited
    <3>2. ASSUME NEW q \in Puts PROVE Waits(q)'
      BY <2>1, <2>3, <3>1 DEF PanelKept
    <3> QED
      BY <1>3, <2>1, <3>2 DEF SavesAwaited
  <2> QED
    BY <1>10, <2>2, <2>3 DEF SaveHeard
<1>11. CASE Elsewhere
  <2>1. panel' = panel /\ \A q \in Puts : SameRequest(q) \/ put'[q].sender = Nobody
    BY <1>11 DEF Elsewhere
  <2>2. ASSUME NEW q \in Puts PROVE Waits(q)'
    BY <1>1, <2>1 DEF SavesAwaited, SameRequest
  <2> QED
    BY <1>3, <2>1, <2>2 DEF SavesAwaited, SameRequest
<1>12. ASSUME NEW from \in {"no", "run"}, NEW to, PanelTurned(from, to) PROVE SavesAwaited'
  <2>1. UNCHANGED put /\ PanelKept /\ panel.busy # "save"
    BY <1>12 DEF PanelTurned
  <2>2. ASSUME NEW q \in Puts PROVE Waits(q)'
    BY <1>1, <2>1 DEF SavesAwaited, PanelKept
  <2> QED
    BY <1>3, <2>1, <2>2 DEF SavesAwaited
<1>13. ASSUME NEW t \in Triggers, RunHeard(t) PROVE SavesAwaited'
  <2>1. CASE panel' = panel /\ UNCHANGED put
    <3>1. ASSUME NEW q \in Puts PROVE Waits(q)'
      BY <1>1, <2>1 DEF SavesAwaited
    <3> QED
      BY <1>3, <2>1, <3>1 DEF SavesAwaited
  <2>2. CASE panel.number = trigger[t].sender /\ PanelTurned(panel.busy, "no")
    <3>1. UNCHANGED put /\ PanelKept
      BY <2>2 DEF PanelTurned
    <3>2. CASE panel.number = Nobody
      BY <1>4, <3>1, <3>2 DEF PanelKept, Nobody
    <3>3. CASE panel.number # Nobody
      <4>1. panel.busy = "run"
        BY <2>2, <3>3 DEF SInv, PanelInv, RunsAwaited
      <4> QED
        BY <1>12, <2>2, <4>1
    <3> QED
      BY <3>2, <3>3
  <2> QED
    BY <1>13, <2>1, <2>2 DEF RunHeard
<1>14. CASE RunGivenUp
  BY <1>12, <1>14 DEF RunGivenUp
<1>15. ASSUME NEW t \in Triggers, RunAsked(t) PROVE SavesAwaited'
  BY <1>12, <1>15 DEF RunAsked
<1> QED
  BY <1>5, <1>7, <1>8, <1>9, <1>10, <1>11, <1>13, <1>14, <1>15 DEF PanelStep
(* Or for its own run, and once.                                           *)
LEMMA RunsLast ==
  ASSUME SInv, PanelStep
  PROVE  RunsAwaited'
<1>1. /\ Opened \in Nat /\ panel.number \in 0 .. Opened /\ RunsAwaited
      /\ \A t \in Triggers : trigger[t].sender \in Nat
  BY LoadTyped DEF SInv, PanelInv, RInv, RunTypeOK, Thread
<1>2. Opened' \in Nat /\ Opened' >= Opened
  BY <1>1, LoadMoves
<1> DEFINE Waits(t) ==
      trigger[t].sender # Nobody /\ trigger[t].sender = panel.number =>
        /\ panel.busy = "run"
        /\ \A u \in Triggers : trigger[u].sender = trigger[t].sender => u = t
<1>3. ASSUME \A t \in Triggers : trigger'[t].sender \in {trigger[t].sender, Nobody, panel.number},
             \A t \in Triggers : Waits(t)'
      PROVE  RunsAwaited'
  BY <1>1, <1>2, <1>3 DEF RunsAwaited, Nobody
<1>4. ASSUME UNCHANGED trigger, panel'.number = 0 \/ panel'.number > Opened PROVE RunsAwaited'
  <2>1. \A t \in Triggers :
          trigger[t].sender <= Opened /\ (trigger[t].sender = panel'.number => trigger[t].sender = Nobody)
    BY <1>1, <1>4 DEF RunsAwaited, Nobody
  <2> QED
    BY <1>1, <1>2, <1>4, <2>1 DEF RunsAwaited
<1>5. CASE Unmounted \/ \E n \in Names : Mounted(n)
  BY <1>1, <1>4, <1>5 DEF Unmounted, Mounted
<1>6. ASSUME \A t \in Triggers : trigger'[t].sender \in {trigger[t].sender, Nobody},
             panel'.number = panel.number, panel'.busy = panel.busy \/ panel.busy # "run"
      PROVE  RunsAwaited'
  <2>1. \A t \in Triggers : Waits(t)'
    BY <1>1, <1>6 DEF RunsAwaited
  <2> QED
    BY <1>3, <1>6, <2>1
<1>7. CASE Edited \/ \E k \in DOMAIN load : LoadStep(k)
  BY <1>6, <1>7 DEF Edited, LoadStep, PanelKept
<1>8. CASE \E p \in Puts : Saving(p)
  BY <1>6, <1>8 DEF Saving, PanelKept
<1>9. ASSUME NEW p \in Puts, SaveHeard(p) PROVE RunsAwaited'
  <2>1. UNCHANGED trigger
    BY <1>9 DEF SaveHeard
  <2>2. CASE panel' = panel
    BY <1>6, <2>1, <2>2
  <2>3. CASE PanelKept /\ panel.number = put[p].sender
    <3>1. panel.busy = "save"
      BY <1>9, <2>3 DEF SaveHeard, SInv, PanelInv, SavesAwaited
    <3> QED
      BY <1>6, <2>1, <2>3, <3>1 DEF PanelKept
  <2> QED
    BY <1>9, <2>2, <2>3 DEF SaveHeard
<1>10. CASE Elsewhere
  BY <1>6, <1>10 DEF Elsewhere
<1>11. ASSUME NEW t \in Triggers, RunAsked(t) PROVE RunsAwaited'
  <2>1. /\ panel'.number = panel.number /\ panel.busy = "no" /\ panel'.busy = "run"
        /\ trigger'[t].sender = panel.number
        /\ \A u \in Triggers \ {t} : trigger'[u] = trigger[u]
    BY <1>11 DEF RunAsked, PanelTurned, PanelKept
  <2>2. \A u \in Triggers : trigger[u].sender # Nobody => trigger[u].sender # panel.number
    BY <1>1, <2>1 DEF RunsAwaited
  <2>3. \A u \in Triggers : Waits(u)'
    BY <2>1, <2>2
  <2> QED
    BY <1>3, <2>1, <2>3
<1>12. ASSUME NEW t \in Triggers, RunHeard(t) PROVE RunsAwaited'
  <2>1. trigger'[t].sender = Nobody /\ \A u \in Triggers \ {t} : trigger'[u] = trigger[u]
    BY <1>12 DEF RunHeard
  <2>2. CASE panel' = panel
    BY <1>6, <2>1, <2>2
  <2>3. CASE panel.number = trigger[t].sender /\ panel'.number = panel.number
    <3>1. \A u \in Triggers : Waits(u)'
      BY <1>1, <2>1, <2>3 DEF RunsAwaited
    <3> QED
      BY <1>3, <2>1, <3>1
  <2> QED
    BY <1>12, <2>2, <2>3 DEF RunHeard, PanelTurned, PanelKept
<1>13. CASE RunGivenUp
  <2>1. /\ UNCHANGED trigger /\ panel'.number = panel.number
        /\ \A t \in Triggers : trigger[t].sender # panel.number
    BY <1>13 DEF RunGivenUp, PanelTurned, PanelKept
  <2>2. \A u \in Triggers : Waits(u)'
    BY <2>1
  <2> QED
    BY <1>3, <2>1, <2>2
<1> QED
  BY <1>5, <1>7, <1>8, <1>9, <1>10, <1>11, <1>12, <1>13 DEF PanelStep

(* The label tells the version shown.                                      *)
LEMMA LabelLast ==
  ASSUME SInv, PanelStep, ConfigStep
  PROVE  LabelTruthful'
<1> SUFFICES ASSUME panel'.saved > 0, ~ panel'.stray, panel'.busy # "save"
             PROVE  [version |-> panel'.saved, document |-> panel'.document] \in configs'[panel'.name]
  BY DEF LabelTruthful
<1>1. /\ panel.saved > 0 => panel.number # 0
      /\ panel.number # 0 => panel.name \in Names
      /\ panel.name \in Names \cup {None} /\ panel.number \in 0 .. Opened
      /\ LabelTruthful
  BY DEF SInv, PanelInv
<1>2. ASSUME NEW n, NEW row, row \in configs[n], n \in Names PROVE row \in configs'[n]
  BY <1>2, ConfigsGrow DEF SInv
<1> DEFINE Shown == [version |-> panel'.saved, document |-> panel'.document]
<1>3. ASSUME panel'.name = panel.name, panel'.saved = panel.saved,
             panel'.document = panel.document, panel'.stray = panel.stray, panel.busy # "save"
      PROVE  Shown \in configs'[panel'.name]
  <2>1. [version |-> panel.saved, document |-> panel.document] \in configs[panel.name]
    BY <1>1, <1>3 DEF LabelTruthful
  <2>2. panel.name \in Names
    BY <1>1, <1>3
  <2>3. configs[panel.name] \subseteq configs'[panel.name]
    BY <2>2, ConfigsGrow DEF SInv
  <2> QED
    BY <1>3, <2>1, <2>3
<1>4. CASE Unmounted \/ \E n \in Names : Mounted(n)
  <2>1. panel'.saved = 0
    BY <1>4 DEF Unmounted, Mounted
  <2> QED
    BY <2>1
<1>5. CASE panel' = panel
  BY <1>3, <1>5
<1>6. CASE Edited
  BY <1>3, <1>6 DEF Edited, PanelKept
<1>7. ASSUME NEW k \in DOMAIN load, LoadStep(k) PROVE Shown \in configs'[panel'.name]
  <2>1. CASE /\ panel.number = k
             /\ Shown \in configs[load[k].name]
    <3>1. load[k].name \in Names /\ panel.name = load[k].name
      BY <1>7, <2>1 DEF LoadStep, SInv, PanelInv, LoadsAwaited
    <3>2. panel'.name = panel.name
      BY <1>7 DEF LoadStep, PanelKept
    <3> QED
      BY <1>2, <2>1, <3>1, <3>2
  <2> QED
    BY <1>5, <1>7, <2>1 DEF LoadStep
<1>8. ASSUME NEW p \in Puts, SaveHeard(p) PROVE Shown \in configs'[panel'.name]
  <2>1. CASE /\ PanelKept /\ panel.number = put[p].sender /\ panel'.document = panel.document
             /\ put[p].phase = "stored" /\ panel'.saved = put[p].version
             /\ panel'.stray = panel.stray
    <3>1. put[p].name = panel.name /\ put[p].document = panel.document
      BY <1>8, <2>1 DEF SaveHeard, SInv, PanelInv, SavesAwaited
    <3>2. PutRow(p) \in configs[put[p].name] /\ put[p].name \in Names
      BY <2>1 DEF SInv, ConfigInv, AnsweredSavesKept
    <3>3. PutRow(p) = Shown
      BY <2>1, <3>1 DEF PutRow
    <3> QED
      BY <1>2, <2>1, <3>1, <3>2, <3>3 DEF PanelKept
  <2> QED
    BY <1>5, <1>8, <2>1 DEF SaveHeard
<1>9. ASSUME NEW from \in {"no", "run"}, NEW to, PanelTurned(from, to)
      PROVE  Shown \in configs'[panel'.name]
  BY <1>3, <1>9 DEF PanelTurned, PanelKept
<1>10. ASSUME NEW t \in Triggers, RunHeard(t) PROVE Shown \in configs'[panel'.name]
  <2>1. CASE panel.number = trigger[t].sender /\ PanelTurned(panel.busy, "no")
    <3>1. panel'.saved = panel.saved
      BY <2>1 DEF PanelTurned
    <3>2. panel.number # Nobody
      BY <1>1, <3>1 DEF Nobody
    <3>3. panel.busy = "run"
      BY <2>1, <3>2 DEF SInv, PanelInv, RunsAwaited
    <3> QED
      BY <1>9, <2>1, <3>3
  <2> QED
    BY <1>5, <1>10, <2>1 DEF RunHeard
<1> QED
  BY <1>4, <1>5, <1>6, <1>7, <1>8, <1>9, <1>10
     DEF PanelStep, Saving, Elsewhere, RunAsked, RunGivenUp
-----------------------------------------------------------------------------
(* At the start nobody waits, and every configuration has its first row.   *)
LEMMA SettingsBegin == SettingsInit => SInv
<1> SUFFICES ASSUME SettingsInit PROVE SInv
  OBVIOUS
<1>1. /\ ConfigInit /\ RunInit /\ panel = NoPanel /\ load = <<>>
  BY DEF SettingsInit
<1>2. ConfigInv
  <2>1. \A n \in Names :
          /\ configs[n] = {[version |-> 1, document |-> Seed[n]]}
          /\ \A row \in configs[n] : RowShape(row) /\ row.version = 1
    BY <1>1 DEF ConfigInit, RowShape
  <2>2. ConfigsRead
    <3> SUFFICES ASSUME NEW n \in Names
                 PROVE  /\ \A row \in configs[n] : row.version \in Nat
                        /\ \E row \in configs[n] : \A other \in configs[n] : other.version <= row.version
      BY DEF ConfigsRead
    <3> PICK row : configs[n] = {row}
      BY <2>1
    <3>1. row.version = 1
      BY <2>1
    <3> QED
      BY <3>1
  <2>3. \A p \in Puts : /\ PutShape(put[p]) /\ put[p].sender = 0 /\ put[p].version = 0
                        /\ put[p].phase = "unused"
    <3> SUFFICES ASSUME NEW p \in Puts
                 PROVE  /\ PutShape(put[p]) /\ put[p].sender = 0 /\ put[p].version = 0
                        /\ put[p].phase = "unused"
      OBVIOUS
    <3>1. put[p] = NoPut
      BY <1>1 DEF ConfigInit
    <3>2. /\ PutShape(NoPut) /\ NoPut.sender = 0 /\ NoPut.version = 0 /\ NoPut.phase = "unused"
      BY DEF NoPut, PutShape, Nobody
    <3> QED
      BY <3>1, <3>2
  <2>4. AnsweredSavesKept
    BY <2>3 DEF AnsweredSavesKept
  <2>5. put = [p \in Puts |-> put[p]] /\ configs = [n \in Names |-> configs[n]]
    BY <1>1 DEF ConfigInit
  <2> QED
    BY <2>1, <2>2, <2>3, <2>4, <2>5 DEF ConfigInv
<1>3. PanelInv
  <2>1. /\ PanelShape(panel) /\ panel.name = None /\ panel.number = 0 /\ panel.saved = 0
    BY <1>1, UnmountedFields
  <2>2. load \in Seq(Load) /\ Opened = 0 /\ DOMAIN load = {}
    BY <1>1 DEF Opened
  <2>3. \A p \in Puts : put[p].sender = 0
    BY <1>1 DEF ConfigInit, NoPut, Nobody
  <2>4. \A t \in Triggers : trigger[t].sender = 0
    BY <1>1 DEF RunInit, Idle, Nobody
  <2>5. LoadsAwaited /\ SavesAwaited /\ RunsAwaited
    BY <2>2, <2>3, <2>4 DEF LoadsAwaited, SavesAwaited, RunsAwaited, Nobody
  <2>6. LabelTruthful
    BY <2>1 DEF LabelTruthful
  <2> QED
    BY <2>1, <2>2, <2>5, <2>6 DEF PanelInv
<1> QED
  BY <1>1, <1>2, <1>3, RunsBegin DEF SInv

(* And no step ends it.                                                    *)
LEMMA SettingsGoOn ==
  ASSUME SInv, [SettingsNext]_settingsVars
  PROVE  SInv'
<1>1. CASE SettingsNext
  <2>1. RunStep /\ ConfigStep /\ ConfigsRead
    BY <1>1, RunsMove, ConfigsMove DEF SInv, ConfigInv
  <2>2. RInv' /\ ConfigInv'
    BY <2>1, RunsGoOn, ConfigGoesOn DEF SInv
  <2>3. PanelStep
    BY <1>1, OtherSteps, PanelSteps DEF PanelStep
  <2>4. PanelInv'
    BY <2>1, <2>3, LoadMoves, LoadsLast, SavesLast, RunsLast, LabelLast DEF PanelInv
  <2> QED
    BY <2>2, <2>4 DEF SInv
<1>2. CASE UNCHANGED settingsVars
  <2>1. RInv'
    <3>1. UNCHANGED runVars
      BY <1>2 DEF settingsVars, runVars
    <3>2. RunStep /\ ConfigsRead
      BY <3>1 DEF RunStep, SInv, ConfigInv
    <3> QED
      BY <3>2, RunsGoOn DEF SInv
  <2>2. ConfigInv'
    <3>1. ConfigStep
      BY <1>2 DEF settingsVars, ConfigStep, configVars
    <3> QED
      BY <3>1, ConfigGoesOn DEF SInv
  <2>3. PanelInv'
    BY <1>2 DEF settingsVars, SInv, PanelInv, LoadsAwaited, SavesAwaited, RunsAwaited,
       LabelTruthful, Opened
  <2> QED
    BY <2>1, <2>2, <2>3 DEF SInv
<1> QED
  BY <1>1, <1>2

LEMMA SettingsAlways == SettingsSpec => []SInv
<1> QED
  BY SettingsBegin, SettingsGoOn, PTL DEF SettingsSpec

(* Every save answered 200 is a version of its own, and stays              *)
(* (engine_config.py:115-126, models.py:137).                              *)
THEOREM SavesAlwaysKept == SettingsSpec => []AnsweredSavesKept
<1>1. SInv => AnsweredSavesKept
  BY DEF SInv, ConfigInv
<1> QED
  BY <1>1, SettingsAlways, PTL

(* Runs are one at a time and apart, and feed and archive of one run,      *)
(* whatever crashes or is killed, however many threads trigger them        *)
(* (btx_platform/pipeline.py:43-56, monitor_engine/pipeline.py:62-91).     *)
THEOREM RunsAlwaysApart == SettingsSpec => []RunsApart
<1>1. SInv => RunsApart
  BY RunsOrderly DEF SInv
<1> QED
  BY <1>1, SettingsAlways, PTL

(* An important story is never lost, and a run reads its configuration     *)
(* (monitor_engine/archive/core.py:224-245, btx_platform/pipeline.py:73).  *)
THEOREM RunsAlwaysKeep == SettingsSpec => []RunsKeep
<1>1. SInv => RunsKeep
  BY RunsOrderly DEF SInv
<1> QED
  BY <1>1, SettingsAlways, PTL

(* The label of the panel tells the version shown                          *)
(* (SettingsWorkspace.tsx:144-147, 202-222, 244-274).                      *)
THEOREM LabelAlwaysTruthful == SettingsSpec => []LabelTruthful
<1>1. SInv => LabelTruthful
  BY DEF SInv, PanelInv
<1> QED
  BY <1>1, SettingsAlways, PTL

(* Scoring follows the panel that is open, and never an answer to one that *)
(* has been left (SettingsWorkspace.tsx:201-224).                          *)
THEOREM AppliedAlwaysShown == SettingsSpec => AppliedIsShown
<1> DEFINE Shown ==
      applied' # applied =>
        \/ panel'.name = "scoring_weights" /\ applied' = panel'.document
        \/ panel' = NoPanel /\ applied' = Seed["scoring_weights"]
<1>1. ASSUME SInv, [SettingsNext]_settingsVars PROVE [Shown]_settingsVars
  <2> SUFFICES ASSUME applied' # applied PROVE Shown
    OBVIOUS
  <2>1. PanelShape(panel)
    BY <1>1 DEF SInv, PanelInv
  <2>2. ASSUME NEW n \in Names, Open(n) PROVE Shown
    <3> PICK number, d : number = Opened + 1 /\ d = local[n]
      OBVIOUS
    <3>1. /\ panel' = PanelOf(n, number, d)
          /\ applied' = IF ~live /\ n = "scoring_weights" THEN d ELSE applied
      BY <2>2 DEF Open, PanelOf
    <3>2. panel'.name = n /\ panel'.document = d
      BY <3>1, MountedFields
    <3> QED
      BY <3>1, <3>2
  <2>3. ASSUME NEW k \in DOMAIN load, LoadAnswered(k) PROVE Shown
    <3> PICK d, v : d = LoadedRow(k).document /\ v = load[k].version
      OBVIOUS
    <3>1. /\ panel' = PanelLoaded(panel, d, v)
          /\ applied' = IF panel.name = "scoring_weights" THEN d ELSE applied
      BY <2>3 DEF LoadAnswered, PanelLoaded
    <3>2. panel'.name = panel.name /\ panel'.document = d
      BY <2>1, <3>1, LoadedFields
    <3> QED
      BY <3>1, <3>2
  <2>4. ASSUME NEW d, Change(d) PROVE Shown
    <3>1. /\ panel' = PanelChanged(panel, d)
          /\ applied' = IF panel.name = "scoring_weights" THEN d ELSE applied
      BY <2>4 DEF Change, PanelChanged
    <3>2. panel'.name = panel.name /\ panel'.document = d
      BY <2>1, <3>1, ChangedFields
    <3> QED
      BY <3>1, <3>2
  <2>5. CASE ResetWorkspace
    BY <2>5 DEF ResetWorkspace
  <2>6. CASE PanelNext
    BY <2>2, <2>3, <2>4, <2>5, <2>6
       DEF PanelNext, Leave, ReadConfig, LoadFailed, EditWeights, EditSources, AskRemove,
       CancelRemove, ConfirmRemove, SaveLocally, RunFailed
  <2>7. CASE PutNext
    BY <2>7 DEF PutNext, Save, SaveAnswered, SaveFailed, OtherSaves, panelVars
  <2>8. CASE TriggerNext
    BY <2>8 DEF TriggerNext, RunNow, OtherRuns, RunAnswered
  <2>9. CASE UNCHANGED settingsVars
    BY <2>9 DEF settingsVars
  <2> QED
    BY <1>1, <2>6, <2>7, <2>8, <2>9 DEF SettingsNext, panelVars
<1> QED
  BY <1>1, SettingsAlways, PTL DEF SettingsSpec, AppliedIsShown
=============================================================================

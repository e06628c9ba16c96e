----------------------------- MODULE MCWorkplace -----------------------------
(* One source with one story, which the last run found at tier 1, and a    *)
(* run finds at tier 1, at tier 3, or not at all; a window of one run, so  *)
(* that a run evicts the one before; two threads, so that triggers can     *)
(* race; two saves, so that versions can.                                  *)
EXTENDS Workplace, TLC

MCNames == {"scoring_weights", "source_registry"}

MCSeed == [n \in MCNames |->
  IF n = "scoring_weights" THEN {"w0"} ELSE {"s1"}]

MCDocuments == [n \in MCNames |->
  IF n = "scoring_weights" THEN {{"w0"}, {"w1"}} ELSE SUBSET {"s1"}]

MCDrafts == [n \in MCNames |->
  MCDocuments[n] \cup
    IF n = "scoring_weights" THEN {{"bad"}} ELSE {{"s1", "bad"}, {"bad"}}]

MCUrlOf == [i \in {"i1"} |-> "u"]
MCSourceOf == [i \in {"i1"} |-> "s1"]
MCArchived == {[id |-> "i1", tier |-> 1]}

MCSymmetry == Permutations(Puts) \cup Permutations(Triggers)
-----------------------------------------------------------------------------
(* The client, a target, two competitors in different cities, a supplier.  *)
MCCompanies ==
  LET Co(id, rel, city, needs) ==
        [id |-> id, relationship |-> rel, city |-> city, needs |-> needs]
  IN {Co(1, "self", "A", {}), Co(2, "target", "A", {"x", "y"}),
      Co(3, "competitor", "B", {}), Co(4, "competitor", "A", {}),
      Co(5, "supplier", "A", {})}

(* Signals with a confirmed relationship; with one under review first; one *)
(* that a person accepted; one without the text of its evidence; one of no *)
(* scope, as the mapping of older feeds leaves it.                         *)
MCSignals ==
  LET Rel(c, status) == [account |-> c, status |-> status, confidence |-> 95,
                         evidenceIds |-> TRUE, evidence |-> TRUE]
      Sig(id, type, at, c, rels) ==
        [id |-> id, type |-> type, at |-> at, confidence |-> 90, nullUrl |-> FALSE,
         scope |-> "specific_account", subject |-> c, relationships |-> rels]
  IN {Sig(1, "contract_win", 1, 2, <<Rel(2, "confirmed")>>),
      Sig(2, "contract_win", 1, 2, <<Rel(2, "needs_review"), Rel(2, "confirmed")>>),
      Sig(3, "supplier_delay", 2, 5, <<Rel(5, "confirmed")>>),
      Sig(4, "contract_win", 1, 3, <<Rel(3, "confirmed")>>),
      Sig(5, "contract_win", 2, 4, <<Rel(4, "confirmed")>>),
      Sig(6, "contract_win", 2, 2, <<[Rel(2, "confirmed") EXCEPT !.evidence = FALSE]>>),
      Sig(7, "contract_win", 2, 2, <<Rel(2, "accepted")>>),
      [Sig(8, "competitor_won_deal", 2, 3, <<>>) EXCEPT !.scope = "undefined"]}

(* The configuration of the repository for these types, and a heavier one. *)
MCConfigs ==
  LET Weigh(r, o, c, p) == [risk |-> r, opportunity |-> o, capacityRisk |-> c,
                          competitivePressure |-> p]
      Rule(r, s, t, f) == [relationship |-> r, source |-> s, target |-> t, factor |-> f]
      own == [minConfidence |-> 70, cap |-> 97, decay |-> 6,
              weights |-> [supplier_delay |-> Weigh(25, 0, 15, 0),
                           contract_win |-> Weigh(0, 30, 0, 0),
                           competitor_won_deal |-> Weigh(15, 0, 0, 30)],
              thresholds |-> Weigh(60, 30, 50, 30),
              rules |-> <<Rule("competitor", "opportunity", "competitivePressure", 5),
                          Rule("competitor", "competitivePressure", "competitivePressure", 4),
                          Rule("supplier", "risk", "capacityRisk", 5),
                          Rule("supplier", "capacityRisk", "capacityRisk", 5),
                          Rule("target", "opportunity", "opportunity", 4)>>]
  IN {own, [own EXCEPT !.weights.contract_win.opportunity = 70]}
-----------------------------------------------------------------------------
(* An account with a pipeline on a round thousand, and not; without one;   *)
(* healthy, with a long quotation that has a duration; with a quotation of *)
(* our words, no capacity and three stops; and none at all.                *)
MCBooks ==
  LET book == [account |-> TRUE, pipeline |-> 3850, won |-> 0, lost |-> 0, score |-> 78,
               risk |-> 41, fit |-> 66, records |-> 1, scored |-> TRUE, bound |-> TRUE,
               quote |-> Silent, hours |-> 320, lead |-> 21, stops |-> 4]
  IN {book, [book EXCEPT !.pipeline = 3846], [book EXCEPT !.pipeline = Blank],
      [book EXCEPT !.won = 9, !.quote = Wording({Spell(14)}, {"long"})],
      [book EXCEPT !.quote = Wording({}, {"pipeline"}), !.hours = Blank, !.stops = 3],
      [book EXCEPT !.account = FALSE, !.bound = FALSE, !.scored = FALSE]}

MCHints ==
  {[figures |-> figures, negated |-> negated] :
     figures \in {{}, {Spell(14)}}, negated \in BOOLEAN}
-----------------------------------------------------------------------------
(* An item that awaits its approval, and one that may be executed.         *)
MCRows ==
  LET Work(status, approval, owner) ==
        [status |-> status, approval |-> approval, execution |-> "not_started",
         external |-> 0, owner |-> owner]
  IN {Work("awaiting_approval", "pending", Unowned), Work("approved", "approved", "o1")}
-----------------------------------------------------------------------------
(* Two firms in two cities; the monitor mentions one of them.              *)
MCTownOf == [f \in {"f1", "f2"} |-> IF f = "f1" THEN "A" ELSE "B"]
MCMentions == [s \in {"n1"} |-> "f1"]
=============================================================================

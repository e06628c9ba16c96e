----------------------------- MODULE DecisionFeed -----------------------------
(***************************************************************************)
(* What the cockpit makes of the signals of a world snapshot: validation,  *)
(* scores, the view from the client's seat, alerts, recommendations and    *)
(* the order of the prospects (frontend/src/engine and app/intelligence.ts *)
(* under app/useWorld.ts), and where a signal that scores is told again:   *)
(* the page of its account, its timeline and its evidence.                 *)
(*                                                                         *)
(* A list that the code sorts by a total order is a set here; occurrence   *)
(* keeps the places that matter.  Identifiers are numbers, in the order of *)
(* localeCompare.  Confidences are hundredths, decay and factors tenths.   *)
(* Math.round is exact here, where the code rounds a binary fraction.      *)
(***************************************************************************)
EXTENDS Integers, Sequences, SequencesExt, FiniteSetsExt, Functions

CONSTANTS
  Companies,     \* the accounts of the snapshot
  Signals,       \* the signals that a snapshot may hold
  Configs,       \* the documents that may be published as scoring configuration
  Capabilities,  \* PROFILE.capabilities
  MaxSignals,    \* bound on the signals of one snapshot
  Unset         \* no snapshot, no market filter

Dimensions == {"risk", "opportunity", "capacityRisk", "competitivePressure"}

(* Two signals of one identifier are the same: it is their key in the      *)
(* database.  A scoring document is what ScoringWeightsDocument lets pass, *)
(* with whole weights and thresholds.                                      *)
ASSUME DecisionFeedAssumption ==
  /\ \A s, t \in Signals : s.id = t.id => s = t
  /\ \A s \in Signals : s.id \in Int /\ s.at \in Int
  /\ IsFiniteSet(Companies) /\ \A c \in Companies : c.id \in Int
  /\ \A config \in Configs :
       /\ config.decay \in Nat /\ config.cap \in Nat
       /\ \A t \in DOMAIN config.weights, d \in Dimensions : config.weights[t][d] \in Int
       /\ \A d \in Dimensions : config.thresholds[d] \in Int
       /\ IsFiniteSet(DOMAIN config.rules) /\ DOMAIN config.rules \subseteq Int
       /\ \A n \in DOMAIN config.rules :
            config.rules[n].source \in Dimensions /\ config.rules[n].factor \in Int

VARIABLES
  received,  \* worldSnapshot.signals, Unset until they have come
  market,    \* the city of the market filter
  weights,   \* CONFIG
  world      \* what useWorld returns

feedVars == <<received, market, weights, world>>

Feeds == UNION {{s \in [1 .. n -> Signals] : IsInjective(s)} : n \in 0 .. MaxSignals}

(* Math.round of a ratio.                                                  *)
Nearest(n, d) == (2 * n + d) \div (2 * d)

Power(b, k) ==
  LET to[j \in 0 .. k] == IF j = 0 THEN 1 ELSE b * to[j - 1]
  IN to[k]

(* n times the decay of occurrence k + 1, over d.                          *)
Decayed(n, d, k, config) == Nearest(n * Power(config.decay, k), d * Power(10, k))
-----------------------------------------------------------------------------
(* validateSignals: a relationship needs the text of its evidence and a    *)
(* signal without a source address must leave the field out.               *)
IsValid(s, config) ==
  /\ \A i \in DOMAIN s.relationships : s.relationships[i].evidence
  /\ ~s.nullUrl
  /\ s.confidence >= config.minConfidence

(* isConfirmedAccountSignal                                                *)
IsConfirmed(s, r) ==
  /\ s.scope = "specific_account"
  /\ r.status = "confirmed"
  /\ r.confidence >= 80
  /\ r.evidenceIds
  /\ r.account = s.subject

(* Mutant: evidence that a person accepted scores too, as the drawer and   *)
(* the timeline have it.                                                   *)
ScoresAccepted(s, c) ==
  \/ s.scope = "undefined" /\ s.subject = c
  \/ /\ s.scope = "specific_account"
     /\ \E i \in DOMAIN s.relationships :
          LET r == s.relationships[i]
          IN r.account = c /\ (IsConfirmed(s, r) \/ r.status = "accepted")

ScoresSubject(s, c) ==
  \/ s.scope = "undefined" /\ s.subject = c
  \/ /\ s.scope = "specific_account"
     /\ \E i \in DOMAIN s.relationships :
          s.relationships[i].account = c /\ IsConfirmed(s, s.relationships[i])

(* Signal i of the feed has been detected later than j, or comes first by  *)
(* its identifier.                                                         *)
Before(f, i, j) ==
  \/ f[i].at > f[j].at
  \/ f[i].at = f[j].at /\ f[i].id < f[j].id

(* The contributions of one dimension: each repeat of a type is worth less *)
(* than the one before it.  Of the feed, the signals at the places kept    *)
(* are looked at.                                                          *)
Contributions(f, kept, c, dimension, config) ==
  LET mine == {i \in kept : ScoresSubject(f[i], c)}
      Weight(i) == IF f[i].type \in DOMAIN config.weights
                   THEN config.weights[f[i].type][dimension] ELSE 0
      Earlier(i) == Cardinality({j \in mine : f[j].type = f[i].type /\ Before(f, j, i)})
      Of(i) == [signal |-> f[i].id, type |-> f[i].type, occurrence |-> Earlier(i) + 1,
                delta |-> Decayed(Weight(i), 1, Earlier(i), config)]
  IN {k \in {Of(i) : i \in mine} : k.delta # 0}

Clamp(n, cap) == Max({0, Min({n, cap})})

ScoreSubject(f, kept, c, config) ==
  [d \in Dimensions |->
     LET cs == Contributions(f, kept, c, d, config)
         raw == SumFunctionOnSet([k \in cs |-> k.delta], cs)
     IN [score |-> Clamp(raw, config.cap), raw |-> raw, contributions |-> cs]]
-----------------------------------------------------------------------------
(* The candidates of applySelfLens for one dimension.                      *)
Candidates(accounts, self, scores, target, config) ==
  {k \in {[source |-> c.id, rule |-> n,
           base |-> scores[c.id][config.rules[n].source].score * config.rules[n].factor] :
            c \in {c \in accounts : c.id # self.id},
            n \in {n \in DOMAIN config.rules : config.rules[n].target = target}} :
     /\ scores[k.source][config.rules[k.rule].source].score > 0
     /\ \E c \in accounts :
          c.id = k.source /\ c.relationship = config.rules[k.rule].relationship}

(* Mutant: the candidates decay in the order of the accounts.              *)
AheadBySource(k, l) == k.source < l.source \/ (k.source = l.source /\ k.rule < l.rule)

(* The largest counts full and the rest decay.                             *)
Ahead(k, l) ==
  \/ k.base > l.base
  \/ k.base = l.base /\ k.source < l.source
  \/ k.base = l.base /\ k.source = l.source /\ k.rule < l.rule

SelfLens(accounts, scores, config) ==
  LET self == CHOOSE c \in accounts : c.relationship = "self"
  IN [d \in Dimensions |->
       LET ks == Candidates(accounts, self, scores, d, config)
           Delta(k) == Decayed(k.base, 10, Cardinality({l \in ks : Ahead(l, k)}), config)
       IN Min({config.cap, scores[self.id][d].score + SumFunctionOnSet([k \in ks |-> Delta(k)], ks)})]

(* The headline of an alert is its largest contribution.                   *)
TopReason(cs) ==
  IF cs = {} THEN "no contributing signals"
  ELSE (CHOOSE k \in cs : \A l \in cs :
          k.delta > l.delta \/ (k.delta = l.delta /\ k.signal <= l.signal)).type

Alerts(scores, config) ==
  {[subject |-> a.c, dimension |-> a.d, score |-> scores[a.c][a.d].score,
    high |-> scores[a.c][a.d].score >= config.thresholds[a.d] + 20,
    reason |-> TopReason(scores[a.c][a.d].contributions)] :
     a \in {a \in [c : DOMAIN scores, d : Dimensions] :
              scores[a.c][a.d].score >= config.thresholds[a.d]}}
-----------------------------------------------------------------------------
Fit(c) ==
  IF c.needs = {} THEN 0
  ELSE Nearest(100 * Cardinality(c.needs \cap Capabilities), Cardinality(c.needs))

Recommend(c, score) ==
  LET At(d) == score[d].score
      Say(action, priority) == [action |-> action, priority |-> priority]
  IN CASE c.relationship \in {"target", "customer"} ->
            IF At("opportunity") >= 60 /\ Fit(c) >= 60 THEN Say("pursue", 3)
            ELSE IF At("opportunity") >= 40
            THEN Say(IF Fit(c) >= 50 THEN "pursue" ELSE "watch", 2)
            ELSE Say("watch", 1)
       [] c.relationship = "competitor" ->
            IF At("opportunity") >= 60 THEN Say("defend", 3)
            ELSE Say("watch", IF At("competitivePressure") >= 30 THEN 2 ELSE 1)
       [] c.relationship = "supplier" ->
            IF At("risk") >= 50 THEN Say("derisk", 3) ELSE Say("watch", 1)
       [] OTHER ->
            IF At("risk") >= 60 THEN Say("derisk", 3) ELSE Say("expand", 2)

(* buildProspects: the places of the prospects.  Its topSignal is the      *)
(* first of the most confident signals as they came, and is left out.      *)
Places(accounts, scores) ==
  LET sold == {c \in accounts : c.relationship \in {"target", "customer"}}
      Value(c) == scores[c.id]["opportunity"].score + Fit(c)
  IN [c \in sold |-> Cardinality({b \in sold :
        Value(b) > Value(c) \/ (Value(b) = Value(c) /\ b.id <= c.id)})]

Analyze(accounts, f, read, config) ==
  LET kept == {i \in read : IsValid(f[i], config)}
      scores == [c \in {a.id : a \in accounts} |-> ScoreSubject(f, kept, c, config)]
  IN [valid |-> {f[i] : i \in kept},
      scores |-> scores,
      alerts |-> Alerts(scores, config),
      lens |-> IF \E c \in accounts : c.relationship = "self"
               THEN SelfLens(accounts, scores, config) ELSE [d \in {} |-> 0],
      advice |-> [c \in accounts |-> Recommend(c, scores[c.id])],
      places |-> Places(accounts, scores)]

InMarket(city) == {c \in Companies : city = Unset \/ c.city = city}

(* useWorld                                                                *)
World(f, city, config) ==
  LET accounts == InMarket(city)
      Kept(s) == city = Unset \/ s.subject \in {c.id : c \in accounts}
  IN IF f = Unset THEN Analyze({}, <<>>, {}, config)
     ELSE Analyze(accounts, f, {i \in DOMAIN f : Kept(f[i])}, config)
-----------------------------------------------------------------------------
FeedInit ==
  /\ received = Unset
  /\ market = Unset
  /\ weights \in Configs
  /\ world = World(received, market, weights)

(* A snapshot: the next one may hold a signal more, at any place, since    *)
(* the backend orders its signals by when it last wrote them, or the same  *)
(* signals in another order.                                               *)
SnapshotArrives ==
  /\ \/ received = Unset /\ received' \in Feeds
     \/ /\ received # Unset /\ Len(received) < MaxSignals
        /\ \E s \in Signals \ ToSet(received), i \in 1 .. Len(received) + 1 :
             received' = InsertAt(received, i, s)
     \/ /\ received # Unset
        /\ \E i \in 1 .. Len(received) - 1 :
             received' = [received EXCEPT ![i] = received[i + 1], ![i + 1] = received[i]]
  /\ world' = World(received', market, weights)
  /\ UNCHANGED <<market, weights>>

PickMarket(city) ==
  /\ city # market
  /\ market' = city
  /\ world' = World(received, city, weights)
  /\ UNCHANGED <<received, weights>>

(* applyScoringConfig: the version is part of the key of the query, and    *)
(* the snapshot of the new key is not there yet.                           *)
ApplyScoringConfig(config) ==
  /\ config # weights
  /\ weights' = config
  /\ received' = Unset
  /\ world' = World(Unset, market, config)
  /\ UNCHANGED market

FeedNext ==
  \/ SnapshotArrives
  \/ \E city \in {c.city : c \in Companies} \cup {Unset} : PickMarket(city)
  \/ \E config \in Configs : ApplyScoringConfig(config)

FeedSpec == FeedInit /\ [][FeedNext]_feedVars
-----------------------------------------------------------------------------
(* Where a signal is told of again.                                        *)

(* relationshipBackedSignals: the page of an account reads the snapshot    *)
(* itself, not what validation has left of it.                             *)
Backed(c) ==
  {s \in (IF received = Unset THEN {} ELSE ToSet(received)) : \E i \in DOMAIN s.relationships :
     s.relationships[i].account = c /\ s.subject = c /\ IsConfirmed(s, s.relationships[i])}

PlainStatus(r) == r.status \in {"confirmed", "accepted"}

(* relationForSignal: the first of its subject, or the first.              *)
RelationOf(s) ==
  LET own == {i \in DOMAIN s.relationships : s.relationships[i].account = s.subject}
  IN s.relationships[IF own = {} THEN 1 ELSE Min(own)]

(* buildSignalEvidence and its record.                                     *)
Evidence(s) ==
  [conclusion |->
     IF s.relationships # <<>> /\ PlainStatus(RelationOf(s)) THEN "confirmed"
     ELSE IF s.scope = "specific_account" THEN "unresolved" ELSE "supported",
   opens |-> IF s.scope = "specific_account" THEN s.subject ELSE "/programs"]

(* The titles of buildAccountTimeline about the relationships of a signal, *)
(* before it keeps the newest 14 of its events.                            *)
TimelineTitles(c, s) ==
  {CASE PlainStatus(s.relationships[i]) -> "Evidence confirmed"
     [] s.relationships[i].status = "rejected" -> "Relationship rejected"
     [] OTHER -> "Relationship awaiting review" :
     i \in {i \in DOMAIN s.relationships : s \in world.valid /\ s.subject = c}}

(* The evidence line of rankingExplanation: signals that score, and those  *)
(* that are attached to the account.                                       *)
EvidenceLine(c) ==
  [scored |-> {s \in world.valid : ScoresSubject(s, c)},
   attached |-> {s \in world.valid : s.subject = c}]

(* A number is never without its story: a linked signal that moves a score *)
(* of an account is listed as backed on the page of that account, told in  *)
(* its timeline as confirmed evidence, opens as evidence about that        *)
(* account, and is among the signals that its ranking counts as attached.  *)
ScoredIsTold ==
  \A c \in DOMAIN world.scores :
    /\ EvidenceLine(c).scored \subseteq EvidenceLine(c).attached
    /\ \A k \in UNION {world.scores[c][e].contributions : e \in Dimensions} :
         \A s \in {s \in world.valid : s.id = k.signal /\ s.scope # "undefined"} :
           /\ s \in Backed(c)
           /\ "Evidence confirmed" \in TimelineTitles(c, s)
           /\ Evidence(s).opens = c /\ Evidence(s).conclusion # "supported"

Urgency(alerts, c, d) ==
  Max({0} \cup {IF a.high THEN 2 ELSE 1 : a \in {a \in alerts : a.subject = c /\ a.dimension = d}})

(* No weight and no factor is below zero, as in the configuration of the   *)
(* repository; the schema of the document would take others.               *)
Adds(config) ==
  /\ \A t \in DOMAIN config.weights, d \in Dimensions : config.weights[t][d] >= 0
  /\ \A n \in DOMAIN config.rules : config.rules[n].factor >= 0

(* More evidence never speaks against itself, in whatever order it comes:  *)
(* while market and configuration stay, and the configuration weighs       *)
(* nothing below zero, a snapshot that holds at least the same signals     *)
(* lowers no score, none of the client's own view, no alert and no         *)
(* priority of an advice.  (Repeats decay, the network decays by rank, and *)
(* both are rounded; none of it may turn growth into a fall.)              *)
NeverLess(old, new) ==
  /\ \A c \in DOMAIN old.scores, d \in Dimensions :
       /\ new.scores[c][d].score >= old.scores[c][d].score
       /\ Urgency(new.alerts, c, d) >= Urgency(old.alerts, c, d)
  /\ \A d \in DOMAIN old.lens : new.lens[d] >= old.lens[d]
  /\ \A c \in DOMAIN old.advice : new.advice[c].priority >= old.advice[c].priority

MoreNeverLess ==
  [][  (/\ market' = market /\ weights' = weights /\ Adds(weights)
        /\ received # Unset /\ received' # Unset /\ ToSet(received) \subseteq ToSet(received'))
     => NeverLess(world, world')]_feedVars
=============================================================================

------------------------------- MODULE Drafting -------------------------------
(***************************************************************************)
(* How the browser composes a deliverable (frontend/src/agents): an agent  *)
(* collects facts from the world and writes a template, the language model *)
(* may rewrite it, a second pass may revise that, and gates decide whether *)
(* the result is returned, replaced by the template or refused.            *)
(*                                                                         *)
(* A text is the figures that it tells and the marks of its wording that a *)
(* gate looks for.  A figure is a number in tenths and the form it has:    *)
(* "plain", "sized" ($ or %) or "unit" (of time, parts, deals).  Amounts   *)
(* are in hundreds of dollars and below a million, where money() changes   *)
(* its unit.                                                               *)
(***************************************************************************)
EXTENDS Integers, Sequences, SequencesExt

CONSTANTS
  Books,     \* what the world may hold of the account that is written about
  Hints,     \* what the user may write as instructions
  MaxDrafts, \* bound on the deliverables asked for
  Blank      \* no amount, no capacity

(* What the world quotes was not written by the model of this run, and the *)
(* stops of a route are a list.                                            *)
ASSUME DraftingAssumption ==
  \A b \in Books : /\ b.stops \in Nat
                   /\ b.quote = [figures |-> b.quote.figures, marks |-> b.quote.marks,
                                 model |-> FALSE]

VARIABLES
  ai,        \* the state of aiStatus.ts
  job,       \* the run of runAgent: its stage, template, document and path
  drafts     \* the runs started (counts against MaxDrafts)

draftVars == <<ai, job, drafts>>

NoJob == [stage |-> "idle"]

Nearest10(n) == (2 * n + 10) \div 20

Plain(v) == [n |-> 10 * v, form |-> "plain"]
Percent(v) == [n |-> 10 * v, form |-> "sized"]
Spell(v) == [n |-> 10 * v, form |-> "unit"]

(* money() below a million; a missing amount is Number(null).              *)
Money(a) == [n |-> IF a = Blank THEN 0 ELSE 10 * Nearest10(a), form |-> "sized"]

Wording(figures, marks) == [figures |-> figures, marks |-> marks, model |-> FALSE]
Joined(t, u) == [t EXCEPT !.figures = @ \cup u.figures, !.marks = @ \cup u.marks]
Silent == Wording({}, {})

(* A section: its text blocks in order, and its tables together.           *)
Section(texts, table) == [texts |-> texts, table |-> table]
-----------------------------------------------------------------------------
(* healthLabel(pipelineHealth(opportunities)), one of them open.           *)
Health(b) ==
  LET open == IF b.pipeline = Blank THEN 0 ELSE (2 * b.pipeline + 7000) \div 14000
      score == 40 + (IF open > 35 THEN 35 ELSE open) + 3 * b.won - 4 * b.lost
  IN IF b.pipeline = Blank /\ b.won + b.lost = 0 THEN {}
     ELSE IF score >= 65 THEN {"healthy"}
     ELSE IF score >= 45 THEN {} ELSE {"at risk"}

(* What every agent's plan has: figures among the facts by number, amount  *)
(* or text; the sections; and whether the agent itself refuses.            *)
Plan(numbers, amounts, said, sections) ==
  [numbers |-> numbers, amounts |-> amounts \ {Blank}, said |-> said,
   sections |-> sections, refused |-> FALSE]

WeeklyMemo(b) ==
  Plan({b.score, b.fit, b.risk}, {b.pipeline}, b.quote.figures \cup {Plain(b.score)},
       <<Section(<<Wording({Money(b.pipeline)}, {"verdict"})>>, Silent),
         Section(<<>>, Joined(Wording({Plain(b.score), Percent(b.fit)}, {}), b.quote)),
         Section(<<>>, Joined(Wording({Plain(b.risk)}, {}), b.quote)),
         Section(<<Wording({Plain(b.score)}, {})>>, Silent)>>)

(* The sources section counts the records of each source.                  *)
MeetingBrief(b) ==
  LET pipeline == Wording({Money(b.pipeline)}, Health(b))
  IN [Plan({b.score, b.risk, b.fit}, {b.pipeline}, b.quote.figures \cup {Plain(b.score)},
           <<Section(<<>>, Silent),
             Section(<<Joined(Joined(pipeline, b.quote), Wording({Plain(b.score)}, {}))>>, Silent),
             Section(<<Silent>>, pipeline),
             Section(<<b.quote>>, Silent),
             Section(<<Wording({Plain(b.score)}, {})>>, Silent),
             Section(<<Silent>>, Silent), Section(<<Silent>>, Silent),
             Section(<<Wording({Plain(b.records)}, {})>>, Silent)>>)
      EXCEPT !.refused = ~b.account]

(* "AS9100", "5-axis", "20-minute" stand in the letter, not in its facts.  *)
Outreach(b) ==
  [Plan({b.score, b.fit, b.records}, {}, b.quote.figures,
        <<Section(<<Silent>>, Silent), Section(<<Silent>>, Silent),
          Section(<<Joined(Wording({Plain(5), Plain(20), Plain(9100)}, {"letter"}), b.quote)>>,
                  Silent),
          Section(<<Joined(Wording({Plain(b.score)}, {}), b.quote)>>, Silent),
          Section(<<Wording({Plain(b.records)}, {})>>, Silent)>>)
   EXCEPT !.refused = ~b.account]

(* Its publicHook also replaces "pipeline", the banned word of the quotes. *)
SalesPitch(b) ==
  [Plan({}, {}, b.quote.figures,
        <<Section(<<Silent>>, Silent), Section(<<Silent>>, Silent),
          Section(<<Wording({Plain(5), Plain(9100)}, {})>>, Silent),
          Section(<<[b.quote EXCEPT !.marks = @ \ {"pipeline"}]>>, Silent),
          Section(<<Wording({Plain(20)}, {})>>, Silent)>>)
   EXCEPT !.refused = ~b.account]

CapabilityBrief(b) ==
  [Plan({b.fit, b.records, 30} \cup ({b.hours, b.lead} \ {Blank}), {}, b.quote.figures,
        <<Section(<<Joined(Wording({Plain(b.records)}, {}), b.quote)>>, Silent),
          Section(<<>>, Silent), Section(<<Silent>>, Silent),
          Section(<<Wording({Plain(h) : h \in {b.hours} \ {Blank}} \cup {Plain(5), Spell(30)}
                           \cup {Spell(d) : d \in {b.lead} \ {Blank}}, {})>>, Silent),
          Section(<<Wording({}, {"verdict"})>>, Silent)>>)
   EXCEPT !.refused = ~b.account \/ b.hours = Blank]

(* What is said of the stops is not among the facts.                       *)
Itinerary(b) ==
  LET stop(i) == Joined(Wording({Plain(i), Plain(b.score)}, {}), b.quote)
      first == IF b.stops < 4 THEN b.stops ELSE 4
  IN Plan({b.stops}, {}, {},
          <<Section(<<>>, Silent), Section(<<>>, Silent),
            Section([i \in 1 .. b.stops |-> stop(i)], Silent),
            Section([i \in 1 .. first |->
                       Joined(Wording({Plain(i), Plain(20)}, {}), b.quote)], Silent),
            Section(<<Wording({Plain(60)}, {})>>, Silent)>>)

(* No metric of the deck has rows: it lists what is missing.               *)
BoardDeck(b) ==
  Plan({b.risk, 0}, {}, {},
       <<Section(<<Silent>>, Silent),
         Section(<<Wording({}, {"missing"})>>, Silent),
         Section(<<>>, Wording({Plain(b.risk)}, {})),
         Section(<<Silent>>, Silent)>>)

(* Asked for revenue by the wizard, for the pipeline by the analysis page, *)
(* whose quarter before is the same sum.                                   *)
Annotation(b, amount) ==
  Plan({0}, {amount}, {},
       <<Section(<<IF amount = Blank THEN Silent
                   ELSE Wording({Money(amount), Percent(0)}, {})>>, Silent)>>)

Plans(b) ==
  [weekly_memo |-> WeeklyMemo(b), meeting_brief |-> MeetingBrief(b),
   outreach |-> Outreach(b), sales_pitch |-> SalesPitch(b),
   capabilities_assessment |-> CapabilityBrief(b), itinerary |-> Itinerary(b),
   board_deck |-> BoardDeck(b), analysis_annotation |-> Annotation(b, Blank),
   figure |-> [Annotation(b, b.pipeline) EXCEPT !.refused = b.pipeline = Blank]]

Agents == DOMAIN Plans(CHOOSE b \in Books : TRUE)
Prospect(agent) == agent \in {"outreach", "sales_pitch"}
-----------------------------------------------------------------------------
Prose(sections) == UNION {ToSet(sections[i].texts) : i \in DOMAIN sections}
Tables(sections) == {sections[i].table : i \in DOMAIN sections}

(* checkGrounding: the figures of the text blocks, the names beside.       *)
Grounds(plan, hint, f) ==
  LET said == plan.said \cup hint.figures
  IN IF f.form = "unit" THEN f \in said
     ELSE \/ f.n \in {10 * v : v \in plan.numbers} \cup {1000 * a : a \in plan.amounts}
          \/ \E s \in said : s.form # "unit" /\ s.n = f.n

Ungrounded(sections, plan, hint) ==
  {f \in UNION {t.figures : t \in Prose(sections)} : ~Grounds(plan, hint, f)}

IsGrounded(sections, plan, hint) ==
  /\ Ungrounded(sections, plan, hint) = {}
  /\ \A t \in Prose(sections) : "stranger" \notin t.marks

(* findVoiceViolations                                                     *)
SpeaksWell(sections) == \A t \in Prose(sections) : "voice" \notin t.marks

(* The agent's validate, where it can still fail.                          *)
Validates(j, sections) ==
  /\ j.agent = "board_deck" => \E t \in Prose(sections) : "missing" \in t.marks
  /\ j.agent = "itinerary" => j.book.stops >= 4

(* validateAudienceAndForm.  The recipient, subject and body of an email   *)
(* are what its prospect sees.  Evidence is bound to the account it names. *)
FitsForm(j, sections) ==
  LET visible == IF j.agent = "outreach" THEN SubSeq(sections, 1, 3) ELSE sections
      shown == Prose(visible) \cup Tables(visible)
  IN /\ Prospect(j.agent) => \A t \in shown : "pipeline" \notin t.marks
     /\ j.agent = "outreach" =>
          LET body == sections[3].texts[1]
          IN "letter" \in body.marks /\ "long" \notin body.marks
     /\ j.agent = "weekly_memo" =>
          "verdict" \in sections[1].texts[1].marks /\ j.book.bound

(* assessDeliverableQuality: the figures that are sized or have a unit, in *)
(* text and tables; conclusions whose metric is available; no source both  *)
(* available and not, which one "unavailable" of the user's already is.    *)
IsSound(sections, plan, hint, book) ==
  LET shown == Prose(sections) \cup Tables(sections)
      exact == {10 * v : v \in plan.numbers} \cup {1000 * a : a \in plan.amounts}
      short == {a \in plan.amounts : a >= 10}
      said == {f.n : f \in {s \in plan.said \cup hint.figures : s.form # "plain"}}
  IN /\ \A t \in shown : \A f \in t.figures :
          f.form = "plain" \/ f.n \in exact \cup short \cup said
     /\ \A t \in shown : "healthy" \notin t.marks
     /\ \A t \in shown : "at risk" \in t.marks => book.scored
     /\ ~hint.negated

Passes(j, sections) ==
  /\ Validates(j, sections)
  /\ FitsForm(j, sections)
  /\ IsSound(sections, j.plan, j.hint, j.book)

(* The end of runAgent: returned with its path, or an error.               *)
Closed(j, sections, path) ==
  IF Passes(j, sections)
    THEN [j EXCEPT !.stage = "done", !.sections = sections, !.path = path]
    ELSE [j EXCEPT !.stage = "refused"]

(* withFallbackNotice: a rejection is told in a section of its own, with   *)
(* the figures it found, stripped of $ and %.                              *)
Notice(figures) ==
  Section(<<Wording({[f EXCEPT !.form = IF @ = "unit" THEN "unit" ELSE "plain"] :
                    f \in figures}, {})>>, Silent)

FallBackTo(j, told) ==
  Closed(j, IF told = <<>> THEN j.plan.sections
            ELSE Append(j.plan.sections, Notice(told[1])), "template")
-----------------------------------------------------------------------------
(* What the model writes: the facts exactly or as money() has them, or     *)
(* nothing of note; or with something that a gate is there to find.        *)
Proses(j) ==
  LET form == {"verdict", "letter", "missing"}
      exact == {[n |-> 1000 * a, form |-> "sized"] : a \in j.plan.amounts}
      text(figures, marks) == [Wording(figures, marks) EXCEPT !.model = TRUE]
  IN {text(exact, form), text({}, {}),
      text({Money(a) : a \in j.plan.amounts}, form),
      text(exact \cup {[n |-> 7770, form |-> "sized"]}, form),
      text(exact \cup {Spell(14)}, form),
      text(exact, form \cup {"voice"}), text(exact, form \cup {"stranger"}),
      text(exact, form \cup {"pipeline"}), text(exact, form \cup {"healthy"})}

(* applyLlmSections: the first text block of a section is replaced.        *)
Rewritten(sections, which, prose) ==
  [i \in DOMAIN sections |->
     IF i \in which /\ sections[i].texts # <<>>
       THEN [sections[i] EXCEPT !.texts[1] = prose] ELSE sections[i]]

Rewrites(j) ==
  {Rewritten(j.sections, which, prose) :
     which \in {DOMAIN j.sections, {1}, DOMAIN j.sections \ {1}}, prose \in Proses(j)}

(* composeOnce: one retry, and then the template.                          *)
Composed(j, sections) ==
  LET failed(told) == IF j.retry THEN FallBackTo(j, told) ELSE [j EXCEPT !.retry = TRUE]
  IN IF ~IsGrounded(sections, j.plan, j.hint)
       THEN failed(<<Ungrounded(sections, j.plan, j.hint)>>)
     ELSE IF ~SpeaksWell(sections) THEN failed(<<>>)
     ELSE IF ~Validates(j, sections) THEN failed(<<{}>>)
     ELSE [j EXCEPT !.stage = "critique", !.sections = sections]

(* Mutant: the second pass checks the draft that it was given.             *)
RevisedUnchecked(j, sections) ==
  Closed(j, IF IsGrounded(j.sections, j.plan, j.hint) /\ SpeaksWell(j.sections)
               /\ Validates(j, j.sections)
              THEN sections ELSE j.sections, "model")

(* critiqueAndRevise: a revision that fails leaves the draft as it was.    *)
Revised(j, sections) ==
  Closed(j, IF IsGrounded(sections, j.plan, j.hint) /\ SpeaksWell(sections)
               /\ Validates(j, sections)
              THEN sections ELSE j.sections, "model")

(* A call that brought no sections: the template, or the draft as it was.  *)
Unanswered(j) ==
  IF j.stage = "compose" THEN FallBackTo(j, <<>>) ELSE Closed(j, j.sections, "model")
-----------------------------------------------------------------------------
DraftInit == ai = "unknown" /\ job = NoJob /\ drafts = 0

(* The effect of App that asks for the status when the page has loaded.    *)
AppChecks == ai = "unknown" /\ ai' = "checking" /\ UNCHANGED <<job, drafts>>

(* What follows the answer of checkAiStatus in maybeComposeWithLlm.        *)
Checked(j, status) ==
  IF status = "live" THEN [j EXCEPT !.stage = "compose"] ELSE FallBackTo(j, <<>>)

(* runAgent up to its first await.  No second run while one is busy.       *)
RunAgent(agent, book, hint) ==
  LET plan == Plans(book)[agent]
      run == [stage |-> "check", agent |-> agent, book |-> book, hint |-> hint,
              plan |-> plan, sections |-> plan.sections, retry |-> FALSE, path |-> "none"]
  IN /\ job = NoJob /\ drafts < MaxDrafts
     /\ drafts' = drafts + 1
     /\ job' = IF plan.refused THEN [run EXCEPT !.stage = "refused"]
               ELSE IF ai \in {"live", "offline"} THEN Checked(run, ai) ELSE run
     /\ ai' = IF ai = "unknown" /\ ~plan.refused THEN "checking" ELSE ai

(* runHandshake ends: for the run that waits, too.                         *)
Handshake(status) ==
  /\ ai = "checking"
  /\ ai' = status
  /\ job' = IF job.stage = "check" THEN Checked(job, status) ELSE job
  /\ UNCHANGED drafts

Calling == job.stage \in {"compose", "critique"}

(* The call fails or times out, or has no text.                            *)
CallFails(status) ==
  /\ Calling
  /\ job' = Unanswered(job)
  /\ ai' = status
  /\ UNCHANGED drafts

(* The text is no JSON of sections, or the response no JSON.               *)
CallGarbled(status) ==
  /\ Calling
  /\ job' = [job EXCEPT !.stage = "refused"]
  /\ ai' = status
  /\ UNCHANGED drafts

CallAnswered ==
  /\ Calling
  /\ \E sections \in Rewrites(job) :
       job' = IF job.stage = "compose" THEN Composed(job, sections)
              ELSE Revised(job, sections)
  /\ ai' = "live"
  /\ UNCHANGED drafts

(* The preview or the error has been read.                                 *)
PutAway ==
  /\ job.stage \in {"done", "refused"}
  /\ job' = NoJob
  /\ UNCHANGED <<ai, drafts>>

DraftNext ==
  \/ AppChecks
  \/ PutAway
  \/ \E agent \in Agents, book \in Books, hint \in Hints : RunAgent(agent, book, hint)
  \/ \E status \in {"live", "offline"} : Handshake(status)
  \/ \E status \in {"offline", ai} : CallFails(status) \/ CallGarbled(status)
  \/ CallAnswered

DraftSpec == DraftInit /\ [][DraftNext]_draftVars
-----------------------------------------------------------------------------
(* Every figure that the world or the user has given.                      *)
Given(b, hint) ==
  {10 * v : v \in {0, b.score, b.risk, b.fit, b.records, b.stops, 30} \cup
                  ({b.hours, b.lead} \ {Blank})}
    \cup {1000 * a : a \in {b.pipeline} \ {Blank}}
    \cup {f.n : f \in b.quote.figures \cup hint.figures}

(* A document that is returned tells nothing that was made up on its way.  *)
(* What the model wrote, in either pass, is in it only if its path says    *)
(* so, and then every figure is one of the world's or the user's, every    *)
(* name is known and the wording is the house's; a prospect reads no word  *)
(* of ours; no document claims health, of which there is no metric         *)
(* (llmCompose.ts:65-176, runAgent.ts:100-127).                            *)
DraftTold ==
  job.stage = "done" =>
    LET model == {t \in Prose(job.sections) : t.model}
        public == IF job.agent = "outreach" THEN SubSeq(job.sections, 1, 3)
                  ELSE job.sections
    IN /\ model # {} => job.path = "model"
       /\ \A t \in model : /\ {f.n : f \in t.figures} \subseteq Given(job.book, job.hint)
                           /\ t.marks \cap {"voice", "stranger"} = {}
       /\ Prospect(job.agent) => \A t \in Prose(public) : "pipeline" \notin t.marks
       /\ \A t \in Prose(job.sections) : "healthy" \notin t.marks
=============================================================================

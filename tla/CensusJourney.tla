----------------------------- MODULE CensusJourney -----------------------------
(***************************************************************************)
(* The cards of the Work Census that write: Start census on Scope, the     *)
(* seals on Work Chart (ratify, confirm an intent), and on Plan the        *)
(* period's seal, the moderation log and the finish times; with the        *)
(* backend handlers behind them.                                           *)
(*                                                                         *)
(* Several tabs of one tenant are open.  A handler looks at the rows and   *)
(* commits in two steps, without a lock, so two requests may look at the   *)
(* same rows before either commits.  Answers arrive in any order or not at *)
(* all, and a card that was left does not hear its answer.                 *)
(***************************************************************************)
EXTENDS Naturals, FiniteSets, Sequences, SequencesExt

CONSTANTS Tabs,      \* browser tabs, each with the name its user signs with
          Nobody,    \* an empty confirmed_by, a missing row
          Dates,     \* days a finish time may be logged for
          MaxRows,   \* MAX_ROWS_PER_UNIT
          Openings,  \* which card each tab opens first
          MaxActs    \* bound: clicks that write or navigate, and broken connections

Seals == {"ratified", "function", "workSystem", "strategy"}

Cards == {"start", "chart", "period", "outcome", "moderation", "times"}

ASSUME NobodyAssumption == Nobody \notin Tabs
ASSUME OpeningsAssumption == Openings \subseteq [Tabs -> Cards]
ASSUME BoundsAssumption == MaxRows \in Nat /\ MaxActs \in Nat

Signers == Tabs \cup {Nobody}

\* A work system row: who signed each seal.
WorkSystem == [Seals -> Signers]

\* Mutant: the third intent, added later, is not in the row.
DraftOfTwoIntents == [s \in Seals \ {"strategy"} |-> Nobody]

Draft == [s \in Seals |-> Nobody]

\* The rows of the tenant.
CensusRecord == {"none", "created", "started"}
OutcomeRecord == {"none", "not_measured", "measured"}

Rows == [exists : BOOLEAN, seals : WorkSystem, census : CensusRecord,
         outcome : OutcomeRecord, log : Seq(Tabs), times : SUBSET Dates]

NoRows == [exists |-> FALSE, seals |-> Draft, census |-> "none",
           outcome |-> "none", log |-> <<>>, times |-> {}]

\* What a card asks for when it mounts, and what its buttons send.  The four
\* requests of the start flow have names of their own.
ReadOf == [start |-> "censuses", chart |-> "ensure", period |-> "ensure",
           outcome |-> "outcome", moderation |-> "moderations", times |-> "times"]

StartFlow == {"flowEnsure", "flowRow", "flowStart", "flowReread"}

NamedOps == {ReadOf[c] : c \in Cards} \cup Seals \cup StartFlow \cup {"moderate"}

Ops == NamedOps \cup Dates

ASSUME DatesAssumption == IsFiniteSet(Dates) /\ Dates \cap NamedOps = {}

Stages == {"sent", "looked", "answered"}
Codes == {"none", "ok", "conflict", "full", "crash", "lost"}

Calls == [tab : Tabs, card : Cards, op : Ops, stage : Stages, heard : BOOLEAN,
          code : Codes, body : Rows]

VARIABLES db,       \* the tenant's rows
          wire,     \* the requests under way
          card,     \* the card each tab looks at
          shown,    \* the rows each card holds
          loaded,   \* whether the card's own read was answered
          error,    \* whether the card shows an error
          wrote,    \* history: what the backend acknowledged to the card
          tidy,     \* history: the card never had two requests at once, none lost
          alone,    \* history: no handler looked while another had yet to commit
          renamed,  \* history: a seal was signed over
          acts

vars == <<db, wire, card, shown, loaded, error, wrote, tidy, alone, renamed, acts>>

tabVars == <<card, shown, loaded, error, wrote, tidy>>

Call(t, c, op) == [tab |-> t, card |-> c, op |-> op, stage |-> "sent", heard |-> TRUE,
                   code |-> "none", body |-> NoRows]

Init == /\ db = NoRows
        /\ card \in Openings
        /\ wire = {Call(t, card[t], ReadOf[card[t]]) : t \in Tabs}
        /\ shown = [t \in Tabs |-> NoRows]
        /\ loaded = [t \in Tabs |-> FALSE]
        /\ error = [t \in Tabs |-> FALSE]
        /\ wrote = [t \in Tabs |-> {}]
        /\ tidy = [t \in Tabs |-> TRUE]
        /\ alone = TRUE
        /\ renamed = FALSE
        /\ acts = 0

Mine(t) == {c \in wire : c.tab = t /\ c.heard}

-----------------------------------------------------------------------------
(* The backend.                                                            *)

\* Mutant: confirming one intent writes the others as the form shows them.
AppliedWholeRow(c, rows) ==
  CASE c.op \in {"ensure", "flowEnsure"} -> [rows EXCEPT !.exists = TRUE]
    [] c.op \in Seals -> [rows EXCEPT !.seals = [Draft EXCEPT ![c.op] = c.tab]]
    [] c.op = "flowRow" -> [rows EXCEPT !.census = "created"]
    [] c.op = "flowStart" -> [rows EXCEPT !.census = "started"]
    [] c.op = "moderate" -> [rows EXCEPT !.log = Append(@, c.tab)]
    [] c.op \in Dates -> [rows EXCEPT !.times = @ \cup {c.op}]
    [] c.op = "outcome" -> [rows EXCEPT !.outcome = "not_measured"]
    [] OTHER -> rows

\* What an operation does to the rows if nothing stands in its way.
Applied(c, rows) ==
  CASE c.op \in {"ensure", "flowEnsure"} -> [rows EXCEPT !.exists = TRUE]
    [] c.op \in Seals -> [rows EXCEPT !.seals[c.op] = c.tab]
    [] c.op = "flowRow" -> [rows EXCEPT !.census = "created"]
    [] c.op = "flowStart" -> [rows EXCEPT !.census = "started"]
    [] c.op = "moderate" -> [rows EXCEPT !.log = Append(@, c.tab)]
    [] c.op \in Dates -> [rows EXCEPT !.times = @ \cup {c.op}]
    [] c.op = "outcome" -> [rows EXCEPT !.outcome = "not_measured"]
    [] OTHER -> rows

\* The part of the rows a route answers with.
Answer(c, rows) ==
  CASE c.op \in {"ensure", "flowEnsure"} \cup Seals ->
         [NoRows EXCEPT !.exists = rows.exists, !.seals = rows.seals]
    [] c.op \in {"censuses", "flowRow", "flowStart", "flowReread"} ->
         [NoRows EXCEPT !.census = rows.census]
    [] c.op = "outcome" -> [NoRows EXCEPT !.outcome = rows.outcome]
    [] c.op = "moderations" -> [NoRows EXCEPT !.log = Reverse(rows.log)]
    [] c.op = "moderate" -> [NoRows EXCEPT !.log = <<c.tab>>]
    [] OTHER -> [NoRows EXCEPT !.times = rows.times]

\* Mutant: the sixth row is not refused.
LooksUncapped(c) ==
  CASE c.op \in Seals /\ db.seals[c.op] # Nobody -> "conflict"
    [] c.op = "flowStart" /\ db.census = "started" -> "conflict"
    [] c.op \in Dates /\ c.op \in db.times -> "conflict"
    [] c.op \in {"ensure", "flowEnsure"} /\ db.exists -> "ok"
    [] c.op = "flowRow" /\ db.census # "none" -> "ok"
    [] c.op = "outcome" /\ db.outcome # "none" -> "ok"
    [] c.op \in {"censuses", "moderations", "times", "flowReread"} -> "ok"
    [] OTHER -> "none"

\* What a handler answers from the rows it looked at; "none" if it goes on to
\* write.
Looks(c) ==
  CASE c.op \in Seals /\ db.seals[c.op] # Nobody -> "conflict"
    [] c.op = "flowStart" /\ db.census = "started" -> "conflict"
    [] c.op \in Dates /\ Cardinality(db.times) >= MaxRows -> "full"
    [] c.op \in Dates /\ c.op \in db.times /\ Cardinality(db.times) < MaxRows -> "conflict"
    [] c.op \in {"ensure", "flowEnsure"} /\ db.exists -> "ok"
    [] c.op = "flowRow" /\ db.census # "none" -> "ok"
    [] c.op = "outcome" /\ db.outcome # "none" -> "ok"
    [] c.op \in {"censuses", "moderations", "times", "flowReread"} -> "ok"
    [] OTHER -> "none"

\* The unique keys: tenant and code, tenant and work system, work system,
\* unit and moment.  The insert fails and no handler catches it.
Violates(c) == \/ c.op \in {"ensure", "flowEnsure"} /\ db.exists
               \/ c.op = "flowRow" /\ db.census # "none"
               \/ c.op = "outcome" /\ db.outcome # "none"
               \/ c.op \in Dates /\ c.op \in db.times

\* A request on the wire goes on: apiFetch hears of it once.
Becomes(c, d) == wire' = (wire \ {c}) \cup {d}

Look(c) ==
  /\ c.stage = "sent"
  /\ LET code == Looks(c) IN
       IF code = "none"
         THEN /\ Becomes(c, [c EXCEPT !.stage = "looked"])
              /\ alone' = (alone /\ \A d \in wire : d.stage # "looked")
         ELSE /\ Becomes(c, [c EXCEPT !.stage = "answered", !.code = code,
                                      !.body = IF code = "ok" THEN Answer(c, db) ELSE NoRows])
              /\ alone' = alone
  /\ UNCHANGED <<db, tabVars, renamed, acts>>

Commit(c) ==
  /\ c.stage = "looked"
  /\ IF Violates(c)
       THEN /\ Becomes(c, [c EXCEPT !.stage = "answered", !.code = "crash"])
            /\ UNCHANGED <<db, renamed>>
       ELSE /\ db' = Applied(c, db)
            /\ renamed' = (renamed \/ (c.op \in Seals /\ db.seals[c.op] # Nobody))
            /\ Becomes(c, [c EXCEPT !.stage = "answered", !.code = "ok", !.body = Answer(c, db')])
  /\ UNCHANGED <<tabVars, alone, acts>>

\* The connection breaks: before the handler looked, before it committed, or
\* on the way back.  fetch rejects.
Lose(c) == /\ acts < MaxActs /\ acts' = acts + 1
           /\ c.stage = "sent" \/ c.code = "ok"
           /\ Becomes(c, [c EXCEPT !.stage = "answered", !.code = "lost", !.body = NoRows])
           /\ UNCHANGED <<db, tabVars, alone, renamed>>

\* POST /work-systems/{id}/outcome/measure, by someone with the number and its source.
RecordMeasurement == /\ acts < MaxActs /\ acts' = acts + 1
                     /\ db.exists
                     /\ db.outcome # "measured"
                     /\ db' = [db EXCEPT !.outcome = "measured"]
                     /\ alone' = (alone /\ \A d \in wire : d.stage # "looked")
                     /\ UNCHANGED <<wire, tabVars, renamed>>

-----------------------------------------------------------------------------
(* The tab.                                                                *)

MayAct == acts < MaxActs /\ acts' = acts + 1

\* A card asks again: its request replaces the one whose answer it still
\* waits for.
Asks(t, calls) == {c \in calls : ~(c.tab = t /\ c.heard /\ c.op = ReadOf[card[t]])}
                    \cup {Call(t, card[t], ReadOf[card[t]])}

\* The buttons.  busy: the card's own flag for that button.
Busy(t, ops) == \E c \in Mine(t) : c.op \in ops

Press(t, op) == /\ MayAct
                /\ wire' = wire \cup {Call(t, card[t], op)}
                /\ tidy' = [tidy EXCEPT ![t] = @ /\ Mine(t) = {}]
                /\ error' = [error EXCEPT ![t] = @ /\ card[t] = "chart"]
                /\ UNCHANGED <<db, card, shown, loaded, wrote, alone, renamed>>

\* StartCensus: the button is there until the card holds a started census.
onStart(t) == /\ card[t] = "start"
              /\ shown[t].census # "started"
              /\ ~Busy(t, StartFlow)
              /\ Press(t, "flowEnsure")

\* A seal's form is there once the work system is known and the seal is not
\* signed; each has its own busy flag.  PeriodFocusRow on Plan:
PeriodFocusRow(t) == /\ card[t] = "period"
                     /\ shown[t].exists /\ shown[t].seals["strategy"] = Nobody
                     /\ ~Busy(t, {"strategy"})

confirmPeriod(t) == PeriodFocusRow(t) /\ Press(t, "strategy")

\* IntentCard, twice on Work Chart.
IntentCard(t, s) == /\ card[t] = "chart" /\ s \in {"function", "workSystem"}
                    /\ shown[t].exists /\ shown[t].seals[s] = Nobody
                    /\ ~Busy(t, {s})

onConfirmIntent(t, s) == IntentCard(t, s) /\ Press(t, s)

\* "Ratify Work System", on the journey's card.
ratify(t) == /\ card[t] = "chart"
             /\ shown[t].exists /\ shown[t].seals["ratified"] = Nobody
             /\ ~Busy(t, {"ratified"})
             /\ Press(t, "ratified")

\* ModerationSection: reason and name are typed in.
submitModeration(t) == /\ card[t] = "moderation"
                       /\ ~Busy(t, {"moderate"})
                       /\ Press(t, "moderate")

\* The form of KeyedTimes is there once the rows are, with the line "five is
\* the limit." or without it.
KeyedTimes(t) == /\ card[t] = "times"
                 /\ loaded[t]
                 /\ ~Busy(t, {"times"} \cup Dates)

\* ShadowTimes: a date, and minutes within bounds or none.
submitTime(t, d) == KeyedTimes(t) /\ Press(t, d)

\* Mutant: the card takes any row it gets for a started one.
HoldingStarted(c, held) ==
  CASE c.op = "moderate" -> [held EXCEPT !.log = c.body.log \o @]
    [] c.op = "flowReread" \/ c.op \in {"flowRow", "flowStart"} -> [held EXCEPT !.census = "started"]
    [] c.op \in Dates -> held
    [] c.op = "censuses" /\ c.body.census = "created" -> [held EXCEPT !.census = "started"]
    [] OTHER -> c.body

\* What the card holds once an answer is in.
Holding(c, held) ==
  CASE c.op = "moderate" -> [held EXCEPT !.log = c.body.log \o @]
    [] c.op = "flowReread" \/ c.op \in {"flowRow", "flowStart"} -> [held EXCEPT !.census = c.body.census]
    [] c.op \in Dates -> held
    [] OTHER -> c.body

Is409(c) == c.op = "flowStart" /\ c.code = "conflict"

\* Mutant: a refused start is sent again.
FlowStartsAgain(c) ==
  CASE c.op = "flowEnsure" /\ c.code = "ok" -> {"flowRow"}
    [] c.op = "flowRow" /\ c.code = "ok" /\ c.body.census # "started" -> {"flowStart"}
    [] Is409(c) -> {"flowStart"}
    [] OTHER -> {}

\* Mutant: "already started" is an error like any other.
FlowGoesOnUnlessRefused(c) ==
  CASE c.op = "flowEnsure" /\ c.code = "ok" -> {"flowRow"}
    [] c.op = "flowRow" /\ c.code = "ok" /\ c.body.census # "started" -> {"flowStart"}
    [] OTHER -> {}

\* startOfferToOnboardingCensus: the request after this one, if any.
FlowGoesOn(c) ==
  CASE c.op = "flowEnsure" /\ c.code = "ok" -> {"flowRow"}
    [] c.op = "flowRow" /\ c.code = "ok" /\ c.body.census # "started" -> {"flowStart"}
    [] Is409(c) -> {"flowReread"}
    [] OTHER -> {}

\* Mutant: a saved time does not load the list again.
AsksAgainNever(c) == FALSE

\* ShadowTimes reloads after a save.
AsksAgain(c) == c.op \in Dates /\ c.code = "ok"

\* The backend acknowledged what the button stands for.
Acknowledges(c) == \/ c.code = "ok" /\ c.op \in Seals \cup Dates \cup {"moderate", "flowStart"}
                   \/ c.op = "flowRow" /\ c.code = "ok" /\ c.body.census = "started"
                   \/ Is409(c)

Hear(c) ==
  /\ c.stage = "answered"
  /\ LET t == c.tab
         onward == {[Call(t, c.card, op) EXCEPT !.heard = c.heard] : op \in FlowGoesOn(c)}
         rest == (wire \ {c}) \cup onward
     IN IF ~c.heard
          THEN wire' = rest /\ UNCHANGED tabVars
          ELSE /\ wire' = IF AsksAgain(c) THEN Asks(t, rest) ELSE rest
               /\ shown' = [shown EXCEPT ![t] = IF c.code = "ok" /\ onward = {} THEN Holding(c, @) ELSE @]
               /\ loaded' = [loaded EXCEPT ![t] = @ \/ (c.op = ReadOf[c.card] /\ c.code = "ok")]
               /\ error' = [error EXCEPT ![t] = @ \/ (c.code # "ok" /\ onward = {}
                                                       /\ c.op \notin {"outcome", "moderations"})]
               /\ wrote' = [wrote EXCEPT ![t] = IF Acknowledges(c) THEN @ \cup {c.op} ELSE @]
               /\ tidy' = [tidy EXCEPT ![t] = @ /\ c.code \notin {"lost", "crash"}]
               /\ UNCHANGED card
  /\ UNCHANGED <<db, alone, renamed, acts>>

\* Another card: everything it held is gone, and nobody hears what is under way.
Navigate(t, c) == /\ MayAct
                  /\ card' = [card EXCEPT ![t] = c]
                  /\ wire' = {IF d.tab = t THEN [d EXCEPT !.heard = FALSE] ELSE d : d \in wire}
                               \cup {Call(t, c, ReadOf[c])}
                  /\ shown' = [shown EXCEPT ![t] = NoRows]
                  /\ loaded' = [loaded EXCEPT ![t] = FALSE]
                  /\ error' = [error EXCEPT ![t] = FALSE]
                  /\ wrote' = [wrote EXCEPT ![t] = {}]
                  /\ tidy' = [tidy EXCEPT ![t] = TRUE]
                  /\ UNCHANGED <<db, alone, renamed>>

-----------------------------------------------------------------------------
Backend(c) == Look(c) \/ Commit(c)

UserStep == \E t \in Tabs : \/ onStart(t) \/ submitModeration(t)
                            \/ confirmPeriod(t) \/ ratify(t)
                            \/ \E s \in Seals : onConfirmIntent(t, s)
                            \/ \E d \in Dates : submitTime(t, d)
                            \/ \E c \in Cards : Navigate(t, c)

AnswerStep == \E c \in wire : Backend(c) \/ Hear(c)

Next == UserStep \/ AnswerStep \/ RecordMeasurement \/ (\E c \in wire : Lose(c))

\* Every request is answered and every answer heard; nobody has to click.
Spec == Init /\ [][Next]_vars /\ WF_vars(AnswerStep)
-----------------------------------------------------------------------------
TypeOK == /\ db \in Rows
          /\ wire \subseteq Calls
          /\ card \in [Tabs -> Cards]
          /\ shown \in [Tabs -> Rows]
          /\ loaded \in [Tabs -> BOOLEAN]
          /\ error \in [Tabs -> BOOLEAN]
          /\ wrote \in [Tabs -> SUBSET Ops]
          /\ tidy \in [Tabs -> BOOLEAN]
          /\ alone \in BOOLEAN
          /\ renamed \in BOOLEAN
          /\ acts \in 0 .. MaxActs

\* What the census may break when two handlers overlap, it breaks only then:
\* a name signed over another, a sixth finish time, a failed insert.
OnlyOverlapBreaks == alone => /\ ~renamed
                              /\ Cardinality(db.times) <= MaxRows
                              /\ \A c \in wire : c.code # "crash"

\* Whatever overlaps, nothing is taken back: no seal becomes unsigned, a
\* started census stays started, log entries and times are only added.
Kept == /\ db.exists => db'.exists
        /\ \A s \in Seals : db.seals[s] # Nobody => db'.seals[s] # Nobody
        /\ db.census = "started" => db'.census = "started"
        /\ db.census # "none" => db'.census # "none"
        /\ db.outcome = "measured" => db'.outcome = "measured"
        /\ IsPrefix(db.log, db'.log)
        /\ db.times \subseteq db'.times

\* Over every step of every tab and handler.
NothingTakenBack == [][Kept]_vars

\* The card holds what was acknowledged to it.
Shows(t, op) == CASE op \in Seals -> shown[t].seals[op] # Nobody
                  [] op \in Dates -> op \in shown[t].times
                  [] op = "moderate" -> Contains(shown[t].log, t)
                  [] OTHER -> shown[t].census = "started"

\* "Persisted - survives a refresh": a card that is at rest, and that never
\* had two requests under way at once, shows every write it was told had
\* succeeded, without an error; a lost race for Start settles on the started row.
WritesShown == \A t \in Tabs :
  tidy[t] /\ Mine(t) = {} => \A op \in wrote[t] : Shows(t, op) /\ (op \in StartFlow => ~error[t])

\* A card is never ahead of the rows: nothing signed, started, logged or
\* measured is shown that the backend does not have.
NothingInvented == \A t \in Tabs :
  /\ \A s \in Seals : shown[t].seals[s] # Nobody => db.seals[s] # Nobody
  /\ shown[t].census = "started" => db.census = "started"
  /\ shown[t].outcome = "measured" => db.outcome = "measured"
  /\ shown[t].times \subseteq db.times
  /\ \A u \in Tabs : Contains(shown[t].log, u) => Contains(db.log, u)

\* The Start button comes back.
StartEnds == \A t \in Tabs : Busy(t, StartFlow) ~> ~Busy(t, StartFlow)
=============================================================================

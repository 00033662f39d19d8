-------------------------- MODULE CensusJourneyProofs --------------------------
(***************************************************************************)
(* Theorems of CensusJourney for every set of tabs and dates, every cap of *)
(* finish times and every bound.                                           *)
(***************************************************************************)
EXTENDS CensusJourney, FiniteSetTheorems, TLAPS

\* The operations by name.
LEMMA OpNames ==
  /\ NamedOps = {"censuses", "ensure", "outcome", "moderations", "times", "flowEnsure", "flowRow",
                 "flowStart", "flowReread", "moderate"} \cup Seals
  /\ \A c \in Cards : ReadOf[c] \in Ops
  /\ \A op \in Ops : op \in Dates \/ op \in NamedOps
  /\ \A op \in Dates : op \notin NamedOps
<1>1. {ReadOf[c] : c \in Cards} = {"censuses", "ensure", "outcome", "moderations", "times"}
  BY DEF ReadOf, Cards
<1> QED BY <1>1, DatesAssumption DEF NamedOps, Ops, StartFlow

LEMMA NoRowsType == NoRows \in Rows
  BY DEF NoRows, Rows, Draft, WorkSystem, Signers, CensusRecord, OutcomeRecord

\* A record of rows keeps its type when one field changes.
LEMMA RowsEdit ==
  ASSUME NEW rows \in Rows
  PROVE  /\ \A b \in BOOLEAN : [rows EXCEPT !.exists = b] \in Rows
         /\ \A w \in WorkSystem : [rows EXCEPT !.seals = w] \in Rows
         /\ \A r \in CensusRecord : [rows EXCEPT !.census = r] \in Rows
         /\ \A r \in OutcomeRecord : [rows EXCEPT !.outcome = r] \in Rows
         /\ \A l \in Seq(Tabs) : [rows EXCEPT !.log = l] \in Rows
         /\ \A d \in SUBSET Dates : [rows EXCEPT !.times = d] \in Rows
  BY DEF Rows

LEMMA AppliedType ==
  ASSUME NEW c \in Calls, NEW rows \in Rows
  PROVE  Applied(c, rows) \in Rows
<1> USE OpNames
<1>1. c.op \in Ops /\ c.tab \in Tabs /\ rows.log \in Seq(Tabs) /\ rows.times \in SUBSET Dates
  BY DEF Calls, Rows
<1>2. CASE c.op \in {"ensure", "flowEnsure"}
  BY <1>2, RowsEdit DEF Applied, Seals
<1>3. CASE c.op \in Seals
  <2>1. [rows.seals EXCEPT ![c.op] = c.tab] \in WorkSystem
    BY <1>1 DEF Rows, WorkSystem, Signers
  <2>2. Applied(c, rows) = [rows EXCEPT !.seals = [rows.seals EXCEPT ![c.op] = c.tab]]
    BY <1>3 DEF Applied, Seals
  <2> QED BY <2>1, <2>2, RowsEdit
<1>4. CASE c.op \in {"flowRow", "flowStart"}
  BY <1>4, RowsEdit DEF Applied, Seals, CensusRecord
<1>5. CASE c.op = "moderate"
  <2>1. Append(rows.log, c.tab) \in Seq(Tabs)
    BY <1>1
  <2>2. Applied(c, rows) = [rows EXCEPT !.log = Append(rows.log, c.tab)]
    BY <1>5 DEF Applied, Seals
  <2> QED BY <2>1, <2>2, RowsEdit
<1>6. CASE c.op \in Dates
  <2>1. Applied(c, rows) = [rows EXCEPT !.times = rows.times \cup {c.op}]
    BY <1>6 DEF Applied
  <2> QED BY <2>1, <1>1, <1>6, RowsEdit
<1>7. CASE c.op = "outcome"
  BY <1>7, RowsEdit DEF Applied, Seals, OutcomeRecord
<1>8. CASE c.op \in {"censuses", "moderations", "times", "flowReread"}
  BY <1>8 DEF Applied, Seals
<1> QED BY <1>1, <1>2, <1>3, <1>4, <1>5, <1>6, <1>7, <1>8

LEMMA AnswerType ==
  ASSUME NEW c \in Calls, NEW rows \in Rows
  PROVE  Answer(c, rows) \in Rows
<1> USE OpNames, NoRowsType
<1>1. c.op \in Ops /\ c.tab \in Tabs
  BY DEF Calls
<1>2. rows.exists \in BOOLEAN /\ rows.seals \in WorkSystem /\ rows.census \in CensusRecord
      /\ rows.outcome \in OutcomeRecord /\ rows.log \in Seq(Tabs) /\ rows.times \in SUBSET Dates
  BY DEF Rows
<1>3. CASE c.op \in {"ensure", "flowEnsure"} \cup Seals
  <2>1. Answer(c, rows) = [NoRows EXCEPT !.exists = rows.exists, !.seals = rows.seals]
    BY <1>3 DEF Answer, Seals
  <2> QED BY <2>1, <1>2 DEF Rows
<1>4. CASE c.op \in {"censuses", "flowRow", "flowStart", "flowReread"}
  <2>1. Answer(c, rows) = [NoRows EXCEPT !.census = rows.census]
    BY <1>4 DEF Answer, Seals
  <2> QED BY <2>1, <1>2, RowsEdit
<1>5. CASE c.op = "outcome"
  <2>1. Answer(c, rows) = [NoRows EXCEPT !.outcome = rows.outcome]
    BY <1>5 DEF Answer, Seals
  <2> QED BY <2>1, <1>2, RowsEdit
<1>6. CASE c.op = "moderations"
  <2>1. Reverse(rows.log) \in Seq(Tabs)
    BY <1>2 DEF Reverse
  <2>2. Answer(c, rows) = [NoRows EXCEPT !.log = Reverse(rows.log)]
    BY <1>6 DEF Answer, Seals
  <2> QED BY <2>1, <2>2, RowsEdit
<1>7. CASE c.op = "moderate"
  <2>1. <<c.tab>> \in Seq(Tabs)
    BY <1>1
  <2>2. Answer(c, rows) = [NoRows EXCEPT !.log = <<c.tab>>]
    BY <1>7 DEF Answer, Seals
  <2> QED BY <2>1, <2>2, RowsEdit
<1>8. CASE c.op \in Dates \cup {"times"}
  <2>1. Answer(c, rows) = [NoRows EXCEPT !.times = rows.times]
    BY <1>8 DEF Answer, Seals
  <2> QED BY <2>1, <1>2, RowsEdit
<1> QED BY <1>1, <1>3, <1>4, <1>5, <1>6, <1>7, <1>8

\* One write adds at most one finish time, and only a logged time adds one.
LEMMA AppliedTimes ==
  ASSUME TypeOK, NEW c \in Calls,
         Cardinality(db.times) <= MaxRows,
         c.op \in Dates => Cardinality(db.times) < MaxRows
  PROVE  Cardinality(Applied(c, db).times) <= MaxRows
<1> USE OpNames
<1>1. c.op \in Ops /\ db \in Rows /\ IsFiniteSet(db.times) /\ Cardinality(db.times) \in Nat
  BY FS_Subset, FS_CardinalityType, DatesAssumption DEF Calls, TypeOK, Rows
<1>2. CASE c.op \in Dates
  <2>1. Applied(c, db).times = db.times \cup {c.op}
    BY <1>1, <1>2 DEF Applied, Rows
  <2> DEFINE more == db.times \cup {c.op}
  <2>2. Cardinality(more) = Cardinality(db.times) \/ Cardinality(more) = Cardinality(db.times) + 1
    BY <1>1, FS_AddElement
  <2>3. Cardinality(more) \in Nat
    BY <1>1, <2>2
  <2> QED BY <1>1, <1>2, <2>1, <2>2, <2>3, BoundsAssumption
<1>3. CASE c.op \notin Dates
  <2>1. Applied(c, db).times = db.times
    BY <1>1, <1>3 DEF Applied, Rows, Seals
  <2> QED BY <2>1
<1> QED BY <1>2, <1>3

-----------------------------------------------------------------------------
(* Types of the requests.                                                  *)

LEMMA CallType ==
  ASSUME NEW t \in Tabs, NEW c \in Cards, NEW op \in Ops
  PROVE  /\ Call(t, c, op) \in Calls
         /\ Call(t, c, op).stage = "sent" /\ Call(t, c, op).code = "none"
         /\ Call(t, c, op).op = op
  BY NoRowsType DEF Call, Calls, Stages, Codes

\* An answered request.
LEMMA AnsweredType ==
  ASSUME NEW c \in Calls, NEW code \in Codes, NEW body \in Rows
  PROVE  /\ [c EXCEPT !.stage = "answered", !.code = code, !.body = body] \in Calls
         /\ [c EXCEPT !.stage = "answered", !.code = code] \in Calls
         /\ [c EXCEPT !.stage = "looked"] \in Calls
         /\ [c EXCEPT !.heard = FALSE] \in Calls
  BY DEF Calls, Stages, Codes

LEMMA LooksType ==
  ASSUME NEW c \in Calls, TypeOK
  PROVE  Looks(c) \in {"none", "ok", "conflict", "full"}
<1> USE OpNames
<1>1. c.op \in Ops /\ Cardinality(db.times) \in Nat
  BY FS_Subset, FS_CardinalityType, DatesAssumption DEF Calls, TypeOK, Rows
<1>2. CASE c.op \in Seals
  BY <1>1, <1>2 DEF Looks, Seals
<1>3. CASE c.op \in Dates
  BY <1>1, <1>3, BoundsAssumption DEF Looks
<1>4. CASE c.op \notin Seals \cup Dates
  BY <1>1, <1>4 DEF Looks
<1> QED BY <1>2, <1>3, <1>4

\* A handler that goes on to write found nothing in its way.
LEMMA LooksNone ==
  ASSUME NEW c \in Calls, TypeOK, Looks(c) = "none"
  PROVE  /\ ~Violates(c)
         /\ c.op \in Seals => db.seals[c.op] = Nobody
         /\ c.op \in Dates => Cardinality(db.times) < MaxRows
<1> USE OpNames
<1>1. c.op \in Ops /\ Cardinality(db.times) \in Nat
  BY FS_Subset, FS_CardinalityType, DatesAssumption DEF Calls, TypeOK, Rows
<1>2. CASE c.op \in Seals
  BY <1>1, <1>2 DEF Looks, Seals, Violates
<1>3. CASE c.op \in Dates
  BY <1>1, <1>3, BoundsAssumption DEF Looks, Violates, Seals
<1>4. CASE c.op \notin Seals \cup Dates
  BY <1>1, <1>4 DEF Looks, Violates
<1> QED BY <1>2, <1>3, <1>4

\* What a handler finds depends on its operation alone.
LEMMA LooksOfOp ==
  ASSUME NEW c, NEW d, c.op = d.op
  PROVE  Looks(c) = Looks(d)
  BY DEF Looks

-----------------------------------------------------------------------------
(* Type correctness.                                                       *)

LEMMA TypeInit == Init => TypeOK
<1> SUFFICES ASSUME Init PROVE TypeOK
  OBVIOUS
<1>1. card \in [Tabs -> Cards]
  BY OpeningsAssumption DEF Init
<1>2. wire \subseteq Calls
  BY <1>1, OpNames, CallType DEF Init
<1>3. db \in Rows /\ shown \in [Tabs -> Rows]
  BY NoRowsType DEF Init
<1>4. loaded \in [Tabs -> BOOLEAN] /\ error \in [Tabs -> BOOLEAN] /\ tidy \in [Tabs -> BOOLEAN]
      /\ wrote \in [Tabs -> SUBSET Ops]
  BY DEF Init
<1>5. alone \in BOOLEAN /\ renamed \in BOOLEAN
  BY DEF Init
<1>6. acts \in 0 .. MaxActs
  BY BoundsAssumption DEF Init
<1>7. card \in [Tabs -> Cards]
  BY <1>1
<1> QED BY <1>2, <1>3, <1>4, <1>5, <1>6, <1>7 DEF TypeOK

\* Every button sends one request.
UserSends(t) == \E op \in Ops : Press(t, op)

LEMMA ButtonsSend ==
  ASSUME NEW t \in Tabs,
         \/ onStart(t) \/ submitModeration(t) \/ confirmPeriod(t) \/ ratify(t)
         \/ (\E s \in Seals : onConfirmIntent(t, s)) \/ (\E d \in Dates : submitTime(t, d))
  PROVE  UserSends(t)
<1> USE OpNames DEF UserSends
<1>1. CASE onStart(t)
  BY <1>1 DEF onStart, Ops
<1>2. CASE submitModeration(t)
  BY <1>2 DEF submitModeration, Ops
<1>3. CASE confirmPeriod(t)
  BY <1>3 DEF confirmPeriod, Seals, Ops
<1>4. CASE ratify(t)
  BY <1>4 DEF ratify, Seals, Ops
<1>5. CASE \E s \in Seals : onConfirmIntent(t, s)
  BY <1>5 DEF onConfirmIntent, Ops
<1>6. CASE \E d \in Dates : submitTime(t, d)
  BY <1>6 DEF submitTime, Ops
<1> QED BY <1>1, <1>2, <1>3, <1>4, <1>5, <1>6

LEMMA ActsType == TypeOK /\ MayAct => acts' \in 0 .. MaxActs
  BY BoundsAssumption DEF TypeOK, MayAct

LEMMA PressType ==
  ASSUME TypeOK, NEW t \in Tabs, NEW op \in Ops, Press(t, op)
  PROVE  TypeOK'
<1>1. wire' \subseteq Calls
  BY CallType DEF TypeOK, Press
<1> QED BY <1>1, ActsType DEF TypeOK, Press

LEMMA NavigateType ==
  ASSUME TypeOK, NEW t \in Tabs, NEW c \in Cards, Navigate(t, c)
  PROVE  TypeOK'
<1>1. wire' \subseteq Calls
  <2>1. \A d \in wire : [d EXCEPT !.heard = FALSE] \in Calls
    BY AnsweredType, NoRowsType DEF TypeOK, Codes
  <2> QED BY <2>1, CallType, OpNames DEF TypeOK, Navigate
<1>2. card' \in [Tabs -> Cards] /\ shown' \in [Tabs -> Rows] /\ loaded' \in [Tabs -> BOOLEAN]
      /\ error' \in [Tabs -> BOOLEAN] /\ wrote' \in [Tabs -> SUBSET Ops] /\ tidy' \in [Tabs -> BOOLEAN]
  BY NoRowsType DEF TypeOK, Navigate
<1> QED BY <1>1, <1>2, ActsType DEF TypeOK, Navigate

\* A step that replaces one request by another one of the type.
LEMMA BecomesType ==
  ASSUME TypeOK, NEW c, NEW d \in Calls, Becomes(c, d)
  PROVE  wire' \subseteq Calls
  BY DEF TypeOK, Becomes

LEMMA LookType ==
  ASSUME TypeOK, NEW c \in wire, Look(c)
  PROVE  TypeOK'
<1>1. c \in Calls /\ db \in Rows
  BY DEF TypeOK
<1>2. Looks(c) \in Codes
  BY <1>1, LooksType DEF Codes
<1>3. wire' \subseteq Calls
  <2>1. CASE Looks(c) = "none"
    BY <1>1, <2>1, AnsweredType, BecomesType, NoRowsType DEF Look, Codes
  <2>2. CASE Looks(c) # "none"
    <3> DEFINE body == IF Looks(c) = "ok" THEN Answer(c, db) ELSE NoRows
               d == [c EXCEPT !.stage = "answered", !.code = Looks(c), !.body = body]
    <3>1. body \in Rows
      BY <1>1, AnswerType, NoRowsType
    <3> HIDE DEF body
    <3>2. d \in Calls
      BY <1>1, <1>2, <3>1, AnsweredType
    <3>3. Becomes(c, d)
      BY <2>2 DEF Look, body
    <3> QED BY <3>2, <3>3, BecomesType
  <2> QED BY <2>1, <2>2
<1>4. alone' \in BOOLEAN
  BY DEF TypeOK, Look
<1> QED BY <1>3, <1>4 DEF TypeOK, Look, tabVars

LEMMA CommitType ==
  ASSUME TypeOK, NEW c \in wire, Commit(c)
  PROVE  TypeOK'
<1>1. c \in Calls /\ db \in Rows
  BY DEF TypeOK
<1>2. db' \in Rows
  BY <1>1, AppliedType DEF Commit
<1>3. wire' \subseteq Calls
  <2>1. Answer(c, db') \in Rows
    BY <1>1, <1>2, AnswerType
  <2>2. CASE Violates(c)
    <3>1. [c EXCEPT !.stage = "answered", !.code = "crash"] \in Calls
      BY <1>1, AnsweredType, NoRowsType DEF Codes
    <3> QED BY <2>2, <3>1, BecomesType DEF Commit
  <2>3. CASE ~Violates(c)
    <3>1. [c EXCEPT !.stage = "answered", !.code = "ok", !.body = Answer(c, db')] \in Calls
      BY <1>1, <2>1, AnsweredType DEF Codes
    <3> QED BY <2>3, <3>1, BecomesType DEF Commit
  <2> QED BY <2>2, <2>3
<1>4. renamed' \in BOOLEAN
  BY DEF TypeOK, Commit
<1> QED BY <1>2, <1>3, <1>4 DEF TypeOK, Commit, tabVars

LEMMA LoseType ==
  ASSUME TypeOK, NEW c \in wire, Lose(c)
  PROVE  TypeOK'
<1>1. c \in Calls
  BY DEF TypeOK
<1>2. wire' \subseteq Calls
  BY <1>1, AnsweredType, NoRowsType DEF TypeOK, Lose, Becomes, Codes
<1>3. acts' \in 0 .. MaxActs
  BY BoundsAssumption DEF TypeOK, Lose
<1> QED BY <1>2, <1>3 DEF TypeOK, Lose, tabVars

LEMMA RecordMeasurementType ==
  ASSUME TypeOK, RecordMeasurement
  PROVE  TypeOK'
<1>1. db' \in Rows
  BY RowsEdit DEF TypeOK, RecordMeasurement, OutcomeRecord
<1>2. acts' \in 0 .. MaxActs
  BY BoundsAssumption DEF TypeOK, RecordMeasurement
<1> QED BY <1>1, <1>2 DEF TypeOK, RecordMeasurement, tabVars

LEMMA HoldingType ==
  ASSUME NEW c \in Calls, NEW held \in Rows
  PROVE  Holding(c, held) \in Rows
<1> USE OpNames
<1>1. c.op \in Ops /\ c.body \in Rows
  BY DEF Calls
<1>2. c.body.census \in CensusRecord /\ c.body.log \in Seq(Tabs) /\ held.log \in Seq(Tabs)
  BY <1>1 DEF Rows
<1>3. CASE c.op = "moderate"
  <2>1. c.body.log \o held.log \in Seq(Tabs)
    BY <1>2
  <2>2. Holding(c, held) = [held EXCEPT !.log = c.body.log \o held.log]
    BY <1>3 DEF Holding, Seals
  <2> QED BY <2>1, <2>2, RowsEdit
<1>4. CASE c.op \in {"flowReread", "flowRow", "flowStart"}
  <2>1. Holding(c, held) = [held EXCEPT !.census = c.body.census]
    BY <1>4 DEF Holding, Seals
  <2> QED BY <2>1, <1>2, RowsEdit
<1>5. CASE c.op \in Dates
  BY <1>5 DEF Holding
<1>6. CASE c.op \notin {"moderate", "flowReread", "flowRow", "flowStart"} \cup Dates
  BY <1>1, <1>6 DEF Holding
<1> QED BY <1>3, <1>4, <1>5, <1>6

\* The requests that go on from an answer.
LEMMA FlowType == \A c : FlowGoesOn(c) \subseteq Ops
<1>1. \A c : FlowGoesOn(c) \subseteq {"flowRow", "flowStart", "flowReread"}
  BY DEF FlowGoesOn, Is409
<1> QED BY <1>1, OpNames DEF Ops

\* What Hear adds to the wire was sent a moment ago, and was not answered yet.
LEMMA HearWire ==
  ASSUME TypeOK, NEW c \in wire, Hear(c)
  PROVE  \A d \in wire' : d \in wire \/ (d \in Calls /\ d.stage = "sent" /\ d.code = "none")
<1> DEFINE onward == {[Call(c.tab, c.card, op) EXCEPT !.heard = c.heard] : op \in FlowGoesOn(c)}
           rest == (wire \ {c}) \cup onward
<1>1. c \in Calls /\ c.tab \in Tabs /\ c.card \in Cards /\ c.heard \in BOOLEAN
  BY DEF TypeOK, Calls
<1>2. \A d \in onward : d \in Calls /\ d.stage = "sent" /\ d.code = "none"
  <2> SUFFICES ASSUME NEW op \in FlowGoesOn(c)
               PROVE  LET d == [Call(c.tab, c.card, op) EXCEPT !.heard = c.heard]
                      IN d \in Calls /\ d.stage = "sent" /\ d.code = "none"
    OBVIOUS
  <2>1. op \in Ops
    BY FlowType
  <2> QED BY <1>1, <2>1, CallType DEF Calls
<1>3. wire' = rest \/ wire' = Asks(c.tab, rest)
  BY DEF Hear
<1>4. LET d == Call(c.tab, card[c.tab], ReadOf[card[c.tab]])
      IN d \in Calls /\ d.stage = "sent" /\ d.code = "none"
  BY <1>1, CallType, OpNames DEF TypeOK
<1>5. \A d \in Asks(c.tab, rest) : d \in rest \/ d = Call(c.tab, card[c.tab], ReadOf[card[c.tab]])
  BY DEF Asks
<1> QED BY <1>2, <1>3, <1>4, <1>5

LEMMA HearType ==
  ASSUME TypeOK, NEW c \in wire, Hear(c)
  PROVE  TypeOK'
<1>1. c \in Calls /\ c.tab \in Tabs /\ c.op \in Ops
  BY DEF TypeOK, Calls
<1>2. wire' \subseteq Calls
  BY HearWire DEF TypeOK
<1>3. CASE ~c.heard
  BY <1>2, <1>3 DEF Hear, TypeOK, tabVars
<1>4. CASE c.heard
  <2>1. shown' \in [Tabs -> Rows]
    BY <1>1, <1>4, HoldingType DEF Hear, TypeOK
  <2>2. loaded' \in [Tabs -> BOOLEAN] /\ error' \in [Tabs -> BOOLEAN] /\ tidy' \in [Tabs -> BOOLEAN]
    BY <1>1, <1>4 DEF Hear, TypeOK
  <2>3. wrote' \in [Tabs -> SUBSET Ops]
    BY <1>1, <1>4 DEF Hear, TypeOK
  <2> QED BY <1>2, <1>4, <2>1, <2>2, <2>3 DEF Hear, TypeOK
<1> QED BY <1>3, <1>4

LEMMA TypeStep == TypeOK /\ [Next]_vars => TypeOK'
<1> SUFFICES ASSUME TypeOK, [Next]_vars PROVE TypeOK'
  OBVIOUS
<1>1. CASE UserStep
  BY <1>1, ButtonsSend, PressType, NavigateType DEF UserStep, UserSends
<1>2. CASE AnswerStep
  BY <1>2, LookType, CommitType, HearType DEF AnswerStep, Backend
<1>3. CASE RecordMeasurement
  BY <1>3, RecordMeasurementType
<1>4. CASE \E c \in wire : Lose(c)
  BY <1>4, LoseType
<1>5. CASE UNCHANGED vars
  BY <1>5 DEF TypeOK, vars
<1> QED BY <1>1, <1>2, <1>3, <1>4, <1>5 DEF Next

\* Every variable keeps its type: the rows the backend holds, the requests
\* under way and what each card shows.
THEOREM TypeCorrect == Spec => []TypeOK
<1>1. TypeOK /\ [Next]_vars => TypeOK'
  BY TypeStep
<1> QED BY TypeInit, <1>1, PTL DEF Spec

-----------------------------------------------------------------------------
(* What overlapping handlers may break, only they break.                   *)

\* While handlers came one at a time, the one that looked, if any, would find
\* the rows as it found them.
Overlap == alone => \A c \in wire : c.stage = "looked" =>
                      /\ Looks(c) = "none"
                      /\ \A d \in wire : d.stage = "looked" => d = c

IInv == TypeOK /\ Overlap /\ OnlyOverlapBreaks

LEMMA LooksSame ==
  ASSUME db' = db, NEW c
  PROVE  Looks(c)' = Looks(c)
  BY DEF Looks

\* A step that leaves the rows alone and brings no looking or failed request
\* keeps both.
LEMMA QuietStep ==
  ASSUME Overlap, OnlyOverlapBreaks, db' = db, alone' = alone, renamed' = renamed,
         \A d \in wire' : d \in wire \/ (d.stage # "looked" /\ d.code # "crash")
  PROVE  Overlap' /\ OnlyOverlapBreaks'
<1>1. Overlap'
  BY LooksSame DEF Overlap
<1>2. OnlyOverlapBreaks'
  BY DEF OnlyOverlapBreaks
<1> QED BY <1>1, <1>2

LEMMA InitIInv == Init => IInv
<1> SUFFICES ASSUME Init PROVE IInv
  OBVIOUS
<1>1. TypeOK
  BY TypeInit
<1>2. \A c \in wire : c.stage = "sent" /\ c.code = "none"
  BY DEF Init, Call
<1>3. Cardinality(db.times) = 0
  BY FS_EmptySet DEF Init, NoRows
<1> QED BY <1>1, <1>2, <1>3, BoundsAssumption DEF IInv, Overlap, OnlyOverlapBreaks, Init

LEMMA NavigateIInv ==
  ASSUME IInv, NEW t \in Tabs, NEW k \in Cards, Navigate(t, k)
  PROVE  Overlap' /\ OnlyOverlapBreaks'
<1> DEFINE Left(d) == IF d.tab = t THEN [d EXCEPT !.heard = FALSE] ELSE d
           new == Call(t, k, ReadOf[k])
<1>1. wire' = {Left(d) : d \in wire} \cup {new} /\ UNCHANGED <<db, alone, renamed>>
  BY DEF Navigate
<1>2. \A d \in wire : Left(d).op = d.op /\ Left(d).stage = d.stage /\ Left(d).code = d.code
  BY DEF IInv, TypeOK, Calls
<1>3. new.stage = "sent" /\ new.code = "none"
  BY CallType, OpNames
<1>4. Overlap'
  <2> SUFFICES ASSUME alone', NEW c \in wire', c.stage = "looked"
               PROVE  /\ Looks(c)' = "none"
                      /\ \A d \in wire' : d.stage = "looked" => d = c
    BY DEF Overlap
  <2>1. PICK e \in wire : c = Left(e)
    BY <1>1, <1>3
  <2>2. e.stage = "looked"
    BY <1>2, <2>1
  <2>3. Looks(e) = "none" /\ \A d \in wire : d.stage = "looked" => d = e
    BY <1>1, <2>2 DEF IInv, Overlap
  <2>4. Looks(c) = "none"
    BY <1>2, <2>1, <2>3, LooksOfOp
  <2>5. \A d \in wire' : d.stage = "looked" => d = c
    BY <1>1, <1>2, <1>3, <2>1, <2>3
  <2> QED BY <1>1, <2>4, <2>5, LooksSame
<1>5. OnlyOverlapBreaks'
  BY <1>1, <1>2, <1>3 DEF IInv, OnlyOverlapBreaks
<1> QED BY <1>4, <1>5

LEMMA PressIInv ==
  ASSUME IInv, NEW t \in Tabs, NEW op \in Ops, Press(t, op)
  PROVE  Overlap' /\ OnlyOverlapBreaks'
<1>1. \A d \in wire' : d \in wire \/ (d.stage # "looked" /\ d.code # "crash")
  BY CallType DEF Press, IInv, TypeOK
<1> QED BY <1>1, QuietStep DEF Press, IInv

LEMMA LookIInv ==
  ASSUME IInv, NEW c \in wire, Look(c)
  PROVE  Overlap' /\ OnlyOverlapBreaks'
<1>1. c \in Calls /\ db' = db /\ renamed' = renamed /\ TypeOK
  BY DEF Look, IInv, TypeOK
<1>2. CASE Looks(c) # "none"
  <2>1. Looks(c) # "crash"
    BY <1>1, LooksType
  <2>2. \A d \in wire' : d \in wire \/ (d.stage # "looked" /\ d.code # "crash")
    BY <1>1, <1>2, <2>1 DEF Look, Becomes, Calls
  <2> QED BY <1>1, <1>2, <2>2, QuietStep DEF Look, IInv
<1>3. CASE Looks(c) = "none"
  <2> DEFINE e == [c EXCEPT !.stage = "looked"]
  <2>1. wire' = (wire \ {c}) \cup {e}
        /\ alone' = (alone /\ \A d \in wire : d.stage # "looked")
    BY <1>3 DEF Look, Becomes
  <2>2. e.op = c.op /\ e.code = c.code /\ e.stage = "looked"
    BY <1>1 DEF Calls
  <2>3. Looks(e)' = "none"
    BY <1>1, <1>3, <2>2, LooksOfOp, LooksSame
  <2>4. Overlap'
    BY <2>1, <2>3 DEF Overlap
  <2>5. OnlyOverlapBreaks'
    BY <1>1, <2>1, <2>2 DEF IInv, OnlyOverlapBreaks
  <2> QED BY <2>4, <2>5
<1> QED BY <1>2, <1>3

LEMMA CommitIInv ==
  ASSUME IInv, NEW c \in wire, Commit(c)
  PROVE  Overlap' /\ OnlyOverlapBreaks'
<1> SUFFICES ASSUME alone' PROVE Overlap' /\ OnlyOverlapBreaks'
  BY DEF Overlap, OnlyOverlapBreaks
<1>1. c \in Calls /\ TypeOK /\ alone /\ c.stage = "looked"
  BY DEF Commit, IInv, TypeOK
<1>2. Looks(c) = "none" /\ \A d \in wire : d.stage = "looked" => d = c
  BY <1>1 DEF IInv, Overlap
<1>3. ~Violates(c) /\ (c.op \in Seals => db.seals[c.op] = Nobody)
      /\ (c.op \in Dates => Cardinality(db.times) < MaxRows)
  BY <1>1, <1>2, LooksNone
<1> DEFINE e == [c EXCEPT !.stage = "answered", !.code = "ok", !.body = Answer(c, db')]
<1>4. wire' = (wire \ {c}) \cup {e} /\ db' = Applied(c, db)
      /\ renamed' = (renamed \/ (c.op \in Seals /\ db.seals[c.op] # Nobody))
  BY <1>3 DEF Commit, Becomes
<1>5. e.stage = "answered" /\ e.code = "ok"
  BY <1>1 DEF Calls
<1>6. Overlap'
  BY <1>2, <1>4, <1>5 DEF Overlap
<1>7. ~renamed'
  BY <1>1, <1>3, <1>4 DEF IInv, OnlyOverlapBreaks
<1>8. Cardinality(db'.times) <= MaxRows
  BY <1>1, <1>3, <1>4, AppliedTimes DEF IInv, OnlyOverlapBreaks
<1>9. \A d \in wire' : d.code # "crash"
  BY <1>1, <1>4, <1>5 DEF IInv, OnlyOverlapBreaks
<1> QED BY <1>6, <1>7, <1>8, <1>9 DEF OnlyOverlapBreaks

LEMMA LoseIInv ==
  ASSUME IInv, NEW c \in wire, Lose(c)
  PROVE  Overlap' /\ OnlyOverlapBreaks'
<1>1. \A d \in wire' : d \in wire \/ (d.stage # "looked" /\ d.code # "crash")
  BY DEF Lose, Becomes, IInv, TypeOK, Calls
<1> QED BY <1>1, QuietStep DEF Lose, IInv

LEMMA HearIInv ==
  ASSUME IInv, NEW c \in wire, Hear(c)
  PROVE  Overlap' /\ OnlyOverlapBreaks'
<1>1. \A d \in wire' : d \in wire \/ (d.stage # "looked" /\ d.code # "crash")
  BY HearWire DEF IInv
<1> QED BY <1>1, QuietStep DEF Hear, IInv

LEMMA RecordMeasurementIInv ==
  ASSUME IInv, RecordMeasurement
  PROVE  Overlap' /\ OnlyOverlapBreaks'
<1>1. Overlap'
  BY DEF RecordMeasurement, Overlap
<1>2. db'.times = db.times
  BY DEF IInv, TypeOK, Rows, RecordMeasurement
<1>3. OnlyOverlapBreaks'
  BY <1>2 DEF IInv, OnlyOverlapBreaks, RecordMeasurement
<1> QED BY <1>1, <1>3

LEMMA IInvStep == IInv /\ [Next]_vars => IInv'
<1> SUFFICES ASSUME IInv, [Next]_vars PROVE Overlap' /\ OnlyOverlapBreaks'
  BY TypeStep DEF IInv
<1>1. CASE UserStep
  BY <1>1, ButtonsSend, PressIInv, NavigateIInv DEF UserStep, UserSends
<1>2. CASE AnswerStep
  BY <1>2, LookIInv, CommitIInv, HearIInv DEF AnswerStep, Backend
<1>3. CASE RecordMeasurement
  BY <1>3, RecordMeasurementIInv
<1>4. CASE \E c \in wire : Lose(c)
  BY <1>4, LoseIInv
<1>5. CASE UNCHANGED vars
  <2>1. \A d \in wire' : d \in wire
    BY <1>5 DEF vars
  <2> QED BY <1>5, <2>1, QuietStep DEF vars, IInv
<1> QED BY <1>1, <1>2, <1>3, <1>4, <1>5 DEF Next

\* As long as no handler looks while another has yet to commit, no seal is
\* signed over, no sixth finish time is stored and no insert fails.
THEOREM OnlyOverlapBreaksAlways == Spec => []OnlyOverlapBreaks
<1>1. IInv => OnlyOverlapBreaks
  BY DEF IInv
<1>2. IInv /\ [Next]_vars => IInv'
  BY IInvStep
<1> QED BY InitIInv, <1>1, <1>2, PTL DEF Spec

-----------------------------------------------------------------------------
(* Nothing is taken back.                                                  *)

LEMMA SamePrefix ==
  ASSUME NEW S, NEW s \in Seq(S)
  PROVE  IsPrefix(s, s)
<1>1. SubSeq(s, 1, Len(s)) = s
  OBVIOUS
<1> QED BY <1>1 DEF IsPrefix

LEMMA AppendPrefix ==
  ASSUME NEW S, NEW s \in Seq(S), NEW e \in S
  PROVE  IsPrefix(s, Append(s, e))
<1>1. SubSeq(Append(s, e), 1, Len(s)) = s
  OBVIOUS
<1>2. Len(s) <= Len(Append(s, e))
  OBVIOUS
<1> QED BY <1>1, <1>2 DEF IsPrefix

LEMMA SameKept ==
  ASSUME TypeOK, db' = db
  PROVE  Kept
<1>1. IsPrefix(db.log, db.log)
  BY SamePrefix DEF TypeOK, Rows
<1> QED BY <1>1 DEF Kept

\* What a handler writes, the unique keys allowing it, takes nothing back.
LEMMA CommitKept ==
  ASSUME TypeOK, NEW c \in wire, Commit(c)
  PROVE  Kept
<1> USE OpNames
<1>1. c \in Calls /\ c.op \in Ops /\ c.tab \in Tabs /\ c.tab # Nobody /\ db \in Rows
  BY NobodyAssumption DEF TypeOK, Calls
<1>2. CASE Violates(c)
  BY <1>2, SameKept DEF Commit
<1>3. CASE ~Violates(c)
  <2>1. db' = Applied(c, db)
    BY <1>3 DEF Commit
  <2>2. IsPrefix(db.log, db.log)
    BY <1>1, SamePrefix DEF Rows
  <2>3. CASE c.op \in {"ensure", "flowEnsure"}
    <3>1. db' = [db EXCEPT !.exists = TRUE]
      BY <2>1, <2>3 DEF Applied, Seals
    <3> QED BY <1>1, <3>1, <2>2 DEF Kept, Rows
  <2>4. CASE c.op \in Seals
    <3>1. db' = [db EXCEPT !.seals[c.op] = c.tab]
      BY <2>1, <2>4 DEF Applied, Seals
    <3> QED BY <1>1, <3>1, <2>2 DEF Kept, Rows, WorkSystem
  <2>5. CASE c.op = "flowRow"
    <3>1. db' = [db EXCEPT !.census = "created"] /\ db.census = "none"
      BY <1>3, <2>1, <2>5 DEF Applied, Seals, Violates
    <3> QED BY <1>1, <3>1, <2>2 DEF Kept, Rows
  <2>6. CASE c.op = "flowStart"
    <3>1. db' = [db EXCEPT !.census = "started"]
      BY <2>1, <2>6 DEF Applied, Seals
    <3> QED BY <1>1, <3>1, <2>2 DEF Kept, Rows
  <2>7. CASE c.op = "moderate"
    <3>1. db' = [db EXCEPT !.log = Append(db.log, c.tab)]
      BY <2>1, <2>7 DEF Applied, Seals
    <3>2. IsPrefix(db.log, Append(db.log, c.tab))
      BY <1>1, AppendPrefix DEF Rows
    <3> QED BY <1>1, <3>1, <3>2 DEF Kept, Rows
  <2>8. CASE c.op \in Dates
    <3>1. db' = [db EXCEPT !.times = db.times \cup {c.op}]
      BY <2>1, <2>8 DEF Applied
    <3> QED BY <1>1, <3>1, <2>2 DEF Kept, Rows
  <2>9. CASE c.op = "outcome"
    <3>1. db' = [db EXCEPT !.outcome = "not_measured"] /\ db.outcome = "none"
      BY <1>3, <2>1, <2>9 DEF Applied, Seals, Violates
    <3> QED BY <1>1, <3>1, <2>2 DEF Kept, Rows
  <2>10. CASE c.op \in {"censuses", "moderations", "times", "flowReread"}
    <3>1. db' = db
      BY <2>1, <2>10 DEF Applied, Seals
    <3> QED BY <3>1, SameKept
  <2> QED BY <1>1, <2>3, <2>4, <2>5, <2>6, <2>7, <2>8, <2>9, <2>10
<1> QED BY <1>2, <1>3

LEMMA KeptStep == TypeOK /\ [Next]_vars => Kept
<1> SUFFICES ASSUME TypeOK, [Next]_vars PROVE Kept
  OBVIOUS
<1>1. CASE UserStep
  <2>1. db' = db
    BY <1>1, ButtonsSend DEF UserStep, UserSends, Press, Navigate
  <2> QED BY <2>1, SameKept
<1>2. CASE AnswerStep
  <2>1. ASSUME NEW c \in wire, Look(c) \/ Hear(c) PROVE Kept
    BY <2>1, SameKept DEF Look, Hear
  <2> QED BY <1>2, <2>1, CommitKept DEF AnswerStep, Backend
<1>3. CASE RecordMeasurement
  <2>1. IsPrefix(db.log, db.log)
    BY SamePrefix DEF TypeOK, Rows
  <2>2. db' = [db EXCEPT !.outcome = "measured"]
    BY <1>3 DEF RecordMeasurement
  <2> QED BY <2>1, <2>2 DEF Kept, TypeOK, Rows
<1>4. CASE \E c \in wire : Lose(c)
  BY <1>4, SameKept DEF Lose
<1>5. CASE UNCHANGED vars
  BY <1>5, SameKept DEF vars
<1> QED BY <1>1, <1>2, <1>3, <1>4, <1>5 DEF Next

\* Whatever handlers overlap: no seal becomes unsigned, a started census stays
\* started, log entries and finish times are only added.
THEOREM NothingTakenBackAlways == Spec => NothingTakenBack
<1>1. TypeOK /\ [Next]_vars => [Kept]_vars
  BY KeptStep
<1> QED BY TypeCorrect, <1>1, PTL DEF Spec, NothingTakenBack
-----------------------------------------------------------------------------
(* Nothing is invented: what a card shows, or an answer on its way to a    *)
(* card carries, the backend has.                                          *)

\* r claims nothing that rows do not have.
Backs(rows, r) ==
  /\ \A s \in Seals : r.seals[s] # Nobody => rows.seals[s] # Nobody
  /\ r.census = "started" => rows.census = "started"
  /\ r.outcome = "measured" => rows.outcome = "measured"
  /\ r.times \subseteq rows.times
  /\ \A u \in Tabs : Contains(r.log, u) => Contains(rows.log, u)

BackedInv == /\ TypeOK
             /\ \A t \in Tabs : Backs(db, shown[t])
             /\ \A c \in wire : Backs(db, c.body)

\* Appending, reversing and prefixing keep what a log contains.
LEMMA PrefixContains ==
  ASSUME NEW S, NEW s \in Seq(S), NEW z \in Seq(S), IsPrefix(s, z), NEW u, Contains(s, u)
  PROVE  Contains(z, u)
<1>1. PICK i \in 1 .. Len(s) : s[i] = u
  BY DEF Contains
<1>2. Len(s) <= Len(z) /\ SubSeq(s, 1, Len(s)) = SubSeq(z, 1, Len(s))
  BY DEF IsPrefix
<1>3. s[i] = z[i] /\ i \in 1 .. Len(z)
  BY <1>1, <1>2
<1> QED BY <1>1, <1>3 DEF Contains

LEMMA ReverseContains ==
  ASSUME NEW S, NEW s \in Seq(S), NEW u, Contains(Reverse(s), u)
  PROVE  Contains(s, u)
<1>1. Len(Reverse(s)) = Len(s) /\ \A i \in 1 .. Len(s) : Reverse(s)[i] = s[(Len(s) - i) + 1]
  BY DEF Reverse
<1>2. PICK i \in 1 .. Len(s) : s[(Len(s) - i) + 1] = u
  BY <1>1 DEF Contains
<1>3. (Len(s) - i) + 1 \in 1 .. Len(s)
  OBVIOUS
<1> QED BY <1>2, <1>3 DEF Contains

LEMMA ConcatContains ==
  ASSUME NEW S, NEW s \in Seq(S), NEW z \in Seq(S), NEW u, Contains(s \o z, u)
  PROVE  Contains(s, u) \/ Contains(z, u)
<1>1. PICK i \in 1 .. Len(s \o z) : (s \o z)[i] = u
  BY DEF Contains
<1>2. CASE i \in 1 .. Len(s)
  BY <1>1, <1>2 DEF Contains
<1>3. CASE i \notin 1 .. Len(s)
  <2>1. i - Len(s) \in 1 .. Len(z) /\ z[i - Len(s)] = u
    BY <1>1, <1>3
  <2> QED BY <2>1 DEF Contains
<1> QED BY <1>2, <1>3

LEMMA AppendContains ==
  ASSUME NEW S, NEW s \in Seq(S), NEW e \in S
  PROVE  Contains(Append(s, e), e)
<1>1. Len(s) + 1 \in 1 .. Len(Append(s, e)) /\ Append(s, e)[Len(s) + 1] = e
  OBVIOUS
<1> QED BY <1>1 DEF Contains

LEMMA NoRowsBacked == \A rows : Backs(rows, NoRows)
  BY DEF Backs, NoRows, Draft, Contains

\* What was backed stays backed, nothing being taken back.
LEMMA KeptBacks ==
  ASSUME TypeOK, TypeOK', Kept, NEW r \in Rows, Backs(db, r)
  PROVE  Backs(db', r)
<1>1. db.log \in Seq(Tabs) /\ db'.log \in Seq(Tabs)
  BY DEF TypeOK, Rows
<1>2. \A u \in Tabs : Contains(db.log, u) => Contains(db'.log, u)
  BY <1>1, PrefixContains DEF Kept
<1> QED BY <1>2 DEF Backs, Kept

\* A route answers with a part of the rows, and never with more.
LEMMA AnswerBacked ==
  ASSUME NEW c \in Calls, NEW rows \in Rows,
         c.op = "moderate" => Contains(rows.log, c.tab)
  PROVE  Backs(rows, Answer(c, rows))
<1> USE OpNames
<1>1. c.op \in Ops
  BY DEF Calls
<1>2. /\ NoRows = [exists |-> FALSE, seals |-> Draft, census |-> "none", outcome |-> "none",
                   log |-> <<>>, times |-> {}]
      /\ \A s \in Seals : Draft[s] = Nobody
      /\ \A u : ~Contains(<<>>, u)
  BY DEF NoRows, Draft, Contains
<1>3. CASE c.op \in {"ensure", "flowEnsure"} \cup Seals
  <2>1. Answer(c, rows) = [NoRows EXCEPT !.exists = rows.exists, !.seals = rows.seals]
    BY <1>3 DEF Answer, Seals
  <2> QED BY <2>1, <1>2 DEF Backs
<1>4. CASE c.op \in {"censuses", "flowRow", "flowStart", "flowReread"}
  <2>1. Answer(c, rows) = [NoRows EXCEPT !.census = rows.census]
    BY <1>4 DEF Answer, Seals
  <2> QED BY <2>1, <1>2 DEF Backs
<1>5. CASE c.op = "outcome"
  <2>1. Answer(c, rows) = [NoRows EXCEPT !.outcome = rows.outcome]
    BY <1>5 DEF Answer, Seals
  <2> QED BY <2>1, <1>2 DEF Backs
<1>6. CASE c.op = "moderations"
  <2>1. Answer(c, rows) = [NoRows EXCEPT !.log = Reverse(rows.log)]
    BY <1>6 DEF Answer, Seals
  <2>2. \A u \in Tabs : Contains(Reverse(rows.log), u) => Contains(rows.log, u)
    BY ReverseContains DEF Rows
  <2> QED BY <2>1, <2>2, <1>2 DEF Backs
<1>7. CASE c.op = "moderate"
  <2>1. Answer(c, rows) = [NoRows EXCEPT !.log = <<c.tab>>]
    BY <1>7 DEF Answer, Seals
  <2>2. \A u : Contains(<<c.tab>>, u) => u = c.tab
    BY DEF Contains
  <2> QED BY <2>1, <2>2, <1>2, <1>7 DEF Backs
<1>8. CASE c.op \in Dates \cup {"times"}
  <2>1. Answer(c, rows) = [NoRows EXCEPT !.times = rows.times]
    BY <1>8 DEF Answer, Seals
  <2> QED BY <2>1, <1>2 DEF Backs
<1> QED BY <1>1, <1>3, <1>4, <1>5, <1>6, <1>7, <1>8

\* A card that takes an answer in holds no more than it held and was answered.
LEMMA HoldingBacked ==
  ASSUME NEW c \in Calls, NEW held \in Rows, NEW rows, Backs(rows, held), Backs(rows, c.body)
  PROVE  Backs(rows, Holding(c, held))
<1> USE OpNames
<1>1. c.op \in Ops /\ c.body \in Rows
  BY DEF Calls
<1>2. CASE c.op = "moderate"
  <2>1. Holding(c, held) = [held EXCEPT !.log = c.body.log \o held.log]
    BY <1>2 DEF Holding
  <2>2. \A u \in Tabs : Contains(c.body.log \o held.log, u) => Contains(rows.log, u)
    BY <1>1, ConcatContains DEF Rows, Backs
  <2> QED BY <2>1, <2>2 DEF Backs, Rows
<1>3. CASE c.op \in {"flowReread", "flowRow", "flowStart"}
  <2>1. Holding(c, held) = [held EXCEPT !.census = c.body.census]
    BY <1>3 DEF Holding
  <2> QED BY <2>1 DEF Backs, Rows
<1>4. CASE c.op \in Dates
  BY <1>4 DEF Holding
<1>5. CASE c.op \notin {"moderate", "flowReread", "flowRow", "flowStart"} \cup Dates
  BY <1>1, <1>5 DEF Holding
<1> QED BY <1>2, <1>3, <1>4, <1>5

LEMMA InitBacked == Init => BackedInv
<1> SUFFICES ASSUME Init PROVE BackedInv
  OBVIOUS
<1>1. TypeOK
  BY TypeInit
<1>2. \A t \in Tabs : Backs(db, shown[t])
  BY NoRowsBacked DEF Init
<1>3. \A c \in wire : Backs(db, c.body)
  BY NoRowsBacked DEF Init, Call
<1> QED BY <1>1, <1>2, <1>3 DEF BackedInv

\* A step keeps the invariant if the cards and answers it changes are backed.
LEMMA BackedStep ==
  ASSUME BackedInv, TypeOK', Kept,
         \A t \in Tabs : shown'[t] = shown[t] \/ Backs(db', shown'[t]),
         \A d \in wire' : Backs(db', d.body) \/ \E c \in wire : d.body = c.body
  PROVE  BackedInv'
<1>1. \A t \in Tabs : Backs(db', shown[t])
  BY KeptBacks DEF BackedInv, TypeOK
<1>2. \A c \in wire : Backs(db', c.body)
  BY KeptBacks DEF BackedInv, TypeOK, Calls
<1>3. \A t \in Tabs : Backs(db', shown'[t])
  BY <1>1
<1>4. \A d \in wire' : Backs(db', d.body)
  BY <1>2
<1> QED BY <1>3, <1>4 DEF BackedInv, Backs

LEMMA LookBacked ==
  ASSUME BackedInv, NEW c \in wire, Look(c)
  PROVE  \A d \in wire' : Backs(db', d.body) \/ \E e \in wire : d.body = e.body
<1> USE OpNames
<1>1. c \in Calls /\ db \in Rows /\ TypeOK /\ db' = db
  BY DEF BackedInv, TypeOK, Look
<1>2. CASE Looks(c) = "none"
  BY <1>1, <1>2 DEF Look, Becomes, Calls
<1>3. CASE Looks(c) # "none"
  <2> DEFINE body == IF Looks(c) = "ok" THEN Answer(c, db) ELSE NoRows
  <2>1. c.op = "moderate" => Looks(c) = "none"
    BY DEF Looks, Seals
  <2>2. Backs(db, body)
    BY <1>1, <1>3, <2>1, AnswerBacked, NoRowsBacked
  <2> HIDE DEF body
  <2>3. wire' = (wire \ {c}) \cup {[c EXCEPT !.stage = "answered", !.code = Looks(c), !.body = body]}
    BY <1>3 DEF Look, Becomes, body
  <2>4. [c EXCEPT !.stage = "answered", !.code = Looks(c), !.body = body].body = body
    BY <1>1 DEF Calls
  <2> QED BY <1>1, <2>2, <2>3, <2>4
<1> QED BY <1>2, <1>3

LEMMA CommitBacked ==
  ASSUME BackedInv, NEW c \in wire, Commit(c)
  PROVE  \A d \in wire' : Backs(db', d.body) \/ \E e \in wire : d.body = e.body
<1> USE OpNames
<1>1. c \in Calls /\ c.tab \in Tabs /\ db \in Rows /\ db.log \in Seq(Tabs) /\ TypeOK
  BY DEF BackedInv, TypeOK, Calls, Rows
<1>2. CASE Violates(c)
  <2> DEFINE e == [c EXCEPT !.stage = "answered", !.code = "crash"]
  <2>1. wire' = (wire \ {c}) \cup {e}
    BY <1>2 DEF Commit, Becomes
  <2>2. e.body = c.body
    BY <1>1 DEF Calls
  <2> QED BY <2>1, <2>2
<1>3. CASE ~Violates(c)
  <2>1. db' = Applied(c, db) /\ db' \in Rows
    BY <1>1, <1>3, AppliedType DEF Commit
  <2>2. c.op = "moderate" => Contains(db'.log, c.tab)
    <3> SUFFICES ASSUME c.op = "moderate" PROVE Contains(db'.log, c.tab)
      OBVIOUS
    <3>1. db' = [db EXCEPT !.log = Append(db.log, c.tab)]
      BY <2>1 DEF Applied, Seals
    <3>2. db'.log = Append(db.log, c.tab)
      BY <1>1, <3>1 DEF Rows
    <3> QED BY <1>1, <3>2, AppendContains
  <2>3. Backs(db', Answer(c, db'))
    BY <1>1, <2>1, <2>2, AnswerBacked
  <2> DEFINE body == Answer(c, db')
  <2> HIDE DEF body
  <2>4. wire' = (wire \ {c}) \cup {[c EXCEPT !.stage = "answered", !.code = "ok", !.body = body]}
    BY <1>3 DEF Commit, Becomes, body
  <2>5. [c EXCEPT !.stage = "answered", !.code = "ok", !.body = body].body = body
    BY <1>1 DEF Calls
  <2> QED BY <2>3, <2>4, <2>5 DEF body
<1> QED BY <1>2, <1>3

LEMMA HearBacked ==
  ASSUME BackedInv, NEW c \in wire, Hear(c)
  PROVE  /\ \A t \in Tabs : shown'[t] = shown[t] \/ Backs(db', shown'[t])
         /\ \A d \in wire' : Backs(db', d.body) \/ \E e \in wire : d.body = e.body
<1> DEFINE onward == {[Call(c.tab, c.card, op) EXCEPT !.heard = c.heard] : op \in FlowGoesOn(c)}
           rest == (wire \ {c}) \cup onward
<1>1. TypeOK /\ c \in Calls /\ c.tab \in Tabs /\ db' = db /\ Backs(db, c.body)
  BY DEF BackedInv, TypeOK, Calls, Hear
<1>2. \A d \in onward : d.body = NoRows
  BY DEF Call
<1>3. wire' = rest \/ wire' = Asks(c.tab, rest)
  BY DEF Hear
<1> DEFINE new == Call(c.tab, card[c.tab], ReadOf[card[c.tab]])
<1>4. \A d \in Asks(c.tab, rest) : d \in rest \/ d = new
  BY DEF Asks
<1>5. new.body = NoRows
  BY DEF Call
<1> HIDE DEF new
<1>6. \A d \in wire' : d.body = NoRows \/ d \in wire
  BY <1>2, <1>3, <1>4, <1>5
<1>7. \A t \in Tabs : shown'[t] = shown[t] \/ Backs(db', shown'[t])
  <2>1. CASE ~c.heard
    BY <2>1 DEF Hear, tabVars
  <2>2. CASE c.heard
    <3>1. \E held \in {shown[c.tab], Holding(c, shown[c.tab])} : shown' = [shown EXCEPT ![c.tab] = held]
      BY <2>2 DEF Hear
    <3>2. Backs(db, Holding(c, shown[c.tab]))
      BY <1>1, HoldingBacked DEF BackedInv, TypeOK
    <3> QED BY <1>1, <3>1, <3>2 DEF TypeOK
  <2> QED BY <2>1, <2>2
<1> QED BY <1>6, <1>7, NoRowsBacked

LEMMA NavigateBacked ==
  ASSUME BackedInv, NEW t \in Tabs, NEW k \in Cards, Navigate(t, k)
  PROVE  /\ \A u \in Tabs : shown'[u] = shown[u] \/ Backs(db', shown'[u])
         /\ \A d \in wire' : Backs(db', d.body) \/ \E e \in wire : d.body = e.body
<1>1. \A u \in Tabs : shown'[u] = shown[u] \/ shown'[u] = NoRows
  BY DEF BackedInv, TypeOK, Navigate
<1> DEFINE Left(d) == IF d.tab = t THEN [d EXCEPT !.heard = FALSE] ELSE d
           new == Call(t, k, ReadOf[k])
<1>2. wire' = {Left(d) : d \in wire} \cup {new}
  BY DEF Navigate
<1>3. \A d \in wire : Left(d).body = d.body
  BY DEF BackedInv, TypeOK, Calls
<1>4. new.body = NoRows
  BY DEF Call
<1>5. \A d \in wire' : d.body = NoRows \/ \E e \in wire : d.body = e.body
  BY <1>2, <1>3, <1>4
<1> QED BY <1>1, <1>5, NoRowsBacked

LEMMA NextBacked == BackedInv /\ [Next]_vars => BackedInv'
<1> SUFFICES ASSUME BackedInv, [Next]_vars PROVE BackedInv'
  OBVIOUS
<1>1. TypeOK' /\ Kept
  BY TypeStep, KeptStep DEF BackedInv
<1>2. CASE UserStep
  <2>1. ASSUME NEW t \in Tabs, UserSends(t) PROVE BackedInv'
    <3>1. \A d \in wire' : d \in wire \/ d.body = NoRows
      BY <2>1 DEF UserSends, Press, Call
    <3>2. shown' = shown
      BY <2>1 DEF UserSends, Press
    <3> QED BY <1>1, <3>1, <3>2, NoRowsBacked, BackedStep
  <2>2. ASSUME NEW t \in Tabs, NEW k \in Cards, Navigate(t, k) PROVE BackedInv'
    BY <1>1, <2>2, NavigateBacked, BackedStep
  <2> QED BY <1>2, <2>1, <2>2, ButtonsSend DEF UserStep
<1>3. CASE AnswerStep
  <2>1. ASSUME NEW c \in wire, Look(c) PROVE BackedInv'
    <3>1. shown' = shown
      BY <2>1 DEF Look, tabVars
    <3> QED BY <1>1, <2>1, <3>1, LookBacked, BackedStep
  <2>2. ASSUME NEW c \in wire, Commit(c) PROVE BackedInv'
    <3>1. shown' = shown
      BY <2>2 DEF Commit, tabVars
    <3> QED BY <1>1, <2>2, <3>1, CommitBacked, BackedStep
  <2>3. ASSUME NEW c \in wire, Hear(c) PROVE BackedInv'
    BY <1>1, <2>3, HearBacked, BackedStep
  <2> QED BY <1>3, <2>1, <2>2, <2>3 DEF AnswerStep, Backend
<1>4. CASE RecordMeasurement
  <2>1. shown' = shown /\ wire' = wire
    BY <1>4 DEF RecordMeasurement, tabVars
  <2> QED BY <1>1, <2>1, BackedStep
<1>5. CASE \E c \in wire : Lose(c)
  <2> PICK c \in wire : Lose(c)
    BY <1>5
  <2>1. shown' = shown /\ c \in Calls
    BY DEF Lose, tabVars, BackedInv, TypeOK
  <2>2. \A d \in wire' : d \in wire \/ d.body = NoRows
    BY <2>1 DEF Lose, Becomes, Calls
  <2> QED BY <1>1, <2>1, <2>2, NoRowsBacked, BackedStep
<1>6. CASE UNCHANGED vars
  <2>1. shown' = shown /\ wire' = wire
    BY <1>6 DEF vars
  <2> QED BY <1>1, <2>1, BackedStep
<1> QED BY <1>2, <1>3, <1>4, <1>5, <1>6 DEF Next

\* A card is never ahead of the rows, whatever is lost, overlaps or arrives
\* late: nothing signed, started, logged or measured is shown that the backend
\* does not have.
THEOREM NothingInventedAlways == Spec => []NothingInvented
<1>1. BackedInv => NothingInvented
  BY DEF BackedInv, Backs, NothingInvented
<1>2. BackedInv /\ [Next]_vars => BackedInv'
  BY NextBacked
<1> QED BY InitBacked, <1>1, <1>2, PTL DEF Spec
-----------------------------------------------------------------------------
(* What was acknowledged is shown.                                         *)

\* The rows have what the write op of tab t stands for.
Has(rows, t, op) == CASE op \in Seals -> rows.seals[op] # Nobody
                      [] op \in Dates -> op \in rows.times
                      [] op = "moderate" -> Contains(rows.log, t)
                      [] OTHER -> rows.census = "started"

\* What the buttons of a card send, and what follows from it.
WritesOf == [start |-> StartFlow, chart |-> {"ratified", "function", "workSystem"},
             period |-> {"strategy"}, outcome |-> {}, moderation |-> {"moderate"},
             times |-> Dates]

\* The card still waits for the read that brings the write.
Pending(t) == \E c \in Mine(t) : c.op \in {"times", "flowReread"}

\* An answer says what the handler did.
Truthful(c) ==
  /\ c.stage = "answered" <=> c.code # "none"
  /\ c.code = "ok" /\ c.op \in Seals \cup Dates \cup {"moderate", "flowStart"}
       => Has(c.body, c.tab, c.op)
  /\ c.code = "conflict" => c.op \in Seals \cup Dates \cup {"flowStart"}
  /\ c.code = "full" => c.op \in Dates
  /\ Is409(c) => db.census = "started"

\* A card with one request at most: what it was told is stored, and shown
\* unless the read that brings it is under way; the answer it waits for has it.
Settled(t) == tidy[t] =>
  /\ \A c, d \in Mine(t) : c = d
  /\ \A c \in Mine(t) : c.card = card[t] /\ c.op \in WritesOf[card[t]] \cup {ReadOf[card[t]]}
  /\ wrote[t] \subseteq WritesOf[card[t]]
  /\ \A op \in wrote[t] : Has(db, t, op) /\ (Has(shown[t], t, op) \/ Pending(t))
  /\ \A c \in Mine(t) : c.code = "ok" /\ c.op # "flowEnsure"
                          => \A op \in wrote[t] : Has(c.body, t, op)
  /\ card[t] = "start" => ~error[t]

WritesInv == /\ BackedInv
             /\ \A c \in wire : Truthful(c)
             /\ \A t \in Tabs : Settled(t)

LEMMA WritesNames ==
  /\ \A k \in Cards : WritesOf[k] \subseteq Ops
  /\ \A k \in Cards : WritesOf[k] \cap (Seals \cup Dates \cup {"moderate"} \cup StartFlow) = WritesOf[k]
  /\ \A k \in Cards, op \in StartFlow : op \in WritesOf[k] \cup {ReadOf[k]} => k = "start"
  /\ \A k \in Cards, op \in Dates : op \in WritesOf[k] \cup {ReadOf[k]} => k = "times"
  /\ \A op \in Dates : op \notin Seals \cup StartFlow \cup {"moderate"}
  BY OpNames DEF WritesOf, Cards, ReadOf, StartFlow, Seals, Ops

LEMMA HasOf ==
  ASSUME NEW rows, NEW t
  PROVE  /\ \A op \in Seals : Has(rows, t, op) <=> rows.seals[op] # Nobody
         /\ \A op \in Dates : Has(rows, t, op) <=> op \in rows.times
         /\ Has(rows, t, "moderate") <=> Contains(rows.log, t)
         /\ \A op \in StartFlow : Has(rows, t, op) <=> rows.census = "started"
  BY WritesNames, OpNames DEF Has, Seals, StartFlow

LEMMA HasBacked ==
  ASSUME NEW rows, NEW r, Backs(rows, r), NEW t \in Tabs, NEW op, Has(r, t, op)
  PROVE  Has(rows, t, op)
  BY DEF Backs, Has

LEMMA HasKept ==
  ASSUME TypeOK, TypeOK', Kept, NEW t \in Tabs, NEW op, Has(db, t, op)
  PROVE  Has(db', t, op)
<1>1. Backs(db, db)
  BY DEF Backs
<1>2. Backs(db', db)
  BY <1>1, KeptBacks DEF TypeOK
<1> QED BY <1>2, HasBacked

LEMMA ContainsReverse ==
  ASSUME NEW S, NEW s \in Seq(S), NEW u, Contains(s, u)
  PROVE  Contains(Reverse(s), u)
<1>1. Len(Reverse(s)) = Len(s) /\ \A i \in 1 .. Len(s) : Reverse(s)[i] = s[(Len(s) - i) + 1]
  BY DEF Reverse
<1>2. PICK i \in 1 .. Len(s) : s[i] = u
  BY DEF Contains
<1>3. (Len(s) - i) + 1 \in 1 .. Len(s) /\ (Len(s) - ((Len(s) - i) + 1)) + 1 = i
  OBVIOUS
<1>4. Reverse(s)[(Len(s) - i) + 1] = u
  BY <1>1, <1>2, <1>3
<1> QED BY <1>1, <1>3, <1>4 DEF Contains

LEMMA ContainsConcat ==
  ASSUME NEW S, NEW s \in Seq(S), NEW z \in Seq(S), NEW u, Contains(s, u)
  PROVE  Contains(s \o z, u)
<1>1. PICK i \in 1 .. Len(s) : s[i] = u
  BY DEF Contains
<1>2. i \in 1 .. Len(s \o z) /\ (s \o z)[i] = u
  BY <1>1
<1> QED BY <1>2 DEF Contains

LEMMA OneContains == \A u : Contains(<<u>>, u)
<1> SUFFICES ASSUME NEW u PROVE Contains(<<u>>, u)
  OBVIOUS
<1>1. 1 \in 1 .. Len(<<u>>) /\ <<u>>[1] = u
  OBVIOUS
<1> QED BY <1>1 DEF Contains

\* Every answer but the flow's first one has what the rows have of the writes
\* of its own card.
LEMMA AnswerHas ==
  ASSUME NEW c \in Calls, NEW rows \in Rows, NEW k \in Cards,
         c.op \in WritesOf[k] \cup {ReadOf[k]}, c.op # "flowEnsure",
         NEW op \in WritesOf[k], Has(rows, c.tab, op)
  PROVE  Has(Answer(c, rows), c.tab, op)
<1> USE OpNames
<1>1. NoRows = [exists |-> FALSE, seals |-> Draft, census |-> "none", outcome |-> "none",
                log |-> <<>>, times |-> {}]
  BY DEF NoRows
<1>2. CASE k \in {"chart", "period"}
  <2>1. c.op \in {"ensure"} \cup Seals /\ op \in Seals
    BY <1>2 DEF WritesOf, ReadOf, Seals
  <2>2. Answer(c, rows) = [NoRows EXCEPT !.exists = rows.exists, !.seals = rows.seals]
    BY <2>1 DEF Answer, Seals
  <2>3. Answer(c, rows).seals = rows.seals
    BY <1>1, <2>2
  <2> QED BY <2>1, <2>3, HasOf
<1>3. CASE k = "start"
  <2>1. c.op \in {"censuses", "flowRow", "flowStart", "flowReread"} /\ op \in StartFlow
    BY <1>3 DEF WritesOf, ReadOf, StartFlow
  <2>2. Answer(c, rows) = [NoRows EXCEPT !.census = rows.census]
    BY <2>1 DEF Answer, Seals
  <2>3. op \notin Seals \cup Dates \cup {"moderate"}
    BY <2>1, WritesNames DEF Seals, StartFlow
  <2> QED BY <1>1, <2>2, <2>3 DEF Has
<1>4. CASE k = "moderation"
  <2>1. c.op \in {"moderations", "moderate"} /\ op = "moderate" /\ op \notin Seals \cup Dates
    BY <1>4 DEF WritesOf, ReadOf, Seals
  <2>2. Contains(rows.log, c.tab) /\ rows.log \in Seq(Tabs)
    BY <2>1 DEF Has, Rows
  <2>3. CASE c.op = "moderations"
    <3>1. Answer(c, rows) = [NoRows EXCEPT !.log = Reverse(rows.log)]
      BY <2>3 DEF Answer, Seals
    <3>2. Contains(Reverse(rows.log), c.tab)
      BY <2>2, ContainsReverse
    <3> QED BY <1>1, <2>1, <3>1, <3>2 DEF Has
  <2>4. CASE c.op = "moderate"
    <3>1. Answer(c, rows) = [NoRows EXCEPT !.log = <<c.tab>>]
      BY <2>4 DEF Answer, Seals
    <3> QED BY <1>1, <2>1, <3>1, OneContains DEF Has
  <2> QED BY <2>1, <2>3, <2>4
<1>5. CASE k = "times"
  <2>1. c.op \in Dates \cup {"times"} /\ op \in Dates /\ op \notin Seals
    BY <1>5, WritesNames DEF WritesOf, ReadOf
  <2>2. Answer(c, rows) = [NoRows EXCEPT !.times = rows.times]
    BY <2>1 DEF Answer, Seals
  <2> QED BY <1>1, <2>1, <2>2 DEF Has
<1>6. CASE k = "outcome"
  BY <1>6 DEF WritesOf
<1> QED BY <1>2, <1>3, <1>4, <1>5, <1>6 DEF Cards

\* A card that takes in an answer holds what the answer has, except that a
\* saved time brings no list.
LEMMA HoldingHas ==
  ASSUME NEW c \in Calls, NEW held \in Rows, NEW k \in Cards,
         c.op \in WritesOf[k] \cup {ReadOf[k]}, c.op \notin Dates,
         NEW op \in WritesOf[k], Has(c.body, c.tab, op)
  PROVE  Has(Holding(c, held), c.tab, op)
<1> USE OpNames
<1>1. c.op \in Ops /\ c.body \in Rows
  BY DEF Calls
<1>2. CASE c.op = "moderate"
  <2>1. k = "moderation" /\ op = "moderate" /\ op \notin Seals \cup Dates
    BY <1>2 DEF WritesOf, ReadOf, Seals, StartFlow, Cards
  <2>2. Holding(c, held) = [held EXCEPT !.log = c.body.log \o held.log]
    BY <1>2 DEF Holding
  <2>3. Contains(c.body.log \o held.log, c.tab)
    BY <1>1, <2>1, ContainsConcat DEF Rows, Has
  <2> QED BY <2>1, <2>2, <2>3 DEF Has, Rows
<1>3. CASE c.op \in {"flowReread", "flowRow", "flowStart"}
  <2>1. Holding(c, held) = [held EXCEPT !.census = c.body.census]
    BY <1>3 DEF Holding
  <2>2. k = "start"
    BY <1>3, WritesNames DEF StartFlow
  <2>3. op \in StartFlow
    BY <2>2 DEF WritesOf
  <2>4. Holding(c, held).census = c.body.census
    BY <2>1 DEF Rows
  <2> QED BY <2>3, <2>4, HasOf
<1>4. CASE c.op \notin {"moderate", "flowReread", "flowRow", "flowStart"} \cup Dates
  BY <1>1, <1>4 DEF Holding
<1> QED BY <1>2, <1>3, <1>4

\* What was written is in the rows once the handler committed.
LEMMA AppliedHas ==
  ASSUME NEW c \in Calls, NEW rows \in Rows,
         c.op \in Seals \cup Dates \cup {"moderate", "flowStart"}
  PROVE  Has(Applied(c, rows), c.tab, c.op)
<1> USE OpNames
<1>1. c.tab \in Tabs /\ c.tab # Nobody /\ rows.log \in Seq(Tabs)
  BY NobodyAssumption DEF Calls, Rows
<1>2. CASE c.op \in Seals
  <2>1. Applied(c, rows) = [rows EXCEPT !.seals[c.op] = c.tab]
    BY <1>2 DEF Applied, Seals
  <2>2. Applied(c, rows).seals[c.op] = c.tab
    BY <1>2, <2>1 DEF Rows, WorkSystem
  <2> QED BY <1>1, <1>2, <2>2, HasOf
<1>3. CASE c.op \in Dates
  <2>1. Applied(c, rows) = [rows EXCEPT !.times = rows.times \cup {c.op}]
    BY <1>3 DEF Applied
  <2> QED BY <1>3, <2>1, WritesNames DEF Has, Rows
<1>4. CASE c.op = "moderate"
  <2>1. Applied(c, rows) = [rows EXCEPT !.log = Append(rows.log, c.tab)]
    BY <1>4 DEF Applied, Seals
  <2>2. Contains(Append(rows.log, c.tab), c.tab)
    BY <1>1, AppendContains
  <2>3. c.op \notin Seals \cup Dates
    BY <1>4 DEF Seals
  <2> QED BY <1>4, <2>1, <2>2, <2>3 DEF Has, Rows
<1>5. CASE c.op = "flowStart"
  <2>1. Applied(c, rows) = [rows EXCEPT !.census = "started"]
    BY <1>5 DEF Applied, Seals
  <2>2. c.op \notin Seals \cup Dates
    BY <1>5 DEF Seals
  <2> QED BY <1>5, <2>1, <2>2 DEF Has, Rows
<1> QED BY <1>2, <1>3, <1>4, <1>5

-----------------------------------------------------------------------------
(* The invariant, step by step.                                            *)

LEMMA InitWrites == Init => WritesInv
<1> SUFFICES ASSUME Init PROVE WritesInv
  OBVIOUS
<1>1. BackedInv
  BY InitBacked
<1>2. \A c \in wire : c.stage = "sent" /\ c.code = "none" /\ Truthful(c)
  BY DEF Init, Call, Truthful, Is409
<1>3. \A t \in Tabs : wrote[t] = {} /\ ~error[t] /\ card[t] \in Cards
  BY <1>1 DEF Init, BackedInv, TypeOK
<1>4. \A t \in Tabs : Mine(t) = {Call(t, card[t], ReadOf[card[t]])}
  BY DEF Mine, Init, Call
<1>5. ASSUME NEW t \in Tabs PROVE Settled(t)
  <2>1. \A c \in Mine(t) : c.card = card[t] /\ c.op = ReadOf[card[t]] /\ c.code = "none"
    BY <1>4 DEF Call
  <2> QED BY <1>3, <1>4, <2>1 DEF Settled
<1> QED BY <1>1, <1>2, <1>5 DEF WritesInv

\* What an answer says stays true while nothing is taken back.
LEMMA TruthfulKept ==
  ASSUME Kept, NEW c, Truthful(c)
  PROVE  Truthful(c)'
  BY DEF Truthful, Kept, Is409, Has

\* A step that changes no request of a tab, and nothing of its card, leaves
\* it settled.
LEMMA OthersSettled ==
  ASSUME TypeOK, TypeOK', Kept, NEW t \in Tabs, Settled(t), Mine(t)' = Mine(t),
         card'[t] = card[t], shown'[t] = shown[t], wrote'[t] = wrote[t],
         tidy'[t] => tidy[t], error'[t] => error[t]
  PROVE  Settled(t)'
<1> SUFFICES ASSUME tidy'[t] PROVE Settled(t)'
  BY DEF Settled
<1>1. \A op : Has(db, t, op) => Has(db', t, op)
  BY HasKept
<1>2. Pending(t)' <=> Pending(t)
  BY DEF Pending
<1>3. \A op : /\ Has(shown[t], t, op)' <=> Has(shown[t], t, op)
              /\ Has(db, t, op)' <=> Has(db', t, op)
  BY DEF Has
<1>4. \A c, op : Has(c.body, t, op)' <=> Has(c.body, t, op)
  BY DEF Has
<1> QED BY <1>1, <1>2, <1>3, <1>4 DEF Settled

\* One request replaced by another state of itself, its answer, if it is one,
\* having what the rows have of the card's writes.
LEMMA ReplacedSettled ==
  ASSUME WritesInv, TypeOK', Kept, NEW c \in wire, NEW d, Becomes(c, d), UNCHANGED tabVars,
         d.tab = c.tab, d.heard = c.heard, d.op = c.op, d.card = c.card,
         d.code = "ok" /\ d.op # "flowEnsure" =>
           \A k \in Cards : c.op \in WritesOf[k] \cup {ReadOf[k]} =>
             \A op \in WritesOf[k] : Has(db', c.tab, op) => Has(d.body, c.tab, op),
         NEW t \in Tabs
  PROVE  Settled(t)'
<1>1. TypeOK /\ Settled(t) /\ c \in Calls /\ c.tab \in Tabs /\ UNCHANGED <<card, shown, wrote, tidy, error>>
  BY DEF WritesInv, BackedInv, TypeOK, Calls, tabVars
<1>2. CASE c \notin Mine(t)
  <2>1. Mine(t)' = Mine(t)
    BY <1>2 DEF Mine, Becomes
  <2> QED BY <1>1, <2>1, OthersSettled
<1>3. CASE c \in Mine(t)
  <2> SUFFICES ASSUME tidy[t] PROVE Settled(t)'
    BY <1>1 DEF Settled
  <2>1. c.tab = t /\ c.heard /\ \A e \in Mine(t) : e = c
    BY <1>1, <1>3 DEF Mine, Settled
  <2>2. Mine(t)' = {d}
    BY <1>1, <2>1 DEF Mine, Becomes
  <2>3. d.card = card'[t] /\ d.op \in WritesOf[card'[t]] \cup {ReadOf[card'[t]]}
        /\ card'[t] \in Cards /\ wrote'[t] \subseteq WritesOf[card'[t]]
        /\ (card'[t] = "start" => ~error'[t])
    BY <1>1, <1>3 DEF Settled, TypeOK
  <2>4. Pending(t) => Pending(t)'
    BY <2>1, <2>2 DEF Pending
  <2>5. \A op \in wrote'[t] : Has(db', t, op) /\ (Has(shown[t], t, op) \/ Pending(t)')
    BY <1>1, <2>4, HasKept DEF Settled
  <2>6. d.code = "ok" /\ d.op # "flowEnsure" => \A op \in wrote'[t] : Has(d.body, t, op)
    BY <1>1, <2>1, <2>3, <2>5
  <2>7. \A op : /\ Has(shown[t], t, op)' <=> Has(shown[t], t, op)
                /\ Has(db, t, op)' <=> Has(db', t, op)
                /\ Has(d.body, t, op)' <=> Has(d.body, t, op)
    BY <1>1 DEF Has
  <2> QED BY <2>2, <2>3, <2>5, <2>6, <2>7 DEF Settled
<1> QED BY <1>2, <1>3

\* What a handler may answer without writing.
LEMMA LooksCodes ==
  ASSUME NEW c \in Calls
  PROVE  /\ Looks(c) = "ok" => c.op \notin Seals \cup Dates \cup {"moderate", "flowStart"}
         /\ Looks(c) = "conflict" => c.op \in Seals \cup Dates \cup {"flowStart"}
         /\ Looks(c) = "full" => c.op \in Dates
         /\ Looks(c) = "conflict" /\ c.op = "flowStart" => db.census = "started"
<1> USE OpNames
<1>1. CASE c.op \in Seals
  BY <1>1 DEF Looks, Seals
<1>2. CASE c.op \in Dates
  BY <1>2 DEF Looks, Seals
<1>3. CASE c.op \notin Seals \cup Dates
  BY <1>3 DEF Looks
<1> QED BY <1>1, <1>2, <1>3

\* Every write that is acknowledged belongs to a card.
LEMMA WritesWhere ==
  \A op \in Seals \cup Dates \cup {"moderate", "flowStart"} : \E k \in Cards : op \in WritesOf[k]
<1>1. {"start", "chart", "period", "moderation", "times"} \subseteq Cards
  BY DEF Cards
<1>2. \A op \in Seals : op \in WritesOf["chart"] \cup WritesOf["period"]
  BY DEF Seals, WritesOf
<1>3. \A op \in Dates : op \in WritesOf["times"]
  BY DEF WritesOf
<1>4. "moderate" \in WritesOf["moderation"] /\ "flowStart" \in WritesOf["start"]
  BY DEF WritesOf, StartFlow
<1> QED BY <1>1, <1>2, <1>3, <1>4

LEMMA LookWrites ==
  ASSUME WritesInv, TypeOK', Kept, NEW c \in wire, Look(c)
  PROVE  (\A d \in wire' : Truthful(d)') /\ (\A t \in Tabs : Settled(t)')
<1> USE OpNames
<1>1. c \in Calls /\ c.op \in Ops /\ db \in Rows /\ TypeOK /\ Truthful(c) /\ db' = db /\ c.stage = "sent"
  BY DEF WritesInv, BackedInv, TypeOK, Calls, Look
<1>2. \A d \in wire : Truthful(d)'
  BY TruthfulKept DEF WritesInv
<1>3. CASE Looks(c) = "none"
  <2> DEFINE d == [c EXCEPT !.stage = "looked"]
  <2>1. Becomes(c, d) /\ UNCHANGED tabVars
    BY <1>3 DEF Look
  <2>2. d.tab = c.tab /\ d.heard = c.heard /\ d.op = c.op /\ d.card = c.card /\ d.code = c.code
        /\ d.body = c.body /\ d.stage = "looked"
    BY <1>1 DEF Calls
  <2> HIDE DEF d
  <2>3. Truthful(d)'
    BY <1>1, <1>2, <2>2 DEF Truthful, Is409
  <2>4. d.code = "none"
    BY <1>1, <2>2 DEF Truthful, Calls, Stages
  <2>5. \A t \in Tabs : Settled(t)'
    BY <2>1, <2>2, <2>4, ReplacedSettled
  <2>6. wire' = (wire \ {c}) \cup {d}
    BY <2>1 DEF Becomes
  <2> QED BY <1>2, <2>3, <2>5, <2>6
<1>4. CASE Looks(c) # "none"
  <2> PICK d : d = [c EXCEPT !.stage = "answered", !.code = Looks(c),
                             !.body = IF Looks(c) = "ok" THEN Answer(c, db) ELSE NoRows]
    OBVIOUS
  <2>1. Becomes(c, d) /\ UNCHANGED tabVars
    BY <1>4 DEF Look
  <2>2. d.tab = c.tab /\ d.heard = c.heard /\ d.op = c.op /\ d.card = c.card /\ d.code = Looks(c)
        /\ (Looks(c) = "ok" => d.body = Answer(c, db)) /\ d.stage = "answered"
    BY <1>1 DEF Calls
  <2>3. /\ Looks(c) = "ok" => c.op \notin Seals \cup Dates \cup {"moderate", "flowStart"}
        /\ Looks(c) = "conflict" => c.op \in Seals \cup Dates \cup {"flowStart"}
        /\ Looks(c) = "full" => c.op \in Dates
        /\ Looks(c) = "conflict" /\ c.op = "flowStart" => db.census = "started"
    BY <1>1, LooksCodes
  <2>4. Truthful(d)
    BY <1>1, <1>4, <2>2, <2>3 DEF Truthful, Is409
  <2>5. \A t \in Tabs : Settled(t)'
    <3>1. ASSUME Looks(c) = "ok", c.op # "flowEnsure", NEW k \in Cards,
                 c.op \in WritesOf[k] \cup {ReadOf[k]}, NEW op \in WritesOf[k], Has(db, c.tab, op)
          PROVE  Has(d.body, c.tab, op)
      BY <1>1, <2>2, <3>1, AnswerHas
    <3> QED BY <1>1, <2>1, <2>2, <3>1, ReplacedSettled
  <2>6. wire' = (wire \ {c}) \cup {d}
    BY <2>1 DEF Becomes
  <2> QED BY <1>2, <2>4, <2>5, <2>6, TruthfulKept
<1> QED BY <1>3, <1>4

LEMMA CommitWrites ==
  ASSUME WritesInv, TypeOK', Kept, NEW c \in wire, Commit(c)
  PROVE  (\A d \in wire' : Truthful(d)') /\ (\A t \in Tabs : Settled(t)')
<1> USE OpNames
<1>1. c \in Calls /\ c.op \in Ops /\ c.tab \in Tabs /\ db \in Rows /\ TypeOK /\ Truthful(c)
      /\ UNCHANGED tabVars
  BY DEF WritesInv, BackedInv, TypeOK, Calls, Commit
<1>2. \A d \in wire : Truthful(d)'
  BY TruthfulKept DEF WritesInv
<1>3. CASE Violates(c)
  <2> DEFINE d == [c EXCEPT !.stage = "answered", !.code = "crash"]
  <2>1. Becomes(c, d)
    BY <1>3 DEF Commit
  <2>2. d.tab = c.tab /\ d.heard = c.heard /\ d.op = c.op /\ d.card = c.card /\ d.code = "crash"
        /\ d.stage = "answered"
    BY <1>1 DEF Calls
  <2> HIDE DEF d
  <2>3. Truthful(d)'
    BY <2>2 DEF Truthful, Is409
  <2>4. \A t \in Tabs : Settled(t)'
    BY <1>1, <2>1, <2>2, ReplacedSettled
  <2>5. wire' = (wire \ {c}) \cup {d}
    BY <2>1 DEF Becomes
  <2> QED BY <1>2, <2>3, <2>4, <2>5
<1>4. CASE ~Violates(c)
  <2> PICK d : d = [c EXCEPT !.stage = "answered", !.code = "ok", !.body = Answer(c, db')]
    OBVIOUS
  <2>1. Becomes(c, d) /\ db' = Applied(c, db) /\ db' \in Rows
    BY <1>1, <1>4, AppliedType DEF Commit
  <2>2. d.tab = c.tab /\ d.heard = c.heard /\ d.op = c.op /\ d.card = c.card /\ d.code = "ok"
        /\ d.body = Answer(c, db') /\ d.stage = "answered"
    BY <1>1 DEF Calls
  <2>3. ASSUME c.op # "flowEnsure", NEW k \in Cards, c.op \in WritesOf[k] \cup {ReadOf[k]},
               NEW op \in WritesOf[k], Has(db', c.tab, op)
        PROVE  Has(d.body, c.tab, op)
    BY <1>1, <2>1, <2>2, <2>3, AnswerHas
  <2>4. \A t \in Tabs : Settled(t)'
    BY <1>1, <2>1, <2>2, <2>3, ReplacedSettled
  <2>5. c.op \in Seals \cup Dates \cup {"moderate", "flowStart"} => Has(d.body, d.tab, d.op)
    <3> SUFFICES ASSUME c.op \in Seals \cup Dates \cup {"moderate", "flowStart"}
                 PROVE  Has(d.body, c.tab, c.op)
      BY <2>2
    <3>1. Has(db', c.tab, c.op)
      BY <1>1, <2>1, AppliedHas
    <3>2. \E k \in Cards : c.op \in WritesOf[k]
      BY WritesWhere
    <3>3. c.op # "flowEnsure"
      BY WritesNames DEF Seals, StartFlow
    <3> QED BY <2>3, <3>1, <3>2, <3>3
  <2>6. Truthful(d)
    BY <2>2, <2>5 DEF Truthful, Is409
  <2>7. wire' = (wire \ {c}) \cup {d}
    BY <2>1 DEF Becomes
  <2> QED BY <1>2, <2>4, <2>6, <2>7, TruthfulKept
<1> QED BY <1>3, <1>4

LEMMA LoseWrites ==
  ASSUME WritesInv, TypeOK', Kept, NEW c \in wire, Lose(c)
  PROVE  (\A d \in wire' : Truthful(d)') /\ (\A t \in Tabs : Settled(t)')
<1> DEFINE d == [c EXCEPT !.stage = "answered", !.code = "lost", !.body = NoRows]
<1>1. c \in Calls /\ Becomes(c, d) /\ UNCHANGED tabVars
  BY DEF WritesInv, BackedInv, TypeOK, Lose
<1>2. d.tab = c.tab /\ d.heard = c.heard /\ d.op = c.op /\ d.card = c.card /\ d.code = "lost"
      /\ d.stage = "answered"
  BY <1>1 DEF Calls
<1> HIDE DEF d
<1>3. Truthful(d)'
  BY <1>2 DEF Truthful, Is409
<1>4. \A t \in Tabs : Settled(t)'
  BY <1>1, <1>2, ReplacedSettled
<1>5. wire' = (wire \ {c}) \cup {d}
  BY <1>1 DEF Becomes
<1>6. \A e \in wire : Truthful(e)'
  BY TruthfulKept DEF WritesInv
<1> QED BY <1>3, <1>4, <1>5, <1>6

\* A button sends one of the writes of its card.
LEMMA ButtonsWrite ==
  ASSUME TypeOK, NEW t \in Tabs,
         \/ onStart(t) \/ submitModeration(t) \/ confirmPeriod(t) \/ ratify(t)
         \/ (\E s \in Seals : onConfirmIntent(t, s)) \/ (\E d \in Dates : submitTime(t, d))
  PROVE  \E op \in WritesOf[card[t]] : Press(t, op)
<1> USE DEF WritesOf
<1>1. CASE onStart(t)
  BY <1>1 DEF onStart, StartFlow
<1>2. CASE submitModeration(t)
  BY <1>2 DEF submitModeration
<1>3. CASE confirmPeriod(t)
  BY <1>3 DEF confirmPeriod, PeriodFocusRow
<1>4. CASE ratify(t)
  BY <1>4 DEF ratify
<1>5. CASE \E s \in Seals : onConfirmIntent(t, s)
  BY <1>5 DEF onConfirmIntent, IntentCard
<1>6. CASE \E d \in Dates : submitTime(t, d)
  BY <1>6 DEF submitTime, KeyedTimes
<1> QED BY <1>1, <1>2, <1>3, <1>4, <1>5, <1>6

LEMMA PressWrites ==
  ASSUME WritesInv, TypeOK', Kept, NEW t \in Tabs, NEW op \in WritesOf[card[t]], Press(t, op)
  PROVE  (\A d \in wire' : Truthful(d)') /\ (\A u \in Tabs : Settled(u)')
<1> DEFINE new == Call(t, card[t], op)
<1>1. TypeOK /\ card[t] \in Cards /\ wire' = wire \cup {new}
      /\ UNCHANGED <<db, card, shown, loaded, wrote, alone, renamed>>
      /\ tidy' = [tidy EXCEPT ![t] = tidy[t] /\ Mine(t) = {}]
      /\ error' = [error EXCEPT ![t] = error[t] /\ card[t] = "chart"]
  BY DEF WritesInv, BackedInv, TypeOK, Press
<1>2. new.tab = t /\ new.heard /\ new.card = card[t] /\ new.op = op /\ new.code = "none"
      /\ new.stage = "sent"
  BY DEF Call
<1> PICK d : d = new
  OBVIOUS
<1> HIDE DEF new
<1>3. \A e \in wire' : Truthful(e)'
  <2>1. Truthful(d)
    BY <1>2 DEF Truthful, Is409
  <2>2. \A e \in wire : Truthful(e)
    BY DEF WritesInv
  <2> QED BY <1>1, <2>1, <2>2, TruthfulKept
<1>4. ASSUME NEW u \in Tabs, u # t PROVE Settled(u)'
  <2>1. Mine(u)' = Mine(u)
    BY <1>1, <1>2, <1>4 DEF Mine
  <2> QED BY <1>1, <1>4, <2>1, OthersSettled DEF WritesInv, TypeOK
<1>5. Settled(t)'
  <2> SUFFICES ASSUME tidy'[t] PROVE Settled(t)'
    BY DEF Settled
  <2>1. tidy[t] /\ Mine(t) = {} /\ Settled(t)
    BY <1>1 DEF TypeOK, WritesInv
  <2>2. Mine(t)' = {d}
    BY <1>1, <1>2, <2>1 DEF Mine
  <2>3. \A o \in wrote[t] : Has(db, t, o) /\ Has(shown[t], t, o)
    BY <2>1 DEF Settled, Pending
  <2>4. \A o \in wrote'[t] : Has(db, t, o)' /\ Has(shown[t], t, o)'
    BY <1>1, <2>3 DEF Has
  <2>5. card'[t] = "start" => ~error'[t]
    BY <1>1 DEF TypeOK
  <2>6. wrote'[t] \subseteq WritesOf[card'[t]]
    BY <1>1, <2>1 DEF Settled
  <2> QED BY <1>1, <1>2, <2>2, <2>4, <2>5, <2>6 DEF Settled
<1> QED BY <1>3, <1>4, <1>5

LEMMA NavigateWrites ==
  ASSUME WritesInv, TypeOK', Kept, NEW t \in Tabs, NEW k \in Cards, Navigate(t, k)
  PROVE  (\A d \in wire' : Truthful(d)') /\ (\A u \in Tabs : Settled(u)')
<1> DEFINE Left(d) == IF d.tab = t THEN [d EXCEPT !.heard = FALSE] ELSE d
           new == Call(t, k, ReadOf[k])
<1>1. TypeOK /\ wire' = {Left(d) : d \in wire} \cup {new}
      /\ card'[t] = k /\ wrote'[t] = {} /\ error'[t] = FALSE
      /\ \A u \in Tabs : u # t => /\ card'[u] = card[u] /\ shown'[u] = shown[u] /\ tidy'[u] = tidy[u]
                                  /\ wrote'[u] = wrote[u] /\ error'[u] = error[u]
  BY DEF WritesInv, BackedInv, TypeOK, Navigate
<1>2. new.tab = t /\ new.heard /\ new.card = k /\ new.op = ReadOf[k] /\ new.code = "none"
      /\ new.stage = "sent"
  BY DEF Call
<1> HIDE DEF new
<1>3. \A d \in wire : /\ Left(d).tab = d.tab /\ Left(d).op = d.op /\ Left(d).code = d.code
                      /\ Left(d).stage = d.stage /\ Left(d).body = d.body
                      /\ (d.tab = t => ~Left(d).heard) /\ (d.tab # t => Left(d) = d)
  BY <1>1 DEF TypeOK, Calls
<1> HIDE DEF Left
<1>4. \A e \in wire' : Truthful(e)'
  <2>1. Truthful(new)
    BY <1>2 DEF Truthful, Is409
  <2>2. \A d \in wire : Truthful(Left(d))
    BY <1>3 DEF WritesInv, Truthful, Is409
  <2> QED BY <1>1, <2>1, <2>2, TruthfulKept
<1>5. ASSUME NEW u \in Tabs, u # t PROVE Settled(u)'
  <2>1. Mine(u)' = Mine(u)
    BY <1>1, <1>2, <1>3, <1>5 DEF Mine
  <2> QED BY <1>1, <1>5, <2>1, OthersSettled DEF WritesInv
<1>6. Settled(t)'
  <2>1. Mine(t)' = {new}
    BY <1>1, <1>2, <1>3 DEF Mine
  <2> QED BY <1>1, <1>2, <2>1 DEF Settled
<1> QED BY <1>4, <1>5, <1>6

\* The request that goes on from an answer, or asks again after it.
LEMMA OnwardOne ==
  ASSUME NEW c \in Calls
  PROVE  /\ FlowGoesOn(c) = {} \/ \E op \in StartFlow : FlowGoesOn(c) = {op}
         /\ FlowGoesOn(c) # {} => c.op \in StartFlow /\ (c.code = "ok" \/ Is409(c))
         /\ Is409(c) => FlowGoesOn(c) = {"flowReread"}
         /\ c.op = "flowEnsure" /\ c.code = "ok" => FlowGoesOn(c) # {}
         /\ FlowGoesOn(c) # {} /\ c.code = "ok" => ~Acknowledges(c) /\ c.op \in {"flowEnsure", "flowRow"}
<1>1. FlowGoesOn(c) = IF c.op = "flowEnsure" /\ c.code = "ok" THEN {"flowRow"}
                      ELSE IF c.op = "flowRow" /\ c.code = "ok" /\ c.body.census # "started" THEN {"flowStart"}
                      ELSE IF Is409(c) THEN {"flowReread"} ELSE {}
  BY DEF FlowGoesOn, Is409
<1>2. "flowEnsure" \notin Seals \cup Dates /\ "flowRow" \notin Seals \cup Dates
  BY OpNames DEF Seals, NamedOps, StartFlow
<1> QED BY <1>1, <1>2 DEF Is409, StartFlow, Acknowledges

\* What an acknowledgement stands for is in the rows, and in the answer unless
\* the start was refused as already done.
LEMMA AcknowledgedHas ==
  ASSUME NEW c \in wire, WritesInv, Acknowledges(c)
  PROVE  /\ Has(db, c.tab, c.op)
         /\ c.code = "ok" => Has(c.body, c.tab, c.op)
         /\ c.code # "ok" => Is409(c)
<1>1. c \in Calls /\ c.tab \in Tabs /\ Truthful(c) /\ Backs(db, c.body)
  BY DEF WritesInv, BackedInv, TypeOK, Calls
<1>2. CASE c.code = "ok"
  <2>1. Has(c.body, c.tab, c.op)
    <3>1. CASE c.op \in Seals \cup Dates \cup {"moderate", "flowStart"}
      BY <1>1, <1>2, <3>1 DEF Truthful
    <3>2. CASE c.op \notin Seals \cup Dates \cup {"moderate", "flowStart"}
      <4>1. c.op = "flowRow" /\ c.body.census = "started"
        BY <1>2, <3>2 DEF Acknowledges, Is409
      <4> QED BY <4>1, HasOf DEF StartFlow
    <3> QED BY <3>1, <3>2
  <2> QED BY <1>1, <1>2, <2>1, HasBacked
<1>3. CASE c.code # "ok"
  <2>1. Is409(c)
    BY <1>3 DEF Acknowledges
  <2>2. db.census = "started" /\ c.op = "flowStart"
    BY <1>1, <2>1 DEF Truthful, Is409
  <2> QED BY <1>3, <2>1, <2>2, HasOf DEF StartFlow
<1> QED BY <1>2, <1>3

LEMMA CallHeard ==
  ASSUME NEW d \in Calls
  PROVE  [d EXCEPT !.heard = d.heard] = d
  BY DEF Calls

\* The requests of a tidy card after it heard its answer: one that goes on, or
\* one that asks again, or none.
LEMMA HearMine ==
  ASSUME WritesInv, NEW c \in wire, Hear(c), c.heard, Mine(c.tab) = {c}, c.card = card[c.tab]
  PROVE  \E next : /\ Mine(c.tab)' = {Call(c.tab, c.card, op) : op \in next}
                   /\ (AsksAgain(c) => next = {ReadOf[c.card]})
                   /\ (~AsksAgain(c) => next = FlowGoesOn(c))
<1> DEFINE t == c.tab
           onward == {[Call(t, c.card, op) EXCEPT !.heard = c.heard] : op \in FlowGoesOn(c)}
           rest == (wire \ {c}) \cup onward
<1>1. c \in Calls /\ c.tab \in Tabs /\ c.card \in Cards /\ c.heard = TRUE
  BY DEF WritesInv, BackedInv, TypeOK, Calls
<1>2. onward = {Call(t, c.card, op) : op \in FlowGoesOn(c)}
  <2>1. ASSUME NEW op \in FlowGoesOn(c)
        PROVE  [Call(t, c.card, op) EXCEPT !.heard = c.heard] = Call(t, c.card, op)
    <3>1. Call(t, c.card, op) \in Calls /\ Call(t, c.card, op).heard = c.heard
      BY <1>1, CallType, FlowType DEF Call
    <3> HIDE DEF t
    <3> QED BY <3>1, CallHeard
  <2>2. ASSUME NEW x \in onward PROVE x \in {Call(t, c.card, op) : op \in FlowGoesOn(c)}
    <3>1. PICK op \in FlowGoesOn(c) : x = [Call(t, c.card, op) EXCEPT !.heard = c.heard]
      OBVIOUS
    <3>2. x = Call(t, c.card, op)
      BY <2>1, <3>1
    <3> QED BY <3>2
  <2>3. ASSUME NEW op \in FlowGoesOn(c) PROVE Call(t, c.card, op) \in onward
    <3>1. [Call(t, c.card, op) EXCEPT !.heard = c.heard] \in onward
      OBVIOUS
    <3> QED BY <2>1, <3>1
  <2> QED BY <2>2, <2>3
<1>3. \A op : Call(t, c.card, op).tab = t /\ Call(t, c.card, op).heard /\ Call(t, c.card, op).op = op
  BY DEF Call
<1>4. ASSUME NEW d \in wire, d.tab = t, d.heard PROVE d = c
  <2>1. d \in Mine(c.tab)
    BY <1>4 DEF Mine
  <2> QED BY <2>1
<1>5. CASE ~AsksAgain(c)
  <2>1. wire' = rest
    BY <1>5 DEF Hear
  <2>2. Mine(t)' = onward
    BY <1>2, <1>3, <1>4, <2>1 DEF Mine
  <2> QED BY <1>2, <1>5, <2>2
<1>6. CASE AsksAgain(c)
  <2>1. FlowGoesOn(c) = {}
    BY <1>1, <1>6, OnwardOne, WritesNames DEF AsksAgain, Is409
  <2>2. wire' = Asks(t, rest) /\ onward = {}
    BY <1>1, <1>6, <2>1 DEF Hear
  <2> DEFINE new == Call(t, c.card, ReadOf[c.card])
  <2>3. Asks(t, rest) = {d \in wire \ {c} : ~(d.tab = t /\ d.heard /\ d.op = ReadOf[card[t]])} \cup {new}
    BY <2>2 DEF Asks
  <2>4. new.tab = t /\ new.heard
    BY <1>3
  <2> HIDE DEF new
  <2>5. Mine(t)' = {new}
    BY <1>4, <2>2, <2>3, <2>4 DEF Mine
  <2>6. {new} = {Call(t, c.card, op) : op \in {ReadOf[c.card]}}
    BY DEF new
  <2> QED BY <1>6, <2>5, <2>6
<1> QED BY <1>5, <1>6

LEMMA HearTruthful ==
  ASSUME WritesInv, Kept, NEW c \in wire, Hear(c)
  PROVE  \A d \in wire' : Truthful(d)'
<1>1. \A d \in wire' : d \in wire \/ (d \in Calls /\ d.stage = "sent" /\ d.code = "none")
  BY HearWire DEF WritesInv, BackedInv
<1>2. \A d \in wire' : Truthful(d)
  BY <1>1 DEF WritesInv, Truthful, Is409
<1> QED BY <1>2, TruthfulKept

\* The other tabs, and a tab that does not listen any more, are left alone.
LEMMA HearOthers ==
  ASSUME WritesInv, TypeOK', Kept, NEW c \in wire, Hear(c), NEW u \in Tabs, u # c.tab \/ ~c.heard
  PROVE  Settled(u)'
<1> DEFINE t == c.tab
           onward == {[Call(t, c.card, op) EXCEPT !.heard = c.heard] : op \in FlowGoesOn(c)}
           rest == (wire \ {c}) \cup onward
           new == Call(t, card[t], ReadOf[card[t]])
<1>1. TypeOK /\ c \in Calls /\ t \in Tabs /\ c.heard \in BOOLEAN
  BY DEF WritesInv, BackedInv, TypeOK, Calls
<1>2. \A d \in onward : d.tab = t /\ d.heard = c.heard
  BY DEF Call
<1>3. new.tab = t
  BY DEF Call
<1>4. wire' = rest \/ (c.heard /\ wire' = Asks(t, rest))
  BY DEF Hear
<1> HIDE DEF onward
<1>5. \A d : d.tab = u /\ d.heard => (d \in rest <=> d \in wire)
  BY <1>2
<1> HIDE DEF rest
<1>6. Asks(t, rest) = {d \in rest : ~(d.tab = t /\ d.heard /\ d.op = ReadOf[card[t]])} \cup {new}
  BY DEF Asks
<1> HIDE DEF new
<1>7. Mine(u)' = Mine(u)
  BY <1>3, <1>4, <1>5, <1>6 DEF Mine
<1>8. /\ card'[u] = card[u] /\ shown'[u] = shown[u] /\ wrote'[u] = wrote[u]
      /\ tidy'[u] = tidy[u] /\ error'[u] = error[u]
  <2>1. CASE ~c.heard
    BY <2>1 DEF Hear, tabVars
  <2>2. CASE c.heard /\ u # t
    BY <1>1, <2>2 DEF Hear, TypeOK
  <2> QED BY <2>1, <2>2
<1> QED BY <1>1, <1>7, <1>8, OthersSettled DEF WritesInv

\* What the card that listens makes of an answer.
LEMMA HearShown ==
  ASSUME TypeOK, NEW c \in wire, Hear(c), c.heard
  PROVE  /\ shown'[c.tab] = IF c.code = "ok" /\ FlowGoesOn(c) = {}
                              THEN Holding(c, shown[c.tab]) ELSE shown[c.tab]
         /\ error'[c.tab] => error[c.tab] \/ (c.code # "ok" /\ FlowGoesOn(c) = {})
<1> DEFINE t == c.tab
           onward == {[Call(t, c.card, op) EXCEPT !.heard = c.heard] : op \in FlowGoesOn(c)}
<1>1. t \in Tabs
  BY DEF TypeOK, Calls
<1>2. onward = {} <=> FlowGoesOn(c) = {}
  OBVIOUS
<1>3. /\ shown' = [shown EXCEPT ![t] = IF c.code = "ok" /\ onward = {}
                                         THEN Holding(c, shown[t]) ELSE shown[t]]
      /\ error' = [error EXCEPT ![t] = error[t] \/ (c.code # "ok" /\ onward = {}
                                                     /\ c.op \notin {"outcome", "moderations"})]
  BY DEF Hear
<1> HIDE DEF onward
<1> QED BY <1>1, <1>2, <1>3 DEF TypeOK

LEMMA CallPending ==
  ASSUME NEW t, NEW k, NEW op \in {"times", "flowReread"}, Mine(t)' = {Call(t, k, o) : o \in {op}}
  PROVE  Pending(t)'
<1>1. Call(t, k, op) \in Mine(t)'
  OBVIOUS
<1>2. Call(t, k, op).op = op
  BY DEF Call
<1> QED BY <1>1, <1>2 DEF Pending

\* The card that hears an answer is settled with it.
LEMMA HearSettled ==
  ASSUME WritesInv, TypeOK', Kept, NEW c \in wire, Hear(c), c.heard
  PROVE  Settled(c.tab)'
<1> DEFINE t == c.tab
<1>1. TypeOK /\ c \in Calls /\ t \in Tabs /\ c.op \in Ops /\ c \in Mine(t) /\ card[t] \in Cards
      /\ Truthful(c) /\ Settled(t) /\ c.stage = "answered"
  BY DEF WritesInv, BackedInv, TypeOK, Calls, Hear, Mine
<1> SUFFICES ASSUME tidy'[t] PROVE Settled(t)'
  BY DEF Settled
<1>2. tidy[t] /\ c.code \notin {"lost", "crash"}
  BY <1>1 DEF Hear, TypeOK
<1>3. Mine(t) = {c} /\ c.card = card[t] /\ c.op \in WritesOf[card[t]] \cup {ReadOf[card[t]]}
  BY <1>1, <1>2 DEF Settled
<1>4. PICK next : /\ Mine(t)' = {Call(t, c.card, op) : op \in next}
                  /\ (AsksAgain(c) => next = {ReadOf[c.card]})
                  /\ (~AsksAgain(c) => next = FlowGoesOn(c))
  BY <1>3, HearMine
<1>5. FlowGoesOn(c) # {} => c.card = "start" /\ FlowGoesOn(c) \subseteq StartFlow
  BY <1>1, <1>3, OnwardOne, WritesNames
<1>6. \A a, b \in next : a = b
  BY <1>1, <1>4, OnwardOne
<1>7. next \subseteq WritesOf[card[t]] \cup {ReadOf[card[t]]}
  BY <1>3, <1>4, <1>5 DEF WritesOf
<1>8. card' = card /\ db' = db
      /\ wrote'[t] = (IF Acknowledges(c) THEN wrote[t] \cup {c.op} ELSE wrote[t])
  BY <1>1 DEF Hear, TypeOK
<1>9. wrote'[t] \subseteq WritesOf[card[t]]
  <2>1. wrote[t] \subseteq WritesOf[card[t]]
    BY <1>1, <1>2 DEF Settled
  <2>2. Acknowledges(c) => c.op \in Seals \cup Dates \cup {"moderate", "flowStart", "flowRow"}
    BY DEF Acknowledges, Is409
  <2>3. c.op \in Seals \cup Dates \cup {"moderate", "flowStart", "flowRow"} => c.op # ReadOf[card[t]]
    BY <1>1, OpNames DEF ReadOf, Cards, Seals, NamedOps
  <2> QED BY <1>3, <1>8, <2>1, <2>2, <2>3
<1>10. \A op \in wrote'[t] : Has(db, t, op)
  BY <1>1, <1>2, <1>8, AcknowledgedHas DEF Settled
<1>11. ASSUME NEW op \in wrote'[t] PROVE Has(shown'[t], t, op) \/ Pending(t)'
  <2>1. op \in wrote[t] => Has(shown[t], t, op) \/ c.op \in {"times", "flowReread"}
    BY <1>1, <1>2, <1>3 DEF Settled, Pending
  <2>2. CASE AsksAgain(c)
    <3>1. c.card = "times"
      BY <1>1, <1>3, <2>2, WritesNames DEF AsksAgain
    <3>2. next = {"times"}
      BY <1>4, <2>2, <3>1 DEF ReadOf
    <3> QED BY <1>4, <3>2, CallPending
  <2>3. CASE Is409(c)
    <3>1. next = {"flowReread"}
      BY <1>1, <1>4, <2>3, OnwardOne, WritesNames DEF AsksAgain, Is409
    <3> QED BY <1>4, <3>1, CallPending
  <2>4. CASE ~AsksAgain(c) /\ c.code = "ok" /\ FlowGoesOn(c) # {}
    <3>1. op \in wrote[t] /\ c.op \notin {"times", "flowReread"}
      BY <1>1, <1>8, <2>4, OnwardOne
    <3>2. shown'[t] = shown[t]
      BY <1>1, <2>4, HearShown
    <3> QED BY <2>1, <3>1, <3>2
  <2>5. CASE ~AsksAgain(c) /\ c.code = "ok" /\ FlowGoesOn(c) = {}
    <3>1. c.op \notin Dates /\ c.op # "flowEnsure"
      BY <1>1, <2>5, OnwardOne DEF AsksAgain
    <3>2. Has(c.body, t, op)
      BY <1>1, <1>2, <1>8, <2>5, <3>1, AcknowledgedHas DEF Settled
    <3>3. Has(Holding(c, shown[t]), t, op)
      BY <1>1, <1>3, <1>9, <3>1, <3>2, HoldingHas DEF TypeOK
    <3>4. shown'[t] = Holding(c, shown[t])
      BY <1>1, <2>5, HearShown
    <3> QED BY <3>3, <3>4
  <2>6. CASE c.code # "ok" /\ ~Is409(c)
    <3>1. c.op \in Seals \cup Dates \cup {"flowStart"}
      BY <1>1, <1>2, <2>6 DEF Truthful, Calls, Codes
    <3>2. c.op \notin {"times", "flowReread"}
      BY <3>1, OpNames DEF Seals, NamedOps
    <3>3. op \in wrote[t]
      BY <1>8, <2>6, AcknowledgedHas
    <3>4. shown'[t] = shown[t]
      BY <1>1, <2>6, HearShown
    <3> QED BY <2>1, <3>2, <3>3, <3>4
  <2> QED BY <2>2, <2>3, <2>4, <2>5, <2>6
<1>12. card[t] = "start" => ~error'[t]
  <2> SUFFICES ASSUME card[t] = "start" PROVE ~error'[t]
    OBVIOUS
  <2>1. ~error[t]
    BY <1>1, <1>2 DEF Settled
  <2>2. c.code = "ok" \/ FlowGoesOn(c) # {}
    <3>1. c.op \notin Seals \cup Dates
      BY <1>3, OpNames DEF WritesOf, ReadOf, StartFlow, Seals, NamedOps
    <3>2. c.code \in {"ok", "conflict"} /\ (c.code = "conflict" => c.op = "flowStart")
      BY <1>1, <1>2, <3>1 DEF Truthful, Calls, Codes
    <3> QED BY <1>1, <3>2, OnwardOne DEF Is409
  <2> QED BY <1>1, <2>1, <2>2, HearShown
<1>13. \A a, b \in Mine(t)' : a = b
  BY <1>4, <1>6
<1>14. \A d \in Mine(t)' : d.card = card[t] /\ d.op \in next /\ d.code = "none"
  BY <1>3, <1>4 DEF Call
<1>15. \A op : Has(db, t, op)' <=> Has(db, t, op)
  BY <1>8 DEF Has
<1>16. \A op : Has(shown[t], t, op)' <=> Has(shown'[t], t, op)
  BY DEF Has
<1> QED BY <1>7, <1>8, <1>9, <1>10, <1>11, <1>12, <1>13, <1>14, <1>15, <1>16 DEF Settled

LEMMA WritesStep == WritesInv /\ [Next]_vars => WritesInv'
<1> SUFFICES ASSUME WritesInv, [Next]_vars PROVE WritesInv'
  OBVIOUS
<1>1. TypeOK' /\ Kept /\ BackedInv'
  BY TypeStep, KeptStep, NextBacked DEF WritesInv, BackedInv
<1> SUFFICES (\A d \in wire' : Truthful(d)') /\ (\A t \in Tabs : Settled(t)')
  BY <1>1 DEF WritesInv
<1>2. CASE UserStep
  <2>1. PICK t \in Tabs : \/ onStart(t) \/ submitModeration(t) \/ confirmPeriod(t) \/ ratify(t)
                          \/ (\E s \in Seals : onConfirmIntent(t, s))
                          \/ (\E d \in Dates : submitTime(t, d))
                          \/ (\E k \in Cards : Navigate(t, k))
    BY <1>2 DEF UserStep
  <2>2. CASE \E k \in Cards : Navigate(t, k)
    BY <1>1, <2>2, NavigateWrites
  <2>3. CASE ~\E k \in Cards : Navigate(t, k)
    <3>1. PICK op \in WritesOf[card[t]] : Press(t, op)
      BY <2>1, <2>3, ButtonsWrite DEF WritesInv, BackedInv
    <3> QED BY <1>1, <3>1, PressWrites
  <2> QED BY <2>2, <2>3
<1>3. CASE AnswerStep
  <2>1. PICK c \in wire : Look(c) \/ Commit(c) \/ Hear(c)
    BY <1>3 DEF AnswerStep, Backend
  <2>2. CASE Look(c)
    BY <1>1, <2>2, LookWrites
  <2>3. CASE Commit(c)
    BY <1>1, <2>3, CommitWrites
  <2>4. CASE Hear(c)
    <3>1. \A d \in wire' : Truthful(d)'
      BY <1>1, <2>4, HearTruthful
    <3>2. ASSUME NEW u \in Tabs PROVE Settled(u)'
      <4>1. CASE u = c.tab /\ c.heard
        BY <1>1, <2>4, <4>1, HearSettled
      <4>2. CASE ~(u = c.tab /\ c.heard)
        BY <1>1, <2>4, <4>2, HearOthers
      <4> QED BY <4>1, <4>2
    <3> QED BY <3>1, <3>2
  <2> QED BY <2>1, <2>2, <2>3, <2>4
<1>4. CASE RecordMeasurement \/ UNCHANGED vars
  <2>1. wire' = wire /\ UNCHANGED tabVars
    BY <1>4 DEF RecordMeasurement, vars, tabVars
  <2>2. \A d \in wire' : Truthful(d)'
    BY <1>1, <2>1, TruthfulKept DEF WritesInv
  <2>3. ASSUME NEW t \in Tabs PROVE Settled(t)'
    <3>1. Mine(t)' = Mine(t)
      BY <2>1 DEF Mine
    <3> QED BY <1>1, <2>1, <3>1, OthersSettled DEF WritesInv, BackedInv, tabVars
  <2> QED BY <2>2, <2>3
<1>5. CASE \E c \in wire : Lose(c)
  BY <1>1, <1>5, LoseWrites
<1> QED BY <1>2, <1>3, <1>4, <1>5 DEF Next

\* "Persisted - survives a refresh", for any number of tabs and any overlap of
\* their handlers: a card at rest, which never had two requests of its own
\* under way and lost none, shows every write it was told had succeeded, and a
\* lost race for Start settles on the started row without an error.
THEOREM WritesShownAlways == Spec => []WritesShown
<1>1. WritesInv => WritesShown
  <2> SUFFICES ASSUME WritesInv, NEW t \in Tabs, tidy[t], Mine(t) = {}, NEW op \in wrote[t]
               PROVE  Shows(t, op) /\ (op \in StartFlow => ~error[t])
    BY DEF WritesShown
  <2>1. Settled(t) /\ TypeOK
    BY DEF WritesInv, BackedInv
  <2>2. Has(shown[t], t, op) /\ op \in WritesOf[card[t]] /\ (card[t] = "start" => ~error[t])
        /\ card[t] \in Cards
    BY <2>1 DEF Settled, Pending, TypeOK
  <2>3. op \in StartFlow => card[t] = "start"
    BY <2>2, WritesNames
  <2>4. Shows(t, op)
    BY <2>2 DEF Shows, Has
  <2> QED BY <2>2, <2>3, <2>4
<1>2. WritesInv /\ [Next]_vars => WritesInv'
  BY WritesStep
<1> QED BY InitWrites, <1>1, <1>2, PTL DEF Spec
=============================================================================

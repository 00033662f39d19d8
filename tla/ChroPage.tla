-------------------------------- MODULE ChroPage --------------------------------
(***************************************************************************)
(* The sitting of the function leader: answers, typed over sample text, are*)
(* saved as a whole list; one of their sentences is drafted as the line of *)
(* this period, on the work system, and confirmed by name.                 *)
(***************************************************************************)
EXTENDS SitClosePage

CONSTANTS CoreIds,     \* CORE_ANSWER_IDS: the questions in their order
          ThisPeriod,  \* the question about this period
          Checks,      \* checks of the HR pack
          Sentences    \* what a person may say

\* A sentence that repeats a sample word for word is that sample, and none of these.
ASSUME ChroAssumption == /\ ThisPeriod \in ToSet(CoreIds)
                         /\ "" \notin Sentences \cup ToSet(CoreIds)
                         /\ Sentences \cap ToSet(CoreIds) = {}

Core == ToSet(CoreIds)

\* The sample text of a question is known by the question.  Blank stands for
\* every text that is too short for a line.
IsSample(text) == text \in Core

NoAnswers == [core |-> [q \in Core |-> ""], anchors |-> {}]

\* The line of the period.
Intent(label) == [label |-> label, confirmed |-> FALSE]

\* No work system yet.
NoLine == Intent(Nothing)

\* A sitting that was not opened yet, or one where something was said and drafted.
NewSitting == [session |-> FALSE, answers |-> NoAnswers, ws |-> NoLine]

SaidBefore(s) ==
  [session |-> TRUE, answers |-> [NoAnswers EXCEPT !.core[Head(CoreIds)] = s], ws |-> Intent(s)]

\* look: a guest, who only looks.  pack: the checks of the HR pack, or none where
\* they could not be read; they are there before the last step.  The seat of the sitting has a banner of its own.
ChroUi(look, sample, pack) ==
  [look |-> look, sample |-> sample, step |-> 1, session |-> FALSE, ws |-> NoLine,
   core |-> [q \in Core |-> IF sample THEN q ELSE ""], stored |-> NoAnswers.core,
   anchors |-> {}, pack |-> pack, label |-> "", confirmed |-> FALSE, busy |-> FALSE,
   error |-> FALSE, needsKey |-> FALSE, seatKey |-> FALSE]

SittingSteps == Len(CoreIds) + 1

CurrentQuestion(u) == IF u.step \in DOMAIN CoreIds THEN CoreIds[u.step] ELSE ThisPeriod

\* The answer on screen, or that about the period, or the first there is.
LastUsable(core, current) ==
  LET given == SelectSeq(<<current, core[ThisPeriod]>> \o [i \in DOMAIN CoreIds |-> core[CoreIds[i]]],
                         LAMBDA text : text # "")
  IN IF given = <<>> THEN "" ELSE Head(given)

LiveDraft(u) == LastUsable(u.core, u.core[CurrentQuestion(u)])

SampleLive(u) == u.sample /\ IsSample(LiveDraft(u))

ShownDraft(u) == IF u.label = "" /\ u.look /\ ~SampleLive(u) THEN LiveDraft(u) ELSE u.label

\* focusInAnswers: the line is words of these answers.
FocusIn(label, answers) == label # "" /\ (label \in Range(answers.core) \/ label \in answers.anchors)

\* The effect on the work system and the answers.
WithLine(u) ==
  IF u.ws = NoLine THEN u
  ELSE IF (u.ws.confirmed /\ u.ws.label # "") \/ FocusIn(u.ws.label, [core |-> u.core, anchors |-> u.anchors])
       THEN [u EXCEPT !.label = u.ws.label, !.confirmed = u.ws.confirmed]
       ELSE u

-----------------------------------------------------------------------------
(* What is saved: the whole list, each sample replaced by what is stored.  *)

\* Mutant: the sample is sent with the rest.
PersistableAsDrawn(u, core) == core

Persistable(u, core) == [q \in Core |-> IF u.sample /\ core[q] = q THEN u.stored[q] ELSE core[q]]

HasText(answers) == answers.anchors # {} \/ \E q \in Core : answers.core[q] # ""

Persists(u, answers) == ~u.look /\ u.session /\ HasText(answers)

ToSave(u, core, anchors) == [core |-> Persistable(u, core), anchors |-> anchors]

OnChro == page = "chro"

\* Bound: an answer is blanked only while no request is under way.
TypeAnswer ==
  /\ OnChro /\ ui.step \in DOMAIN CoreIds
  /\ \E text \in Sentences \cup {""} :
       /\ text # ui.core[CoreIds[ui.step]]
       /\ text = "" => jobs = {}
       /\ ui' = WithLine([ui EXCEPT !.core[CoreIds[ui.step]] = text])
  /\ Looks

\* Bound: while no request is under way.
GoBack ==
  /\ OnChro /\ ui.step > 1
  /\ jobs = {}
  /\ ui' = [ui EXCEPT !.step = @ - 1]
  /\ Looks

\* Next saves first; it may be clicked again meanwhile, and goes to the same step.
GoNext ==
  /\ OnChro /\ ui.step < SittingSteps
  /\ LET answers == ToSave(ui, ui.core, ui.anchors) IN
       IF Persists(ui, answers)
       THEN /\ ui' = [ui EXCEPT !.error = FALSE]
            /\ Starts({<<"putNext", [answers |-> answers, step |-> ui.step + 1]>>})
       ELSE /\ ui' = [ui EXCEPT !.error = FALSE, !.step = @ + 1]
            /\ UNCHANGED <<jobs, tidy, acts>>
  /\ Clicks

ToggleAnchor ==
  /\ OnChro /\ ui.step = SittingSteps
  /\ \E a \in ui.pack :
       LET anchors == IF a \in ui.anchors THEN ui.anchors \ {a} ELSE ui.anchors \cup {a}
           answers == ToSave(ui, ui.core, anchors)
       IN /\ ui' = WithLine([ui EXCEPT !.anchors = anchors])
          /\ IF Persists(ui, answers)
             THEN Starts({<<"putAnchor", [answers |-> answers]>>})
             ELSE UNCHANGED <<jobs, tidy, acts>>
  /\ Clicks

-----------------------------------------------------------------------------
(* This period's line.                                                     *)

\* The answers are saved, the work system is made, the line is drafted; the
\* sentence and whether there is a work system are those of the click.
AfterSaving(arg) == IF arg.ws THEN <<"draftLine", arg>> ELSE <<"ensureWs", arg>>

UseAsLine(sentence) ==
  LET core == IF ui.core[ThisPeriod] = "" THEN [ui.core EXCEPT ![ThisPeriod] = sentence] ELSE ui.core
      answers == ToSave(ui, core, ui.anchors)
      arg == [answers |-> answers, sentence |-> sentence, ws |-> ui.ws # NoLine]
      Filled(u) == IF core = ui.core THEN u ELSE WithLine([u EXCEPT !.core = core])
      cleared == [ui EXCEPT !.error = FALSE]
  IN IF ui.look \/ IsSample(sentence)
     THEN /\ ui' = Filled([cleared EXCEPT !.label = sentence, !.confirmed = FALSE])
          /\ UNCHANGED <<jobs, tidy, acts>>
     ELSE IF ~ui.session
     THEN /\ ui' = Filled([cleared EXCEPT !.error = TRUE])
          /\ UNCHANGED <<jobs, tidy, acts>>
     ELSE /\ ui' = Filled([cleared EXCEPT !.busy = TRUE])
          /\ Starts({IF Persists(ui, answers) THEN <<"putLine", arg>> ELSE AfterSaving(arg)})

UseLiveDraft ==
  /\ OnChro /\ ~ui.busy /\ ~ui.confirmed
  /\ LiveDraft(ui) # "" /\ ~SampleLive(ui)
  /\ ui.look \/ ui.session
  /\ UseAsLine(LiveDraft(ui))
  /\ Clicks

\* Edit begins with the line and may end with any text, a sample among them.
SaveEdit ==
  /\ OnChro /\ ~ui.busy /\ ~ui.confirmed
  /\ ShownDraft(ui) # ""
  /\ \E text \in Sentences \cup Core : UseAsLine(text)
  /\ Clicks

ConfirmLine ==
  /\ OnChro /\ ~ui.busy /\ ~ui.confirmed /\ ~ui.look
  /\ ui.ws # NoLine
  /\ ShownDraft(ui) # "" /\ ~IsSample(ShownDraft(ui))
  /\ Starts({<<"confirmLine", ui.label>>})
  /\ ui' = [ui EXCEPT !.busy = TRUE, !.error = FALSE]
  /\ Clicks

\* The banner of the sitting only goes away.
ChroKey ==
  /\ OnChro /\ ui.needsKey
  /\ ui' = [ui EXCEPT !.needsKey = FALSE]
  /\ Looks

\* The banner of the seat opens the sitting again.
SeatKey ==
  /\ OnChro /\ ui.seatKey
  /\ Starts({<<"seat", Nothing>>})
  /\ UNCHANGED ui /\ Clicks

ChroClick == TypeAnswer \/ GoBack \/ GoNext \/ ToggleAnchor \/ UseLiveDraft \/ SaveEdit
             \/ ConfirmLine \/ ChroKey \/ SeatKey

-----------------------------------------------------------------------------
(* The backend.                                                            *)

AnswersPut == {"putNext", "putAnchor", "putLine"}

EnsuredWs == IF db.ws = NoLine THEN [db EXCEPT !.ws = Intent("")] ELSE db

\* A line is words of the stored answers, and is not confirmed yet.
Draftable(label) == ~db.ws.confirmed /\ FocusIn(label, db.answers)

ServeChro(j) ==
  /\ \/ Sent(j, "seat") /\ Answers(j, "ok", db.session, db)
     \/ Sent(j, "newSeat") /\ Answers(j, "ok", TRUE, [db EXCEPT !.session = TRUE])
     \/ /\ j.op \in {"ws", "ensureWs"} /\ j.stage = "sent"
        /\ Answers(j, "ok", EnsuredWs.ws, EnsuredWs)
     \/ Sent(j, "answers") /\ Answers(j, "ok", db.answers, db)
     \/ /\ j.op \in AnswersPut /\ j.stage = "sent"
        /\ Answers(j, "ok", <<>>, [db EXCEPT !.answers = Arg(j).answers])
     \/ /\ Sent(j, "draftLine")
        /\ LET rows == [db EXCEPT !.ws.label = Arg(j).sentence]
           IN IF Draftable(Arg(j).sentence) THEN Answers(j, "ok", rows.ws, rows)
                                            ELSE Answers(j, "refused", Nothing, db)
     \/ /\ Sent(j, "confirmLine")
        /\ LET rows == [db EXCEPT !.ws.confirmed = TRUE]
           IN IF db.ws.confirmed THEN Answers(j, "conflict", Nothing, db)
                                 ELSE Answers(j, "ok", rows.ws, rows)
  /\ Serves

\* Another visitor confirms the line, or drafts another, from the same answers.
LineElsewhere ==
  /\ OnChro /\ db.ws # NoLine /\ ~db.ws.confirmed
  /\ acts < MaxActs[page]
  /\ acts' = acts + 1
  /\ calm' = FALSE
  /\ \/ db' = [db EXCEPT !.ws.confirmed = TRUE]
     \/ \E s \in Range(db.answers.core) \ {"", db.ws.label} : db' = [db EXCEPT !.ws.label = s]
  /\ UNCHANGED <<page, jobs, ui, tidy, faults>>

-----------------------------------------------------------------------------
(* What the page makes of the answers.                                     *)

Failed(state, j) == IF j.code = "noKey" THEN [state EXCEPT !.needsKey = TRUE]
                                        ELSE [state EXCEPT !.error = TRUE]

\* Stored answers fill the blanks and replace the samples.
MergedCore(state, answers) ==
  [q \in Core |-> IF answers.core[q] # "" /\ (state.core[q] = "" \/ (state.sample /\ state.core[q] = q))
                  THEN answers.core[q] ELSE state.core[q]]

\* ensureSeatSession: the sitting of the seat is found, or it is opened.
HearSeat(j) ==
  /\ \/ Heard(j, "seat") \/ Heard(j, "newSeat")
  /\ IF j.code # "ok"
     THEN /\ ui' = IF j.code = "noKey" THEN [ui EXCEPT !.seatKey = TRUE] ELSE ui
          /\ Over(j)
     ELSE IF Body(j)
     THEN /\ ui' = [ui EXCEPT !.session = TRUE, !.seatKey = FALSE]
          /\ IF ui.session THEN Over(j) ELSE GoesOn(j, "answers", Nothing)
     ELSE UNCHANGED ui /\ GoesOn(j, "newSeat", Nothing)
  /\ Hears

HearMount(j) ==
  /\ \/ Heard(j, "ws") /\ ui' = IF j.code = "ok" THEN WithLine([ui EXCEPT !.ws = Body(j)]) ELSE ui
     \/ /\ Heard(j, "answers")
        /\ ui' = IF j.code # "ok" THEN Failed(ui, j)
                 ELSE WithLine([ui EXCEPT !.stored = Body(j).core, !.core = MergedCore(ui, Body(j)),
                                          !.anchors = @ \cup Body(j).anchors])
  /\ Over(j)
  /\ Hears

HearPut(j) ==
  /\ \/ /\ Heard(j, "putNext")
        /\ ui' = IF j.code = "ok" THEN [ui EXCEPT !.step = Arg(j).step] ELSE Failed(ui, j)
        /\ Over(j)
     \/ /\ Heard(j, "putAnchor")
        /\ ui' = IF j.code = "ok" THEN ui ELSE Failed(ui, j)
        /\ Over(j)
     \/ /\ Heard(j, "putLine")
        /\ IF j.code = "ok"
           THEN UNCHANGED ui /\ GoesOn(j, AfterSaving(Arg(j))[1], Arg(j))
           ELSE ui' = [Failed(ui, j) EXCEPT !.busy = FALSE] /\ Over(j)
  /\ Hears

WithWs(ws) == WithLine([ui EXCEPT !.ws = ws, !.label = ws.label, !.confirmed = ws.confirmed, !.busy = FALSE])

HearLine(j) ==
  /\ \/ /\ Heard(j, "ensureWs")
        /\ IF j.code = "ok"
           THEN ui' = WithLine([ui EXCEPT !.ws = Body(j)]) /\ GoesOn(j, "draftLine", Arg(j))
           ELSE ui' = [Failed(ui, j) EXCEPT !.busy = FALSE] /\ Over(j)
     \/ /\ Heard(j, "draftLine") \/ Heard(j, "confirmLine")
        /\ ui' = IF j.code # "ok" THEN [Failed(ui, j) EXCEPT !.busy = FALSE]
                 ELSE IF j.op = "draftLine" THEN [WithWs(Body(j)) EXCEPT !.needsKey = FALSE]
                 ELSE WithWs(Body(j))
        /\ Over(j)
  /\ Hears

HearChro(j) == HearSeat(j) \/ HearMount(j) \/ HearPut(j) \/ HearLine(j)
=============================================================================

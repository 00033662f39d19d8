------------------------------- MODULE ScopePages -------------------------------
(***************************************************************************)
(* Function Scope, where each sub-function is put in scope and given an    *)
(* owner, and the Spec page, where a check of the spec gateway is sent.    *)
(***************************************************************************)
EXTENDS GenomePages

CONSTANTS Subs,    \* sub-functions
          Owners,  \* what may be typed as an owner
          SpecUnits, Preferred,  \* units of the tenant, and the one Spec selects
          Strict   \* units whose actor is outside their constraints

ASSUME ScopeAssumption == /\ "" \in Owners /\ Nothing \notin Subs
                          /\ Preferred \in SpecUnits /\ Strict \subseteq SpecUnits

-----------------------------------------------------------------------------
(* Function Scope.  The select of the priority does what the checkbox does.*)

Board == [Subs -> [in_scope : BOOLEAN, owner_name : Owners]]

EmptyBoard == [s \in Subs |-> [in_scope |-> FALSE, owner_name |-> ""]]

\* draft: the owner each card was mounted with, or what was typed since.
GridUi == [fn |-> "hr", data |-> Nothing, draft |-> [s \in Subs |-> ""], busy |-> {},
           focus |-> Nothing, error |-> FALSE, needsKey |-> FALSE]

GridDrawn == /\ page = "scope"
             /\ ui.fn = "hr" /\ ~ui.needsKey /\ ~ui.error /\ ui.data # Nothing

\* The cards, and their drafts, are new when the grid is drawn again.
CardsMounted(state) == [state EXCEPT !.draft = [s \in Subs |-> state.data[s].owner_name]]

\* Only HR is built: any other function unmounts the grid.
SelectFunction ==
  /\ page = "scope"
  /\ IF ui.fn = "hr"
     THEN /\ ui' = [GridUi EXCEPT !.fn = "other"]
          /\ jobs' = Abandoned
          /\ UNCHANGED <<tidy, acts>>
     ELSE ui' = GridUi /\ Starts({<<"board", Nothing>>})
  /\ Clicks

\* The value, as a body, is kept under the name of its field.
Patch(s, field, value) ==
  /\ Starts({<<"patch", [sub |-> s, field |-> field, value |-> Under(field, value)]>>})
  /\ ui' = [ui EXCEPT !.busy = @ \cup {s}, !.focus = Nothing]

\* A click takes the focus from the owner that is being typed, so the owner is
\* sent first.
InScope ==
  /\ GridDrawn /\ ui.focus = Nothing
  /\ \E s \in Subs \ ui.busy : Patch(s, "in_scope", ~ui.data[s].in_scope)
  /\ Clicks

TypeOwner ==
  /\ GridDrawn
  /\ \E s \in Subs \ ui.busy, o \in Owners :
       /\ ui.focus \in {Nothing, s}
       /\ o # ui.draft[s]
       /\ ui' = [ui EXCEPT !.draft[s] = o, !.focus = s]
  /\ Looks

BlurOwner ==
  /\ GridDrawn /\ ui.focus # Nothing
  /\ LET s == ui.focus IN
       IF ui.draft[s] # ui.data[s].owner_name
       THEN Patch(s, "owner_name", ui.draft[s])
       ELSE ui' = [ui EXCEPT !.focus = Nothing] /\ UNCHANGED <<jobs, tidy, acts>>
  /\ Clicks

\* The owner of a sub-function in scope is the name a new interview begins with:
\* from here on the rows are those of a session that is not there yet.
StartInterview ==
  /\ GridDrawn /\ ui.focus = Nothing
  /\ \E s \in Subs : ui.data[s].in_scope /\ ui' = NewSessionUi(ui.data[s].owner_name)
  /\ page' = "newSession"
  /\ db' = Nothing
  /\ jobs' = {}
  /\ UNCHANGED <<tidy, calm, acts, faults>>

ScopeKey ==
  /\ page = "scope"
  /\ ui.fn = "hr" /\ ui.needsKey
  /\ Starts({<<"board", Nothing>>})
  /\ ui' = [ui EXCEPT !.error = FALSE]
  /\ Clicks

NewValue(change) == change.value[change.field]

Patched(board, change) == [board EXCEPT ![change.sub][change.field] = NewValue(change)]

\* One row is updated, and the answer is the whole board.
ServeScope(j) ==
  /\ \/ Sent(j, "board") /\ Answers(j, "ok", db, db)
     \/ Sent(j, "patch") /\ LET board == Patched(db, Arg(j))
                            IN Answers(j, "ok", board, board)
  /\ Serves

HearBoard(j) ==
  /\ Heard(j, "board")
  /\ Over(j)
  /\ ui' = CASE j.code = "ok" -> CardsMounted([ui EXCEPT !.data = Body(j), !.needsKey = FALSE])
             [] j.code = "noKey" -> [ui EXCEPT !.needsKey = TRUE]
             [] OTHER -> [ui EXCEPT !.error = TRUE]
  /\ Hears

\* A card that failed says nothing; its draft stays.
BoardAfter(j) == Body(j)

HearPatch(j) ==
  /\ Heard(j, "patch")
  /\ Over(j)
  /\ LET free == [ui EXCEPT !.busy = @ \ {Arg(j).sub}]
     IN ui' = CASE j.code = "ok" -> [free EXCEPT !.data = BoardAfter(j)]
                [] j.code = "noKey" -> [free EXCEPT !.needsKey = TRUE, !.focus = Nothing]
                [] OTHER -> free
  /\ Hears

ScopeClick == SelectFunction \/ InScope \/ TypeOwner \/ BlurOwner \/ StartInterview \/ ScopeKey

-----------------------------------------------------------------------------
(* Spec.                                                                   *)

CheckTypes == {"authority", "evidence", "condition", "acceptance"}

States == {"", "current", "desired"}

\* A token or a state is known by the unit it was filled from.
CheckUi == [units |-> {}, code |-> Nothing, checkType |-> "authority", approver |-> Nothing,
            state |-> <<Nothing, "">>, evidence |-> TRUE, typed |-> FALSE, last |-> Nothing,
            checks |-> Nothing, error |-> FALSE, info |-> FALSE]

\* The effect of a new unit, or a new type: the approver and, where the type
\* asks for a state, the state are filled in.
Prefilled(old, new) ==
  IF new.code = Nothing THEN new
  ELSE [new EXCEPT !.approver = new.code, !.typed = FALSE,
          !.state = IF new.checkType = "condition" THEN <<new.code, "current">>
                    ELSE IF new.checkType = "acceptance" THEN <<new.code, "desired">> ELSE @]

HearSpecUnits(j) ==
  /\ Heard(j, "specUnits")
  /\ Over(j)
  /\ ui' = IF j.code # "ok" THEN ui
           ELSE Prefilled(ui, [ui EXCEPT !.units = Body(j), !.code = Preferred])
  /\ Hears

PickUnit ==
  /\ \E c \in ui.units \ {ui.code} : ui' = Prefilled(ui, [ui EXCEPT !.code = c])
  /\ Looks

PickType ==
  /\ \E t \in CheckTypes \ {ui.checkType} : ui' = Prefilled(ui, [ui EXCEPT !.checkType = t])
  /\ Looks

TypeOver ==
  /\ ~ui.typed
  /\ \/ ui' = [ui EXCEPT !.approver = Nothing, !.typed = TRUE]
     \/ ui' = [ui EXCEPT !.state = <<ui.code, "">>, !.typed = TRUE]
     \/ ui' = [ui EXCEPT !.evidence = ~@, !.typed = TRUE]
  /\ Looks

Check ==
  /\ ui.code # Nothing
  /\ Starts({<<"check", [unit |-> ui.code, type |-> ui.checkType, approver |-> ui.approver,
                         state |-> ui.state, evidence |-> ui.evidence, typed |-> ui.typed]>>})
  /\ ui' = [ui EXCEPT !.error = FALSE, !.info = FALSE]
  /\ Clicks

ListChecks ==
  /\ Starts({<<"checks", Nothing>>})
  /\ ui' = [ui EXCEPT !.error = FALSE]
  /\ Clicks

\* A check holds what the fields were when it was sent: they are taken to be
\* changed while none is under way.
FillForm == ~Waiting({"check", "checks"}) /\ (PickUnit \/ PickType \/ TypeOver)

SpecClick == page = "spec" /\ (FillForm \/ Check \/ ListChecks)

Allowed(c) ==
  CASE c.type = "authority" -> c.approver = c.unit /\ c.unit \notin Strict
    [] c.type = "evidence" -> c.evidence
    [] c.type = "condition" -> c.state = <<c.unit, "current">>
    [] c.type = "acceptance" -> c.state = <<c.unit, "desired">>

\* A denial is an answer like any other, and a row of the audit trail.
Result(c) == IF Allowed(c) THEN "allowed" ELSE "denied"

ServeSpec(j) ==
  /\ \/ Sent(j, "specUnits") /\ Answers(j, "ok", SpecUnits, db)
     \/ Sent(j, "check") /\ Answers(j, "ok", Result(Arg(j)), Append(db, Result(Arg(j))))
     \/ Sent(j, "checks") /\ Answers(j, "ok", db, db)
  /\ Serves

\* After a check the trail is read again; the two share one place for errors.
HearSpec(j) ==
  /\ \/ /\ Heard(j, "check")
        /\ IF j.code = "ok"
           THEN /\ ui' = [ui EXCEPT !.last = Body(j), !.info = TRUE, !.error = FALSE]
                /\ GoesOn(j, "checks", Nothing)
           ELSE /\ ui' = [ui EXCEPT !.error = TRUE]
                /\ Over(j)
     \/ /\ Heard(j, "checks")
        /\ ui' = IF j.code = "ok" THEN [ui EXCEPT !.checks = Body(j)] ELSE [ui EXCEPT !.error = TRUE]
        /\ Over(j)
  /\ Hears
=============================================================================

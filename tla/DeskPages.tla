------------------------------- MODULE DeskPages -------------------------------
(***************************************************************************)
(* Two pages of the offer desk that upload a file: Spec deny asks for a    *)
(* unit without evidence, is refused, uploads evidence and asks again; the *)
(* document check shows the hash of a file, beside a list that stays in    *)
(* the browser.                                                            *)
(***************************************************************************)
EXTENDS EvidencePage

CONSTANT Documents  \* MISSING_DOC_STARTER, and what may be added

\* No result of a check is taken for none.
ASSUME ResultAssumption == Nothing \notin {"allowed", "denied"}

\* A unit is known by whether its contract requires evidence; a check by whether
\* it had a reference, and by its result.
Desk(units) == [units |-> units, files |-> 0, checks |-> <<>>]

DenyUi == [units |-> Nothing, check |-> Nothing, busy |-> FALSE, needsKey |-> FALSE, error |-> FALSE,
           evidence |-> FALSE, cleared |-> Nothing, clearing |-> FALSE, clearError |-> FALSE]

HelperUi == [items |-> Documents, uploaded |-> FALSE, uploading |-> FALSE, needsKey |-> FALSE, error |-> FALSE]

-----------------------------------------------------------------------------
(* The backend.                                                            *)

EvidenceCheck(required, ref) == [ref |-> ref, result |-> IF required /\ ~ref THEN "denied" ELSE "allowed"]

Checked(j, required, ref) ==
  LET row == EvidenceCheck(required, ref)
  IN Answers(j, "ok", row.result, [db EXCEPT !.checks = Append(@, row)])

ServeDesk(j) ==
  /\ \/ Sent(j, "askUnits") /\ Answers(j, "ok", db.units, db)
     \/ Sent(j, "ask") /\ Checked(j, Arg(j), FALSE)
     \/ Sent(j, "clearCheck") /\ Checked(j, Arg(j), TRUE)
     \/ j.op \in {"upload", "helperUpload"} /\ j.stage = "sent" /\ Answers(j, "ok", TRUE, [db EXCEPT !.files = @ + 1])
  /\ Serves

-----------------------------------------------------------------------------
(* Spec deny.                                                              *)

\* target: the first unit that requires evidence, or else the first.
Target(units) == \E i \in DOMAIN units : units[i]

Denied == ui.check = "denied"

\* The units are read once; a tenant without any has nothing to ask for.
AskWithoutPass ==
  /\ page = "deny" /\ ~ui.busy
  /\ LET cleared == [ui EXCEPT !.error = FALSE, !.check = Nothing]
     IN IF ui.units = <<>>
        THEN /\ ui' = [cleared EXCEPT !.error = TRUE]
             /\ UNCHANGED <<jobs, tidy, acts>>
        ELSE /\ ui' = [cleared EXCEPT !.busy = TRUE]
             /\ Starts({IF ui.units = Nothing THEN <<"askUnits", Nothing>> ELSE <<"ask", Target(ui.units)>>})
  /\ Clicks

\* The button goes away with the first upload that was answered.
ClearWithEvidence ==
  /\ page = "deny" /\ Denied /\ ~ui.evidence /\ ~ui.clearing
  /\ Starts({<<"upload", Target(ui.units)>>})
  /\ ui' = [ui EXCEPT !.clearing = TRUE, !.clearError = FALSE]
  /\ Clicks

AskFailed(j) == IF j.code = "noKey" THEN [ui EXCEPT !.busy = FALSE, !.needsKey = TRUE]
                                    ELSE [ui EXCEPT !.busy = FALSE, !.error = TRUE]

HearAsk(j) ==
  /\ \/ /\ Heard(j, "askUnits")
        /\ IF j.code # "ok" THEN ui' = AskFailed(j) /\ Over(j)
           ELSE IF Body(j) = <<>> THEN ui' = [ui EXCEPT !.units = <<>>, !.busy = FALSE, !.error = TRUE] /\ Over(j)
           ELSE ui' = [ui EXCEPT !.units = Body(j)] /\ GoesOn(j, "ask", Target(Body(j)))
     \/ /\ Heard(j, "ask")
        /\ ui' = IF j.code = "ok" THEN [ui EXCEPT !.check = Body(j), !.needsKey = FALSE, !.busy = FALSE]
                 ELSE AskFailed(j)
        /\ Over(j)
  /\ Hears

HearClear(j) ==
  /\ \/ /\ Heard(j, "upload")
        /\ IF j.code = "ok" THEN ui' = [ui EXCEPT !.evidence = TRUE] /\ GoesOn(j, "clearCheck", Arg(j))
                            ELSE ui' = [ui EXCEPT !.clearing = FALSE, !.clearError = TRUE] /\ Over(j)
     \/ /\ Heard(j, "clearCheck")
        /\ ui' = IF j.code = "ok" THEN [ui EXCEPT !.cleared = Body(j), !.clearing = FALSE]
                                  ELSE [ui EXCEPT !.clearing = FALSE, !.clearError = TRUE]
        /\ Over(j)
  /\ Hears

-----------------------------------------------------------------------------
(* The document check.                                                     *)

EditHelperList ==
  /\ page = "docCheck"
  /\ \E d \in Documents : ui' = [ui EXCEPT !.items = IF d \in @ THEN @ \ {d} ELSE @ \cup {d}]
  /\ Looks

\* The button, or the banner of the key, which does not wait for an upload.
UploadVerification ==
  /\ page = "docCheck" /\ ~ui.uploaded
  /\ ~ui.uploading \/ ui.needsKey
  /\ Starts({<<"helperUpload", Nothing>>})
  /\ ui' = [ui EXCEPT !.uploading = TRUE, !.error = FALSE]
  /\ Clicks

HearUpload(j) ==
  /\ Heard(j, "helperUpload")
  /\ ui' = CASE j.code = "ok" -> [ui EXCEPT !.uploaded = TRUE, !.needsKey = FALSE, !.uploading = FALSE]
             [] j.code = "noKey" -> [ui EXCEPT !.needsKey = TRUE, !.uploading = FALSE]
             [] OTHER -> [ui EXCEPT !.error = TRUE, !.uploading = FALSE]
  /\ Over(j)
  /\ Hears

DeskKey ==
  /\ page = "deny" /\ ui.needsKey
  /\ ui' = [ui EXCEPT !.needsKey = FALSE]
  /\ Looks

DeskClick == AskWithoutPass \/ ClearWithEvidence \/ DeskKey \/ EditHelperList \/ UploadVerification

HearDesk(j) == HearAsk(j) \/ HearClear(j) \/ HearUpload(j)
=============================================================================

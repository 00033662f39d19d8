------------------------------- MODULE MCWorkbench -------------------------------
(* Two business objects, two sub-functions, two sample rows and two cells. *)
EXTENDS Workbench

CONSTANTS offer, joiner, u1, u2, pay, hire, w1, w2, f1, f2, s1, s2, hand, goal, authority, ann, pain, period, dual, said, also, sheet, pdf, scan, note, c1, c2, inputs, decides, paper, letter

MCMaxActs == [p \in {"versions", "genome", "scope", "spec", "newSession", "scout", "sitClose", "chro", "evidence", "deny", "docCheck"} |->
                IF p \in {"spec", "chro", "evidence"} THEN 2 ELSE IF p \in {"deny", "docCheck"} THEN 4 ELSE 3]
MCObjects == {offer, joiner}
MCUnitsOf == [o \in MCObjects |-> IF o = offer THEN {u1} ELSE {u2}]
MCSubs == {pay, hire}
MCOwners == {"", "ann"}
MCSpecUnits == {w1, w2}
MCFields == {f1, f2}
MCSampleRows == <<s1, s2>>
Half(name) == [name |-> name, cells |-> [f \in MCFields |-> IF f = f1 THEN "blank" ELSE "sample"]]
MCSitRows == <<goal, authority>>
MCClipped == {goal}
MCHumans == {ann, "not named"}
MCDeskRows == {[f \in {goal, authority} |-> Nothing],
               [f \in {goal, authority} |-> IF f = goal THEN [Draft("seed") EXCEPT !.status = "confirmed"] ELSE Nothing]}
MCCoreIds == <<pain, period>>
MCChecks == {dual}
MCSentences == {said}
MCSeedUnits == {<<Half(s2)>>}
MCFiles == {sheet, pdf, scan, note}
MCSheets == {sheet}
MCPdfs == {pdf, scan}
Cite(file, p, cell, words) == [file |-> file, page |-> p, line |-> "none", cell |-> cell, words |-> words]
\* A cell, words that are not there, a cell and a page that is not there, a page, a page
\* that is not there, a scan that opens for nobody, a file without content, none.
MCCitations == {Cite(sheet, "none", "inside", "there"), Cite(sheet, "none", "inside", "other"),
                Cite(sheet, "outside", "inside", "there"), Cite(pdf, "inside", "none", "there"),
                Cite(pdf, "outside", "none", "there"), Cite(scan, "none", "none", "other"),
                Cite(note, "none", "none", "none"), Cite(Nothing, "none", "none", "none")}
MCDisputed == {<<s2, f2>>, <<hand, f1>>}
MCClaimUnits == <<c1, c2>>
MCPlainFields == {inputs}
MCBinding == {decides}
MCRequested == {"declared", "observed"}
MCDocuments == {paper, letter}
=============================================================================

------------------------------ MODULE GenomePages ------------------------------
(***************************************************************************)
(* The list of genome versions and the page of one version: its business   *)
(* objects, their units, the two ways to ratify, the automation index.     *)
(***************************************************************************)
EXTENDS ScoutPanels

CONSTANTS Objects, UnitsOf  \* business objects of the version, and the units of each

ASSUME ObjectsHaveUnits == \A o \in Objects : UnitsOf[o] # {}
ASSUME OneObjectEach == \A o, x \in Objects : UnitsOf[o] \cap UnitsOf[x] # {} => o = x

\* passed: the version went through both gates, so its units were written.
Versions == [passed : BOOLEAN, ratified : BOOLEAN, approved : SUBSET Objects]

Written(v) == IF v.passed THEN Objects ELSE {}

\* What was ratified before the page is opened.
VersionRows == {v \in Versions : /\ ~v.passed => ~v.ratified /\ v.approved = {}
                                 /\ v.approved = Objects => v.ratified \/ ~v.passed}

\* Every object of a version answers for the whole version.
ObjectsOf(v) == [o \in Written(v) |-> v.ratified]

VersionsUi == [rows |-> Nothing, error |-> FALSE, needsKey |-> FALSE]

GenomeUi == [gqs |-> Nothing, objects |-> Nothing, selected |-> Nothing, units |-> Nothing,
             unit |-> Nothing, busy |-> FALSE, index |-> Nothing, tab |-> "objects",
             error |-> FALSE, needsKey |-> FALSE]

GqsDetail == [passed |-> db.passed, ratified |-> db.ratified]

-----------------------------------------------------------------------------
(* The list.                                                               *)

ServeVersions(j) ==
  /\ Sent(j, "versions")
  /\ Answers(j, "ok", GqsDetail, db)
  /\ Serves

HearVersions(j) ==
  /\ Heard(j, "versions")
  /\ Over(j)
  /\ ui' = CASE j.code = "ok" -> [ui EXCEPT !.rows = Body(j), !.needsKey = FALSE]
             [] j.code = "noKey" -> [ui EXCEPT !.needsKey = TRUE]
             [] OTHER -> [ui EXCEPT !.error = TRUE]
  /\ Hears

\* A row links to its version whatever its gates say.
OpenVersion ==
  /\ page = "versions"
  /\ ui.rows # Nothing /\ ~ui.needsKey
  /\ page' = "genome"
  /\ ui' = GenomeUi
  /\ jobs' = {Job("gqs", Nothing, 0)}
  /\ UNCHANGED <<db, tidy, calm, acts, faults>>

-----------------------------------------------------------------------------
(* One version.                                                            *)

\* An error stays on screen in place of the page.
GenomeDrawn == /\ page = "genome"
               /\ ~ui.needsKey /\ ~ui.error
               /\ ui.gqs # Nothing /\ ui.objects # Nothing

\* loadCore is two reads, the second whatever became of the first; then is
\* the object that is opened after them.
LoadCore(then) == <<"gqs", then>>

OpenBo(state, o) == [state EXCEPT !.selected = o, !.unit = Nothing, !.units = Nothing]

ObjectRow ==
  /\ GenomeDrawn /\ ui.tab = "objects"
  /\ \E o \in DOMAIN ui.objects : Starts({<<"units", o>>}) /\ ui' = OpenBo(ui, o)
  /\ Clicks

UnitRow ==
  /\ GenomeDrawn /\ ui.tab = "objects"
  /\ ui.selected # Nothing /\ ui.units # Nothing
  /\ \E u \in ui.units : Starts({<<"unit", u>>})
  /\ UNCHANGED ui /\ Clicks

RatifyBo ==
  /\ GenomeDrawn /\ ui.tab = "objects"
  /\ ui.selected # Nothing /\ ~ui.busy
  /\ Starts({<<"ratifyBo", ui.selected>>})
  /\ ui' = [ui EXCEPT !.busy = TRUE]
  /\ Clicks

GatePassed == ui.gqs.passed

RatifyWhole ==
  /\ GenomeDrawn
  /\ GatePassed /\ ~ui.gqs.ratified /\ ~ui.busy
  /\ Starts({<<"ratifyWhole", Nothing>>})
  /\ ui' = [ui EXCEPT !.busy = TRUE]
  /\ Clicks

\* The index is read until there is one, each time its tab is clicked.
IndexTab ==
  /\ GenomeDrawn
  /\ ui' = [ui EXCEPT !.tab = "index"]
  /\ IF ui.index = Nothing THEN Starts({<<"index", Nothing>>}) ELSE Starts({})
  /\ Clicks

ObjectsTab ==
  /\ GenomeDrawn
  /\ ui.tab = "index"
  /\ ui' = [ui EXCEPT !.tab = "objects"]
  /\ Looks

\* The banner saved a key: the list stays hidden until it is read, the version
\* is drawn at once.
VersionsKey ==
  /\ page = "versions"
  /\ ui.needsKey
  /\ Starts({<<"versions", Nothing>>})
  /\ ui' = [ui EXCEPT !.error = FALSE]
  /\ Clicks

GenomeKey ==
  /\ page = "genome"
  /\ ui.needsKey
  /\ Starts({LoadCore(Nothing)})
  /\ ui' = [ui EXCEPT !.needsKey = FALSE]
  /\ Clicks

GenomeClick == OpenVersion \/ ObjectRow \/ UnitRow \/ RatifyBo \/ RatifyWhole \/ IndexTab
               \/ ObjectsTab \/ VersionsKey \/ GenomeKey

\* The flag of the version flips when every unit of it is approved, or when
\* the whole is ratified; nothing takes it back.
RatifiedOf(o) == LET approved == db.approved \cup {o}
                 IN [db EXCEPT !.approved = approved, !.ratified = @ \/ approved = Objects]

ServeGenome(j) ==
  /\ \/ Sent(j, "gqs") /\ Answers(j, "ok", GqsDetail, db)
     \/ Sent(j, "objects") /\ Answers(j, "ok", ObjectsOf(db), db)
     \/ Sent(j, "units") /\ Answers(j, "ok", UnitsOf[Arg(j)], db)
     \/ Sent(j, "unit") /\ Answers(j, "ok", Arg(j), db)
     \/ Sent(j, "index") /\ Answers(j, "ok", Written(db), db)
     \/ Sent(j, "ratifyWhole") /\ db.passed /\ Answers(j, "ok", <<>>, [db EXCEPT !.ratified = TRUE])
     \/ Sent(j, "ratifyBo") /\ db.passed /\ Answers(j, "ok", <<>>, RatifiedOf(Arg(j)))
  /\ Serves

\* handle: a 401 asks for the key, whatever else failed is an error.
Handled(state, j) ==
  CASE j.code = "ok" -> state
    [] j.code = "noKey" -> [state EXCEPT !.needsKey = TRUE]
    [] OTHER -> [state EXCEPT !.error = TRUE]

Kept(state, j, field) == IF j.code = "ok" THEN [state EXCEPT ![field] = Body(j)] ELSE state

\* Mutant: a ratified object is opened again and the rest of the page is not.
AfterRatifyBoOpensOnly(j) == GoesOn(j, "units", Arg(j))

\* Ratifying an object reads the core again, and goes back to that object,
\* whatever was selected since and whether or not it was ratified.
AfterRatifyBo(j) == GoesOn(j, "gqs", Arg(j))

HearGenome(j) ==
  /\ \/ /\ Heard(j, "gqs")
        /\ ui' = Kept(Handled(ui, j), j, "gqs")
        /\ GoesOn(j, "objects", Arg(j))
     \/ /\ Heard(j, "objects")
        /\ LET state == Kept(Handled(ui, j), j, "objects")
           IN IF Arg(j) = Nothing
              THEN ui' = state /\ Over(j)
              ELSE ui' = OpenBo(state, Arg(j)) /\ GoesOn(j, "units", Arg(j))
     \/ Heard(j, "units") /\ ui' = Kept(Handled(ui, j), j, "units") /\ Over(j)
     \/ Heard(j, "unit") /\ ui' = Kept(Handled(ui, j), j, "unit") /\ Over(j)
     \/ Heard(j, "index") /\ ui' = Kept(Handled(ui, j), j, "index") /\ Over(j)
     \/ /\ Heard(j, "ratifyWhole")
        /\ ui' = [Handled(ui, j) EXCEPT !.busy = FALSE]
        /\ IF j.code = "ok" THEN GoesOn(j, "gqs", Nothing) ELSE Over(j)
     \/ /\ Heard(j, "ratifyBo")
        /\ ui' = [Handled(ui, j) EXCEPT !.busy = FALSE]
        /\ AfterRatifyBo(j)
  /\ Hears
=============================================================================

-------------------------------- MODULE Console --------------------------------
(***************************************************************************)
(* The console: one page is mounted over the tables of a tenant, its       *)
(* visitor clicks, its requests are answered in any order, and another     *)
(* visitor adds to the same tables.                                        *)
(***************************************************************************)
EXTENDS GraphPage

CONSTANTS SeedUnits,  \* sets of units the tenant may have
          SeedEdges,  \* sequences of edges a Work Graph may start from
          OpenGroups  \* sets of groups a former visit may have left open

\* accept_candidate makes a unit with a code that no unit has: the candidate's
\* own, or another one where that is taken.
ASSUME SeedAssumption == /\ \A units \in SeedUnits : units \subseteq Codes \ {FromCandidate}
                         /\ SeedEdges \subseteq Seq(Edges)

Seed(units, types, candidates, edges) ==
  [NoRows EXCEPT !["units"] = units, !["types"] = types, !["candidates"] = candidates,
                 !["workEdges"] = edges]

\* One of the first reads is still under way: the list that the page is about,
\* or any of them where they are alike.
Init ==
  \/ /\ page \in Pages \ {"workUnits", "workGraph"}
     /\ \E units \in SeedUnits, candidates \in {{}, {"new"}}, last \in HooksOf[page] :
          /\ candidates # {} => page = "discovery"
          /\ page = "discovery" => last = "candidates"
          /\ MountedWith(FormsUi, Seed(units, {}, candidates, <<>>), {last})
  \/ /\ page = "workUnits"
     /\ \E units \in SeedUnits, open \in OpenGroups :
          MountedWith(WorkUnitsUi(open), Seed(units, {}, {}, <<>>), {"units"})
  \/ /\ page = "workGraph"
     /\ \E edges \in SeedEdges : MountedWith(GraphUi, Seed(Codes, {}, {}, edges), {"graph"})

\* What the page makes of the answer of a read: a new list of units, or of
\* profiles, makes new groups, and the effect of the search runs again.
Rendered(j) ==
  ui' = IF page = "workUnits" /\ j.code = "ok" /\ j.op \in {"units", "profiles"}
        THEN Regrouped(ui, shown'["units"].units) ELSE ui

Click == \/ \E f \in Forms : Submit(f)
         \/ \E file \in Workbooks : StartUpload(file)
         \/ StartBulk

Look == SwitchTab \/ Browse \/ Explore

Served == \E j \in jobs : ReadAnswered(j) \/ FormServed(j) \/ UploadServed(j) \/ BulkServed(j)

Heard == \E j \in jobs : \/ HearRead(j) /\ Rendered(j)
                         \/ HearForm(j) \/ HearUpload(j) \/ HearBulk(j)

Next == Click \/ Look \/ Served \/ Heard \/ Elsewhere

Spec == Init /\ [][Next]_vars

-----------------------------------------------------------------------------
(* Properties.                                                             *)

AtRest == jobs = {}

\* When nothing is under way, and nothing failed and nobody else wrote, every
\* hook of the page has what the tables hold: each handler asks again for all
\* that its route changed, the silent demotion of a unit by a failing run or by
\* a score included, however the handlers overlap.
ReadsItsWrites == AtRest /\ calm => \A h \in HooksOf[page] : shown[h] = View(h)

\* The candidate of Discovery is decided once: after it became a unit it is not
\* a rejected one, when nothing was lost and no two handlers overlapped.  The
\* routes of reject and merge do not look, so it is the page that keeps it.
DecidedOnce == calm /\ tidy /\ FromCandidate \in db["units"] => db["candidates"] # {"rejected"}

\* Every row of a workbook that was gone through is counted once, as created,
\* existing or failed; what is reported as created or existing is in the table,
\* and no code is reported as created twice, whatever answers were lost.
UploadAccounted ==
  page = "workUnits" =>
    LET u == ui.upload IN
      /\ Len(u.created) + Len(u.existing) + Len(u.failed) = u.at - 1
      /\ ToSet(u.created) \cup ToSet(u.existing) \subseteq db["units"]
      /\ \A i, k \in DOMAIN u.created : u.created[i] = u.created[k] => i = k

\* While something is searched, a change of the list, or of the search
\* leaves every hit on screen: no hit is in a group that is closed, or
\* in an industry that was folded before.
HitsAreOpen ==
  [][page = "workUnits" /\ ui'.search
       /\ <<ui.search, shown["units"]>>' # <<ui.search, shown["units"]>>
     => LET items == shown'["units"].units IN Unfolded(ui', items) = Filtered(ui', items)]_vars

\* A forest: no unit has two edges into it, and there is no cycle, for any units
\* one of them has no edge from another of them.
Forest(g) == /\ \A i, k \in 1..Len(g.workEdges) : g.workEdges[i][2] = g.workEdges[k][2] => i = k
             /\ \A W \in SUBSET g.units :
                  W # {} => \E c \in W : \A e \in ToSet(g.workEdges) : e[2] = c => e[1] \notin W

Total(counts) ==
  LET sum[k \in 0..Len(counts)] == IF k = 0 THEN 0 ELSE sum[k - 1] + counts[k]
  IN sum[Len(counts)]

\* On the canvas no two units are drawn at one place; the chips of the legend
\* count every unit once; and where the graph is a forest each edge goes exactly
\* one column to the right.
LayoutSound ==
  page = "workGraph" /\ CanvasDrawn =>
    LET at == Layout(Graph) IN
      /\ \A c, d \in Graph.units : at[c] = at[d] => c = d
      /\ Total(Legend(Graph)) = Cardinality(Graph.units)
      /\ Forest(Graph) => \A e \in ToSet(Graph.workEdges) : at[e[2]][1] = at[e[1]][1] + 1

\* A button that is dead has its request under way, so it comes back however
\* the request ends.
DeadButtonWorks ==
  \A b \in ui.busy : \E j \in jobs : j.op \in IF b = "upload" THEN UploadSteps ELSE {b}
=============================================================================

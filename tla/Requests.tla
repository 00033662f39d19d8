-------------------------------- MODULE Requests --------------------------------
(***************************************************************************)
(* What the pages that talk to the backend by apiFetch have in common: one *)
(* page is mounted over the rows its routes keep; each of its handlers is  *)
(* a job with one request under way at a time.  Requests are answered in   *)
(* any order.  A fault loses an answer, after the backend did the work or  *)
(* before, or is a 401, which asks the visitor for the organisation's key. *)
(* The pages are in the modules that extend this one.                      *)
(***************************************************************************)
EXTENDS Naturals, FiniteSets, Sequences, FiniteSetsExt, SequencesExt, TLC

CONSTANTS Nothing,   \* no selection, no argument, not read yet
          MaxActs,   \* bound, for each page: clicks that send a request, and acts of other visitors
          MaxFaults  \* bound: lost answers and refused keys

ASSUME RequestBounds == (\A p \in DOMAIN MaxActs : MaxActs[p] \in Nat) /\ MaxFaults \in Nat

VARIABLES page,  \* the page that is mounted
          db,    \* the rows its routes read and write
          jobs,  \* handlers that wait for an answer
          ui,    \* the state of its components
          tidy,  \* history: whoever clicked waited for every earlier answer
          calm,  \* history: nothing was lost or refused, and nobody else wrote
          acts, faults

vars == <<page, db, jobs, ui, tidy, calm, acts, faults>>

\* arg and body are kept under the name of the request.
Under(op, x) == [name \in {op} |-> x]

Job(op, arg, n) == [op |-> op, arg |-> Under(op, arg), n |-> n, stage |-> "sent", code |-> "none",
                    body |-> <<>>, live |-> TRUE]

Arg(j) == j.arg[j.op]
Body(j) == j.body[j.op]

Waiting(ops) == \E j \in jobs : j.op \in ops /\ j.live

Sent(j, op) == j.op = op /\ j.stage = "sent"
Heard(j, op) == j.op = op /\ j.stage = "answered" /\ j.live

\* Where a page begins: its effects have sent their first requests.
Mounted(p, rows, state, ops) ==
  /\ page = p
  /\ db = rows
  /\ ui = state
  /\ jobs = {Job(op, Nothing, 0) : op \in ops}
  /\ tidy = TRUE
  /\ calm = TRUE
  /\ acts = 0
  /\ faults = 0

\* A click that sends requests.
Starts(requests) ==
  /\ acts < MaxActs[page]
  /\ acts' = acts + 1
  /\ tidy' = (tidy /\ jobs = {})
  /\ jobs' = jobs \cup {Job(r[1], r[2], acts + 1) : r \in requests}

\* The same handler goes on with another request, or is over.
GoesOn(j, op, arg) == jobs' = (jobs \ {j}) \cup {Job(op, arg, j.n)}
Over(j) == jobs' = jobs \ {j}

\* The component is unmounted: what it asked for is answered, and not heard.
Abandoned == {[j EXCEPT !.live = FALSE] : j \in jobs}

AnsweredWith(j, code, body) ==
  (jobs \ {j}) \cup {[j EXCEPT !.stage = "answered", !.code = code, !.body = Under(j.op, body)]}

\* The backend answers with a code and a body and has rows after it.
Answers(j, code, body, rows) ==
  \/ /\ db' = rows
     /\ jobs' = AnsweredWith(j, code, body)
     /\ UNCHANGED <<faults, calm>>
  \/ /\ faults < MaxFaults
     /\ faults' = faults + 1
     /\ calm' = FALSE
     /\ \/ db' \in {db, rows} /\ jobs' = AnsweredWith(j, "lost", <<>>)
        \/ db' = db /\ jobs' = AnsweredWith(j, "noKey", <<>>)

HearAbandoned(j) ==
  /\ ~j.live
  /\ j.stage = "answered"
  /\ jobs' = jobs \ {j}
  /\ UNCHANGED <<page, db, ui, tidy, calm, acts, faults>>

Looks  == UNCHANGED <<page, db, jobs, tidy, calm, acts, faults>>
Clicks == UNCHANGED <<page, db, calm, faults>>
Serves == UNCHANGED <<page, ui, tidy, acts>>
Hears  == UNCHANGED <<page, db, tidy, calm, acts, faults>>
=============================================================================

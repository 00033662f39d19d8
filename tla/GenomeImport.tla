---------------------------- MODULE GenomeImport ----------------------------
(***************************************************************************)
(* services/genome_import.py: one import writes a version row and a batch  *)
(* of work units for a tenant, as one request on one database session.     *)
(*                                                                         *)
(* A session's inserts stay its own until it commits.  The unique          *)
(* (client_id, code) index makes an insert wait while another session      *)
(* holds the same code uncommitted, and refuses it once that commits.      *)
(* Scoring a unit commits, in the middle of the batch.                     *)
(***************************************************************************)
EXTENDS Naturals, Sequences, FiniteSets

CONSTANTS Sessions,   \* request slots
          Codes,      \* work-unit codes
          Genomes,    \* the payloads, as sequences of [code, scored]
          MayFault,   \* whether a statement of the write phase may fail
          MayCrash,   \* whether the process may die inside a request
          MaxVersions \* bound: version ids after which no import starts

Entries == [code : Codes, scored : BOOLEAN]

ASSUME GenomesAssumption == Genomes \subseteq Seq(Entries)
ASSUME FlagsAssumption == MayFault \in BOOLEAN /\ MayCrash \in BOOLEAN
ASSUME MaxVersionsAssumption == MaxVersions \in Nat

VARIABLES owner,    \* genome_version_id of each code's work unit, 0 if there is none
          scored,   \* the codes whose unit has a verdict row
          versions, \* genome_versions, what it says of each import
          lastId,   \* the last id genome_versions handed out, committed or not
          session   \* what each session has in hand

vars == <<owner, scored, versions, lastId, session>>

Versions == [id : Nat \ {0}, count : Nat, passed : BOOLEAN]

\* saved: whether this import has committed anything yet.
SessionStates == [at : {"idle", "validating", "writing", "scoring", "auditing", "failed"},
                  genome : Seq(Entries), next : Nat \ {0}, version : Nat,
                  pending : SUBSET Codes, saved : BOOLEAN]

Idle == [at |-> "idle", genome |-> <<>>, next |-> 1, version |-> 0,
         pending |-> {}, saved |-> FALSE]

Init == /\ owner = [c \in Codes |-> 0]
        /\ scored = {}
        /\ versions = {}
        /\ lastId = 0
        /\ session = [s \in Sessions |-> Idle]

-----------------------------------------------------------------------------
CodeAt(genome, i) == genome[i].code

CodesOf(genome) == {CodeAt(genome, i) : i \in DOMAIN genome}

\* _validate_work_unit_codes: no code twice in the payload, none in the tenant.
CodesAreNew(genome) == /\ Cardinality(CodesOf(genome)) = Len(genome)
                       /\ \A c \in CodesOf(genome) : owner[c] = 0

Row(s, id, passed) == [id |-> id, count |-> Len(session[s].genome), passed |-> passed]

\* The version row a commit of s leaves: the same row, updated.
SaveVersion(s, passed) ==
    versions' = {v \in versions : v.id # session[s].version} \cup {Row(s, session[s].version, passed)}

\* The units a commit of s leaves.
SaveUnits(s) == owner' = [c \in Codes |-> IF c \in session[s].pending
                                          THEN session[s].version
                                          ELSE owner[c]]

\* Mutant: no rollback, so that the commit of the failed attempt saves the batch.
RollBackForgotten(s) == /\ session' = [session EXCEPT ![s].at = "failed", ![s].pending = {}]
                        /\ SaveVersion(s, FALSE)
                        /\ SaveUnits(s)
                        /\ UNCHANGED <<scored, lastId>>

\* rollback: the uncommitted inserts go, and the write phase is over.
RollBack(s) == /\ session' = [session EXCEPT ![s].at = "failed", ![s].pending = {}]
               /\ UNCHANGED <<owner, scored, versions, lastId>>

Finish(s) == session' = [session EXCEPT ![s] = Idle]

Inserting(s) == /\ session[s].at = "writing"
                /\ session[s].next <= Len(session[s].genome)

NextCode(s) == CodeAt(session[s].genome, session[s].next)

\* The unique index refuses the code.
Taken(s) == owner[NextCode(s)] # 0 \/ NextCode(s) \in session[s].pending

WaitsFor(s, t) == /\ s # t
                  /\ Inserting(s)
                  /\ NextCode(s) \in session[t].pending

-----------------------------------------------------------------------------
\* Mutant: the version row is not flushed, so that it has no id yet.
StartUnflushed(s) == \E genome \in Genomes :
    /\ session[s].at = "idle"
    /\ lastId < MaxVersions
    /\ lastId' = lastId + 1
    /\ session' = [session EXCEPT ![s] = [Idle EXCEPT !.at = "validating", !.genome = genome]]
    /\ UNCHANGED <<owner, scored, versions>>

\* The version row is flushed, so it has its id, before anything is checked.
Start(s) == \E genome \in Genomes :
    /\ session[s].at = "idle"
    /\ lastId < MaxVersions
    /\ lastId' = lastId + 1
    /\ session' = [session EXCEPT ![s] = [Idle EXCEPT !.at = "validating", !.genome = genome,
                                                      !.version = lastId + 1]]
    /\ UNCHANGED <<owner, scored, versions>>

\* A gate turns the genome away: the attempt is committed, for the audit.
Refuse(s) == /\ session[s].at = "validating"
             /\ SaveVersion(s, FALSE)
             /\ Finish(s)
             /\ UNCHANGED <<owner, scored, lastId>>

Pass(s) == /\ session[s].at = "validating"
           /\ CodesAreNew(session[s].genome)
           /\ session' = [session EXCEPT ![s].at = "writing"]
           /\ UNCHANGED <<owner, scored, versions, lastId>>

InsertUnit(s) ==
    /\ Inserting(s)
    /\ ~Taken(s)
    /\ \A t \in Sessions : ~WaitsFor(s, t)
    /\ session' = [session EXCEPT ![s].pending = @ \cup {NextCode(s)},
                                  ![s].next = @ + 1,
                                  ![s].at = IF session[s].genome[session[s].next].scored
                                            THEN "scoring" ELSE "writing"]
    /\ UNCHANGED <<owner, scored, versions, lastId>>

\* apply_verdict commits the verdict row, and all that is pending with it.
ScoreUnit(s) ==
    /\ session[s].at = "scoring"
    /\ SaveVersion(s, FALSE)
    /\ SaveUnits(s)
    /\ scored' = scored \cup {CodeAt(session[s].genome, session[s].next - 1)}
    /\ session' = [session EXCEPT ![s].at = "writing", ![s].pending = {}, ![s].saved = TRUE]
    /\ UNCHANGED lastId

\* The last commit of the batch: the version row now says it passed.
FinishWrite(s) ==
    /\ session[s].at = "writing"
    /\ session[s].next > Len(session[s].genome)
    /\ SaveVersion(s, TRUE)
    /\ SaveUnits(s)
    /\ session' = [session EXCEPT ![s].at = "auditing", ![s].pending = {}, ![s].saved = TRUE]
    /\ UNCHANGED <<scored, lastId>>

LogCommitted(s) == /\ session[s].at = "auditing"
                   /\ Finish(s)
                   /\ UNCHANGED <<owner, scored, versions, lastId>>

\* Mutants: a taken code is skipped; a taken code is tried again.
CollideSkips(s) == /\ Inserting(s)
                   /\ Taken(s)
                   /\ session' = [session EXCEPT ![s].next = @ + 1]
                   /\ UNCHANGED <<owner, scored, versions, lastId>>

CollideRetries(s) == /\ Inserting(s)
                     /\ Taken(s)
                     /\ session' = [session EXCEPT ![s].pending = {}]
                     /\ UNCHANGED <<owner, scored, versions, lastId>>

\* Another import committed the code since it was validated.
Collide(s) == /\ Inserting(s)
              /\ Taken(s)
              /\ RollBack(s)

\* Two imports wait for each other: the database turns one of them away.
DeadlockVictim(s) == /\ \E t \in Sessions : WaitsFor(s, t) /\ WaitsFor(t, s)
                     /\ RollBack(s)

\* Any other exception of the write phase.
Fault(s) == /\ MayFault
            /\ session[s].at \in {"writing", "scoring", "auditing"}
            /\ RollBack(s)

\* Mutants: the failed attempt takes the id of the first row, or rewrites it.
RecordFailedSameId(s) == /\ session[s].at = "failed"
                         /\ lastId' = lastId
                         /\ versions' = versions \cup {Row(s, session[s].version, FALSE)}
                         /\ Finish(s)
                         /\ UNCHANGED <<owner, scored>>

RecordFailedInPlace(s) == /\ session[s].at = "failed"
                          /\ SaveVersion(s, FALSE)
                          /\ Finish(s)
                          /\ UNCHANGED <<owner, scored, lastId>>

\* _record_failed_attempt, with a version row of its own.
RecordFailed(s) == /\ session[s].at = "failed"
                   /\ lastId' = lastId + 1
                   /\ versions' = versions \cup {Row(s, lastId + 1, FALSE)}
                   /\ Finish(s)
                   /\ UNCHANGED <<owner, scored>>

\* A rollback undoes the request's SET of the tenant unless a commit kept it;
\* without it row security may refuse the row, and the request ends in a 500.
LoseAttempt(s) == /\ session[s].at = "failed"
                  /\ ~session[s].saved
                  /\ Finish(s)
                  /\ UNCHANGED <<owner, scored, versions, lastId>>

\* The process dies: what it has not committed is lost.
Crash(s) == /\ MayCrash
            /\ session[s].at # "idle"
            /\ Finish(s)
            /\ UNCHANGED <<owner, scored, versions, lastId>>

\* A request in hand runs to its end.
Advance(s) == \/ Refuse(s) \/ Pass(s) \/ InsertUnit(s) \/ ScoreUnit(s) \/ FinishWrite(s)
              \/ LogCommitted(s) \/ Collide(s) \/ DeadlockVictim(s)
              \/ RecordFailed(s) \/ LoseAttempt(s)

Next == \E s \in Sessions : Start(s) \/ Advance(s) \/ Fault(s) \/ Crash(s)

Spec == Init /\ [][Next]_vars

FairSpec == Spec /\ \A s \in Sessions : WF_vars(Advance(s))

-----------------------------------------------------------------------------
TypeOK == /\ owner \in [Codes -> Nat]
          /\ scored \subseteq Codes
          /\ versions \subseteq Versions
          /\ lastId \in Nat
          /\ session \in [Sessions -> SessionStates]

OwnedBy(id) == {c \in Codes : owner[c] = id}

\* No session is still writing under the version.
Settled(v) == \A s \in Sessions : session[s].version # v.id

\* A version that says it passed owns exactly as many units as it counts, though
\* its units reached the database in several commits, others imported the same
\* codes meanwhile, and any of them may have failed or died half-way.
AcceptedWhole == \A v \in versions : v.passed => Cardinality(OwnedBy(v.id)) = v.count

\* No unit is left without its version row, and no two rows speak for one import.
OwnersKnown == /\ \A c \in Codes : owner[c] # 0 => \E v \in versions : v.id = owner[c]
               /\ \A v, w \in versions : v.id = w.id => v = w

\* An import that scores no unit is all or nothing: a version that did not pass
\* and is over owns nothing, unless one of its units was scored.
UnscoredAllOrNothing ==
    \A v \in versions : ~v.passed /\ Settled(v) /\ OwnedBy(v.id) # {}
                            => OwnedBy(v.id) \cap scored # {}

\* What is committed stays: a unit never changes hands to a later import, and an
\* accepted version is never turned into a refused one.
Kept == /\ \A c \in Codes : owner[c] # 0 => owner'[c] = owner[c]
        /\ \A v \in versions : v.passed => v \in versions'

\* Over every step of every session, failing or dying.
CommittedKept == [][Kept]_vars

\* Every import comes to an end, two that insert the same codes in opposite
\* orders included.
ImportEnds == \A s \in Sessions : session[s].at # "idle" ~> session[s].at = "idle"

\* genome_import.py: a failed write saves nothing.
NoHalfImport == \A v \in versions : ~v.passed /\ Settled(v) => OwnedBy(v.id) = {}
=============================================================================

-------------------------- MODULE GenomeImportProofs --------------------------
(***************************************************************************)
(* Theorems of GenomeImport for every set of codes, of genomes and of      *)
(* sessions, with failing statements and dying processes or without.       *)
(***************************************************************************)
EXTENDS GenomeImport, FiniteSetTheorems, TLAPS

\* The units that are or will be of the session's version.
Landed(s) == OwnedBy(session[s].version) \cup session[s].pending

\* A session's version is its own.
VersionsOwn == \A s \in Sessions :
  /\ session[s].version <= lastId
  /\ session[s].at # "idle" => session[s].version # 0
  /\ \A t \in Sessions : s # t /\ session[s].version # 0 => session[s].version # session[t].version

\* What is pending has no owner yet, and one session.
PendingFree == \A s \in Sessions :
  /\ \A c \in session[s].pending : owner[c] = 0
  /\ session[s].at \notin {"writing", "scoring"} => session[s].pending = {}
  /\ \A t \in Sessions : s # t => session[s].pending \cap session[t].pending = {}

\* While a batch is written, each unit that was inserted is owned or pending.
Counted(s) ==
  /\ session[s].at \in {"validating", "writing", "scoring"} =>
       /\ IsFiniteSet(Landed(s)) /\ Cardinality(Landed(s)) = session[s].next - 1
       /\ session[s].next <= Len(session[s].genome) + 1
       /\ \A v \in versions : v.id = session[s].version => ~v.passed
  /\ session[s].at = "validating" => session[s].next = 1
  /\ session[s].at = "scoring" => /\ session[s].next - 1 \in DOMAIN session[s].genome
                                  /\ CodeAt(session[s].genome, session[s].next - 1) \in session[s].pending

BatchCounted == \A s \in Sessions : Counted(s)

\* Ids are handed out in order.
IdsKnown == \A v \in versions : v.id <= lastId

\* A version that owns something without having passed owns a scored unit.
RefusedScored == \A v \in versions :
  ~v.passed /\ OwnedBy(v.id) # {} => OwnedBy(v.id) \cap scored # {}

IInv == /\ TypeOK /\ VersionsOwn /\ PendingFree /\ BatchCounted /\ IdsKnown
        /\ OwnersKnown /\ AcceptedWhole /\ RefusedScored

-----------------------------------------------------------------------------
(* Types.                                                                  *)

LEMMA IdleType == Idle \in SessionStates
  BY DEF Idle, SessionStates

LEMMA TypeInit == Init => TypeOK
  BY IdleType DEF Init, TypeOK

\* A code of a genome is a code.
LEMMA GenomeCode ==
  ASSUME NEW genome \in Seq(Entries), NEW i \in DOMAIN genome
  PROVE  CodeAt(genome, i) \in Codes /\ genome[i].scored \in BOOLEAN
<1>1. genome[i] \in Entries
  OBVIOUS
<1> QED BY <1>1 DEF CodeAt, Entries

LEMMA RowType ==
  ASSUME TypeOK, NEW s \in Sessions, NEW id \in Nat \ {0}, NEW passed \in BOOLEAN
  PROVE  Row(s, id, passed) \in Versions
  BY DEF Row, Versions, TypeOK, SessionStates

LEMMA SaveVersionType ==
  ASSUME TypeOK, NEW s \in Sessions, NEW passed \in BOOLEAN, session[s].version # 0,
         SaveVersion(s, passed)
  PROVE  versions' \subseteq Versions
<1>1. session[s].version \in Nat \ {0}
  BY DEF TypeOK, SessionStates
<1>2. Row(s, session[s].version, passed) \in Versions
  BY <1>1, RowType
<1> QED BY <1>2 DEF SaveVersion, TypeOK

LEMMA SaveUnitsType ==
  ASSUME TypeOK, NEW s \in Sessions, SaveUnits(s)
  PROVE  owner' \in [Codes -> Nat]
  BY DEF SaveUnits, TypeOK, SessionStates

LEMMA InsertingFacts ==
  ASSUME TypeOK, NEW s \in Sessions, Inserting(s)
  PROVE  /\ session[s].next \in DOMAIN session[s].genome
         /\ NextCode(s) \in Codes
         /\ session[s].genome[session[s].next].scored \in BOOLEAN
<1>1. session[s].next \in 1 .. Len(session[s].genome) /\ session[s].genome \in Seq(Entries)
  BY DEF Inserting, TypeOK, SessionStates
<1> QED BY <1>1, GenomeCode DEF NextCode

LEMMA RollBackType ==
  ASSUME TypeOK, NEW s \in Sessions, RollBack(s)
  PROVE  TypeOK'
  BY DEF RollBack, TypeOK, SessionStates

LEMMA FinishType ==
  ASSUME TypeOK, NEW s \in Sessions, Finish(s)
  PROVE  session' \in [Sessions -> SessionStates]
  BY IdleType DEF Finish, TypeOK

LEMMA TypeStep ==
  ASSUME TypeOK, VersionsOwn, BatchCounted, [Next]_vars
  PROVE  TypeOK'
<1>1. CASE UNCHANGED vars
  BY <1>1 DEF vars, TypeOK
<1>2. ASSUME NEW s \in Sessions, Start(s) PROVE TypeOK'
  <2>1. PICK genome \in Genomes : session' = [session EXCEPT ![s] =
          [Idle EXCEPT !.at = "validating", !.genome = genome, !.version = lastId + 1]]
    BY <1>2 DEF Start
  <2>2. genome \in Seq(Entries)
    BY GenomesAssumption
  <2>3. [Idle EXCEPT !.at = "validating", !.genome = genome, !.version = lastId + 1] \in SessionStates
    <3>1. lastId + 1 \in Nat
      BY DEF TypeOK
    <3>2. \A i \in SessionStates, n \in Nat, g \in Seq(Entries) :
            [i EXCEPT !.at = "validating", !.genome = g, !.version = n] \in SessionStates
      BY DEF SessionStates
    <3> QED BY <2>2, <3>1, <3>2, IdleType
  <2> QED BY <1>2, <2>1, <2>3 DEF Start, TypeOK
<1>3. ASSUME NEW s \in Sessions, Refuse(s) PROVE TypeOK'
  BY <1>3, SaveVersionType, FinishType DEF Refuse, VersionsOwn, TypeOK
<1>4. ASSUME NEW s \in Sessions, Pass(s) PROVE TypeOK'
  BY <1>4 DEF Pass, TypeOK, SessionStates
<1>5. ASSUME NEW s \in Sessions, InsertUnit(s) PROVE TypeOK'
  <2>1. NextCode(s) \in Codes /\ session[s].next + 1 \in Nat \ {0}
    BY <1>5, InsertingFacts DEF InsertUnit, TypeOK, SessionStates
  <2>2. \A at \in {"writing", "scoring"} :
          [session[s] EXCEPT !.pending = @ \cup {NextCode(s)}, !.next = @ + 1, !.at = at] \in SessionStates
    BY <2>1 DEF TypeOK, SessionStates
  <2>3. PICK at \in {"writing", "scoring"} : session' = [session EXCEPT ![s] =
          [session[s] EXCEPT !.pending = @ \cup {NextCode(s)}, !.next = @ + 1, !.at = at]]
    BY <1>5 DEF InsertUnit, TypeOK
  <2> QED BY <1>5, <2>2, <2>3 DEF InsertUnit, TypeOK
<1>6. ASSUME NEW s \in Sessions, ScoreUnit(s) PROVE TypeOK'
  <2>1. CodeAt(session[s].genome, session[s].next - 1) \in Codes
    BY <1>6 DEF ScoreUnit, BatchCounted, Counted, TypeOK, SessionStates
  <2>2. versions' \subseteq Versions /\ owner' \in [Codes -> Nat]
    BY <1>6, SaveVersionType, SaveUnitsType DEF ScoreUnit, VersionsOwn
  <2>3. session' \in [Sessions -> SessionStates]
    <3>1. [session[s] EXCEPT !.at = "writing", !.pending = {}, !.saved = TRUE] \in SessionStates
      BY DEF TypeOK, SessionStates
    <3>2. session' = [session EXCEPT ![s] =
            [session[s] EXCEPT !.at = "writing", !.pending = {}, !.saved = TRUE]]
      BY <1>6 DEF ScoreUnit, TypeOK
    <3> QED BY <3>1, <3>2 DEF TypeOK
  <2> QED BY <1>6, <2>1, <2>2, <2>3 DEF ScoreUnit, TypeOK
<1>7. ASSUME NEW s \in Sessions, FinishWrite(s) PROVE TypeOK'
  <2>1. versions' \subseteq Versions /\ owner' \in [Codes -> Nat]
    BY <1>7, SaveVersionType, SaveUnitsType DEF FinishWrite, VersionsOwn
  <2>2. session' \in [Sessions -> SessionStates]
    <3>1. [session[s] EXCEPT !.at = "auditing", !.pending = {}, !.saved = TRUE] \in SessionStates
      BY DEF TypeOK, SessionStates
    <3>2. session' = [session EXCEPT ![s] =
            [session[s] EXCEPT !.at = "auditing", !.pending = {}, !.saved = TRUE]]
      BY <1>7 DEF FinishWrite, TypeOK
    <3> QED BY <3>1, <3>2 DEF TypeOK
  <2> QED BY <1>7, <2>1, <2>2 DEF FinishWrite, TypeOK
<1>8. ASSUME NEW s \in Sessions, LogCommitted(s) \/ LoseAttempt(s) \/ Crash(s) PROVE TypeOK'
  BY <1>8, FinishType DEF LogCommitted, LoseAttempt, Crash, TypeOK
<1>9. ASSUME NEW s \in Sessions, Collide(s) \/ DeadlockVictim(s) \/ Fault(s) PROVE TypeOK'
  BY <1>9, RollBackType DEF Collide, DeadlockVictim, Fault
<1>10. ASSUME NEW s \in Sessions, RecordFailed(s) PROVE TypeOK'
  <2>1. Row(s, lastId + 1, FALSE) \in Versions
    <3>1. lastId + 1 \in Nat \ {0}
      BY DEF TypeOK
    <3> QED BY <3>1, RowType
  <2>2. session' \in [Sessions -> SessionStates]
    BY <1>10, FinishType DEF RecordFailed
  <2>3. lastId' \in Nat
    BY <1>10 DEF RecordFailed, TypeOK
  <2> QED BY <1>10, <2>1, <2>2, <2>3 DEF RecordFailed, TypeOK
<1> QED BY <1>1, <1>2, <1>3, <1>4, <1>5, <1>6, <1>7, <1>8, <1>9, <1>10 DEF Next, Advance

-----------------------------------------------------------------------------
(* The invariant.                                                          *)

\* A commit gives the session's version what was pending, and no other
\* version gains or loses a unit.
LEMMA CommitOwners ==
  ASSUME TypeOK, PendingFree, NEW s \in Sessions, session[s].version # 0, SaveUnits(s)
  PROVE  /\ OwnedBy(session[s].version)' \in SUBSET Codes
         /\ {c \in Codes : owner'[c] = session[s].version} = Landed(s)
         /\ \A id \in Nat : id # 0 /\ id # session[s].version =>
              {c \in Codes : owner'[c] = id} = OwnedBy(id)
         /\ \A c \in Codes : owner[c] # 0 => owner'[c] = owner[c]
         /\ \A c \in Codes : owner'[c] # owner[c] => owner'[c] = session[s].version
         /\ \A c \in Codes \ session[s].pending : owner'[c] = owner[c]
<1>1. session[s].pending \subseteq Codes /\ session[s].version \in Nat
  BY DEF TypeOK, SessionStates
<1>2. \A c \in Codes : owner'[c] = IF c \in session[s].pending THEN session[s].version ELSE owner[c]
  BY DEF SaveUnits
<1>3. \A c \in session[s].pending : owner[c] = 0
  BY DEF PendingFree
<1> QED BY <1>1, <1>2, <1>3 DEF Landed, OwnedBy

LEMMA InitIInv == Init => IInv
<1> SUFFICES ASSUME Init PROVE IInv
  OBVIOUS
<1>1. TypeOK
  BY TypeInit
<1>2. VersionsOwn /\ PendingFree /\ BatchCounted
  BY DEF Init, Idle, VersionsOwn, PendingFree, BatchCounted, Counted
<1>3. IdsKnown /\ OwnersKnown /\ AcceptedWhole /\ RefusedScored
  BY DEF Init, IdsKnown, OwnersKnown, AcceptedWhole, RefusedScored
<1> QED BY <1>1, <1>2, <1>3 DEF IInv

\* The session ends or gives up its batch.
Drops(s) == /\ \A t \in Sessions : t # s => session'[t] = session[t]
            /\ session'[s].pending = {}
            /\ \/ session'[s].at = "idle" /\ session'[s].version = 0
               \/ /\ session'[s].at = "failed" /\ session'[s].version = session[s].version
                  /\ session[s].version # 0

LEMMA FinishDrops ==
  ASSUME TypeOK, NEW s \in Sessions, Finish(s)
  PROVE  Drops(s)
  BY DEF Finish, Idle, Drops, TypeOK

LEMMA RollBackDrops ==
  ASSUME TypeOK, VersionsOwn, NEW s \in Sessions, RollBack(s), session[s].at # "idle"
  PROVE  Drops(s)
<1>1. session[s] \in SessionStates
  BY DEF TypeOK
<1>2. session' = [session EXCEPT ![s] = [session[s] EXCEPT !.at = "failed", !.pending = {}]]
  BY DEF RollBack, TypeOK
<1> QED BY <1>1, <1>2 DEF Drops, TypeOK, SessionStates, VersionsOwn

\* What every session may say of itself once s dropped its batch, whatever the
\* tables became.
LEMMA DropsSessions ==
  ASSUME IInv, NEW s \in Sessions, Drops(s), owner' = owner, lastId' \in Nat, lastId <= lastId'
  PROVE  VersionsOwn' /\ PendingFree'
<1>1. VersionsOwn'
  <2> SUFFICES ASSUME NEW t \in Sessions
               PROVE  /\ session'[t].version <= lastId'
                      /\ session'[t].at # "idle" => session'[t].version # 0
                      /\ \A u \in Sessions : t # u /\ session'[t].version # 0 =>
                           session'[t].version # session'[u].version
    BY DEF VersionsOwn
  <2>1. \A u \in Sessions : session'[u].version = session[u].version \/ (u = s /\ session'[u].version = 0)
    BY DEF Drops
  <2>2. session[t].version \in Nat /\ lastId \in Nat /\ session[t].version <= lastId
    BY DEF IInv, TypeOK, SessionStates, VersionsOwn
  <2>3. session'[t].version <= lastId'
    BY <2>1, <2>2
  <2> QED BY <2>1, <2>3 DEF Drops, IInv, VersionsOwn
<1>2. PendingFree'
  BY DEF Drops, IInv, PendingFree
<1> QED BY <1>1, <1>2

LEMMA DropsIInv ==
  ASSUME IInv, NEW s \in Sessions, Drops(s), UNCHANGED <<owner, scored, versions, lastId>>
  PROVE  /\ VersionsOwn' /\ PendingFree' /\ BatchCounted' /\ IdsKnown'
         /\ OwnersKnown' /\ AcceptedWhole' /\ RefusedScored'
<1>1. VersionsOwn' /\ PendingFree'
  BY DropsSessions DEF IInv, TypeOK
<1>2. BatchCounted'
  <2> SUFFICES ASSUME NEW t \in Sessions, session'[t].at \in {"validating", "writing", "scoring"}
               PROVE  session'[t] = session[t]
    BY DEF IInv, BatchCounted, Counted, Landed, OwnedBy
  <2> QED BY DEF Drops
<1>3. IdsKnown' /\ OwnersKnown' /\ AcceptedWhole' /\ RefusedScored'
  BY DEF IInv, IdsKnown, OwnersKnown, AcceptedWhole, RefusedScored, OwnedBy
<1> QED BY <1>1, <1>2, <1>3

\* The tables stay as they are: what is said of them alone holds on.
LEMMA TablesKept ==
  ASSUME IInv, UNCHANGED <<owner, scored, versions>>, lastId' \in Nat, lastId <= lastId'
  PROVE  IdsKnown' /\ OwnersKnown' /\ AcceptedWhole' /\ RefusedScored'
<1>1. \A v \in versions : v.id \in Nat
  BY DEF IInv, TypeOK, Versions
<1>2. IdsKnown'
  BY <1>1 DEF IInv, TypeOK, IdsKnown
<1> QED BY <1>2 DEF IInv, OwnersKnown, AcceptedWhole, RefusedScored, OwnedBy

LEMMA StartIInv ==
  ASSUME IInv, NEW s \in Sessions, Start(s)
  PROVE  /\ VersionsOwn' /\ PendingFree' /\ BatchCounted' /\ IdsKnown'
         /\ OwnersKnown' /\ AcceptedWhole' /\ RefusedScored'
<1>1. lastId \in Nat /\ lastId' = lastId + 1 /\ UNCHANGED <<owner, scored, versions>>
  BY DEF Start, IInv, TypeOK
<1>2. /\ \A t \in Sessions : t # s => session'[t] = session[t]
      /\ session'[s].at = "validating" /\ session'[s].version = lastId + 1
      /\ session'[s].pending = {} /\ session'[s].next = 1 /\ session'[s].genome \in Seq(Entries)
  BY GenomesAssumption DEF Start, Idle, IInv, TypeOK
<1>3. \A t \in Sessions : session[t].version \in Nat /\ session[t].version <= lastId
  BY DEF IInv, TypeOK, SessionStates, VersionsOwn
<1>4. VersionsOwn'
  <2> SUFFICES ASSUME NEW t \in Sessions
               PROVE  /\ session'[t].version <= lastId'
                      /\ session'[t].at # "idle" => session'[t].version # 0
                      /\ \A u \in Sessions : t # u /\ session'[t].version # 0 =>
                           session'[t].version # session'[u].version
    BY DEF VersionsOwn
  <2>1. CASE t = s
    BY <1>1, <1>2, <1>3, <2>1
  <2>2. CASE t # s
    BY <1>1, <1>2, <1>3, <2>2 DEF IInv, VersionsOwn
  <2> QED BY <2>1, <2>2
<1>5. PendingFree'
  BY <1>1, <1>2 DEF IInv, PendingFree
<1>6. \A v \in versions : v.id \in Nat /\ v.id <= lastId
  BY DEF IInv, TypeOK, Versions, IdsKnown
<1>7. \A c \in Codes : owner[c] # lastId + 1
  BY <1>1, <1>6 DEF IInv, OwnersKnown
<1>8. BatchCounted'
  <2>1. Landed(s)' = {}
    BY <1>1, <1>2, <1>7 DEF Landed, OwnedBy
  <2>2. IsFiniteSet({}) /\ Cardinality({}) = 0
    BY FS_EmptySet
  <2>3. \A t \in Sessions : t # s => Landed(t)' = Landed(t)
    BY <1>1, <1>2 DEF Landed, OwnedBy
  <2>4. Counted(s)'
    <3>1. Len(session'[s].genome) \in Nat
      BY <1>2
    <3>2. \A v \in versions' : v.id # lastId + 1
      BY <1>1, <1>6
    <3> QED BY <1>2, <2>1, <2>2, <3>1, <3>2 DEF Counted
  <2>5. \A t \in Sessions : t # s => Counted(t)'
    BY <1>1, <1>2, <2>3 DEF IInv, BatchCounted, Counted
  <2> QED BY <2>4, <2>5 DEF BatchCounted
<1>9. IdsKnown' /\ OwnersKnown' /\ AcceptedWhole' /\ RefusedScored'
  BY <1>1, TablesKept
<1> QED BY <1>4, <1>5, <1>8, <1>9

\* A batch that goes on: the session keeps its version and its genome.
LEMMA PassIInv ==
  ASSUME IInv, NEW s \in Sessions, Pass(s)
  PROVE  /\ VersionsOwn' /\ PendingFree' /\ BatchCounted' /\ IdsKnown'
         /\ OwnersKnown' /\ AcceptedWhole' /\ RefusedScored'
<1>1. session[s] \in SessionStates /\ session[s].at = "validating"
      /\ UNCHANGED <<owner, scored, versions, lastId>>
  BY DEF Pass, IInv, TypeOK
<1>2. /\ \A t \in Sessions : t # s => session'[t] = session[t]
      /\ session'[s] = [session[s] EXCEPT !.at = "writing"]
  BY DEF Pass, IInv, TypeOK
<1>3. session'[s].at = "writing" /\ session'[s].version = session[s].version
      /\ session'[s].pending = session[s].pending /\ session'[s].next = session[s].next
      /\ session'[s].genome = session[s].genome
  BY <1>1, <1>2 DEF SessionStates
<1>4. VersionsOwn'
  <2>1. \A t \in Sessions : session'[t].version = session[t].version
    BY <1>2, <1>3
  <2> QED BY <1>1, <1>2, <2>1 DEF IInv, VersionsOwn
<1>5. PendingFree'
  <2>1. \A t \in Sessions : session'[t].pending = session[t].pending
    BY <1>2, <1>3
  <2> QED BY <1>1, <1>2, <1>3, <2>1 DEF IInv, PendingFree
<1>6. BatchCounted'
  <2>1. \A t \in Sessions : session'[t].version = session[t].version /\ session'[t].pending = session[t].pending
    BY <1>2, <1>3
  <2>2. \A t \in Sessions : Landed(t)' = Landed(t)
    BY <1>1, <2>1 DEF Landed, OwnedBy
  <2>3. Counted(s)'
    BY <1>1, <1>2, <1>3, <2>2 DEF IInv, BatchCounted, Counted
  <2>4. \A t \in Sessions : t # s => Counted(t)'
    BY <1>1, <1>2, <2>2 DEF IInv, BatchCounted, Counted
  <2> QED BY <2>3, <2>4 DEF BatchCounted
<1>7. IdsKnown' /\ OwnersKnown' /\ AcceptedWhole' /\ RefusedScored'
  BY <1>1, TablesKept DEF IInv, TypeOK
<1> QED BY <1>4, <1>5, <1>6, <1>7

LEMMA InsertUnitIInv ==
  ASSUME IInv, NEW s \in Sessions, InsertUnit(s)
  PROVE  /\ VersionsOwn' /\ PendingFree' /\ BatchCounted' /\ IdsKnown'
         /\ OwnersKnown' /\ AcceptedWhole' /\ RefusedScored'
<1> DEFINE c == NextCode(s)
<1>1. /\ session[s] \in SessionStates /\ session[s].at = "writing" /\ session[s].version # 0
      /\ session[s].next \in DOMAIN session[s].genome /\ c \in Codes
      /\ UNCHANGED <<owner, scored, versions, lastId>>
  BY InsertingFacts DEF InsertUnit, Inserting, IInv, TypeOK, VersionsOwn
<1>2. owner[c] = 0 /\ \A t \in Sessions : c \notin session[t].pending
  BY DEF InsertUnit, Taken, WaitsFor
<1> HIDE DEF c
<1>3. PICK at \in {"writing", "scoring"} : session' = [session EXCEPT ![s] =
        [session[s] EXCEPT !.pending = @ \cup {c}, !.next = @ + 1, !.at = at]]
  BY DEF InsertUnit, IInv, TypeOK, c
<1>4. /\ \A t \in Sessions : t # s => session'[t] = session[t]
      /\ session'[s].version = session[s].version /\ session'[s].genome = session[s].genome
      /\ session'[s].pending = session[s].pending \cup {c}
      /\ session'[s].next = session[s].next + 1 /\ session'[s].at \in {"writing", "scoring"}
  BY <1>1, <1>3 DEF IInv, TypeOK, SessionStates
<1>5. VersionsOwn'
  <2>1. \A t \in Sessions : session'[t].version = session[t].version
    BY <1>4
  <2> QED BY <1>1, <1>4, <2>1 DEF IInv, VersionsOwn
<1>6. PendingFree'
  BY <1>1, <1>2, <1>4 DEF IInv, PendingFree
<1>7. Counted(s)'
  <2>1. Landed(s)' = Landed(s) \cup {c}
    BY <1>1, <1>4 DEF Landed, OwnedBy
  <2>2. c \notin Landed(s)
    BY <1>1, <1>2 DEF Landed, OwnedBy
  <2>3. IsFiniteSet(Landed(s)) /\ Cardinality(Landed(s)) = session[s].next - 1
    BY <1>1 DEF IInv, BatchCounted, Counted
  <2>4. session[s].next \in Nat \ {0} /\ session[s].next \in 1 .. Len(session[s].genome)
    BY <1>1 DEF SessionStates
  <2>5. IsFiniteSet(Landed(s)') /\ Cardinality(Landed(s)') = session'[s].next - 1
    <3>1. IsFiniteSet(Landed(s) \cup {c}) /\ Cardinality(Landed(s) \cup {c}) = Cardinality(Landed(s)) + 1
      BY <2>2, <2>3, FS_AddElement
    <3>2. Cardinality(Landed(s)) + 1 = session'[s].next - 1
      BY <1>4, <2>3, <2>4
    <3> QED BY <2>1, <3>1, <3>2
  <2>6. session'[s].next <= Len(session'[s].genome) + 1
    BY <1>4, <2>4
  <2>7. session'[s].next - 1 = session[s].next
    BY <1>4, <2>4
  <2>8. CodeAt(session'[s].genome, session'[s].next - 1) \in session'[s].pending
    BY <1>4, <2>7 DEF NextCode, c
  <2>9. \A v \in versions' : v.id = session'[s].version => ~v.passed
    BY <1>1, <1>4 DEF IInv, BatchCounted, Counted
  <2> QED BY <1>1, <1>4, <2>5, <2>6, <2>7, <2>8, <2>9 DEF Counted
<1>8. BatchCounted'
  <2>1. \A t \in Sessions : t # s => Landed(t)' = Landed(t)
    BY <1>1, <1>4 DEF Landed, OwnedBy
  <2>2. \A t \in Sessions : t # s => Counted(t)'
    BY <1>1, <1>4, <2>1 DEF IInv, BatchCounted, Counted
  <2> QED BY <1>7, <2>2 DEF BatchCounted
<1>9. IdsKnown' /\ OwnersKnown' /\ AcceptedWhole' /\ RefusedScored'
  BY <1>1, TablesKept DEF IInv, TypeOK
<1> QED BY <1>5, <1>6, <1>8, <1>9

\* What a commit in the middle of a batch, or at its end, does.
Commits(s, passed) ==
  /\ session[s].at \in {"writing", "scoring"} /\ passed \in BOOLEAN
  /\ SaveUnits(s) /\ SaveVersion(s, passed) /\ lastId' = lastId /\ scored \subseteq scored'
  /\ \A t \in Sessions : t # s => session'[t] = session[t]
  /\ session'[s].pending = {} /\ session'[s].version = session[s].version
  /\ session'[s].next = session[s].next /\ session'[s].genome = session[s].genome
  /\ session'[s].at \in {"writing", "auditing"}
  /\ passed => session'[s].at = "auditing" /\ session[s].next > Len(session[s].genome)
  /\ ~passed => Landed(s) \cap scored' # {}

LEMMA CommitsIInv ==
  ASSUME IInv, NEW s \in Sessions, NEW passed, Commits(s, passed)
  PROVE  /\ VersionsOwn' /\ PendingFree' /\ BatchCounted' /\ IdsKnown'
         /\ OwnersKnown' /\ AcceptedWhole' /\ RefusedScored'
<1> DEFINE id == session[s].version
           row == Row(s, id, passed)
<1>1. session[s] \in SessionStates /\ id \in Nat \ {0} /\ id <= lastId
  BY DEF IInv, TypeOK, SessionStates, VersionsOwn, Commits
<1>2. versions' = {v \in versions : v.id # id} \cup {row}
  BY DEF Commits, SaveVersion
<1>3. row.id = id /\ row.passed = passed /\ row.count = Len(session[s].genome)
  BY DEF Row
<1>4. /\ {c \in Codes : owner'[c] = id} = Landed(s)
      /\ \A i \in Nat : i # 0 /\ i # id => {c \in Codes : owner'[c] = i} = OwnedBy(i)
      /\ \A c \in Codes : owner'[c] # owner[c] => owner'[c] = id
      /\ \A c \in Codes \ session[s].pending : owner'[c] = owner[c]
  BY <1>1, CommitOwners DEF Commits, IInv
<1>5. \A v \in versions : v.id \in Nat /\ v.id # 0
  BY DEF IInv, TypeOK, Versions
<1> HIDE DEF id, row
<1>6. VersionsOwn'
  <2>1. \A t \in Sessions : session'[t].version = session[t].version
    BY DEF Commits
  <2>2. id # 0 /\ id = session[s].version
    BY <1>1 DEF id
  <2> QED BY <2>1, <2>2 DEF Commits, IInv, VersionsOwn
<1>7. PendingFree'
  <2>1. \A t \in Sessions : t # s => session[t].pending \subseteq Codes \ session[s].pending
    BY DEF IInv, TypeOK, SessionStates, PendingFree
  <2> QED BY <1>4, <2>1 DEF Commits, IInv, PendingFree
<1>8. Landed(s)' = Landed(s)
  BY <1>4 DEF Landed, OwnedBy, Commits, id
<1>9. Counted(s)'
  <2>1. \A v \in versions' : v.id = id /\ ~passed => ~v.passed
    BY <1>2, <1>3
  <2> QED BY <1>8, <2>1 DEF Commits, IInv, BatchCounted, Counted, id
<1>10. BatchCounted'
  <2> SUFFICES ASSUME NEW t \in Sessions, t # s PROVE Counted(t)'
    BY <1>9 DEF BatchCounted
  <2>1. session'[t] = session[t] /\ Counted(t)
    BY DEF Commits, IInv, BatchCounted
  <2>2. CASE session[t].at = "idle"
    BY <2>1, <2>2 DEF Counted
  <2>3. CASE session[t].at # "idle"
    <3>1. session[t].version \in Nat /\ session[t].version # 0 /\ session[t].version # id
      BY <2>3 DEF IInv, TypeOK, SessionStates, VersionsOwn, id
    <3>2. Landed(t)' = Landed(t)
      BY <1>4, <2>1, <3>1 DEF Landed, OwnedBy
    <3>3. \A v \in versions' : v.id = session[t].version => v \in versions
      BY <1>2, <1>3, <3>1
    <3> QED BY <2>1, <3>2, <3>3 DEF Counted
  <2> QED BY <2>2, <2>3
<1>11. IdsKnown'
  BY <1>1, <1>2, <1>3 DEF IInv, IdsKnown, Commits
<1>12. OwnersKnown'
  <2>1. \A c \in Codes : owner'[c] # 0 => \E v \in versions' : v.id = owner'[c]
    <3> SUFFICES ASSUME NEW c \in Codes, owner'[c] # 0 PROVE \E v \in versions' : v.id = owner'[c]
      OBVIOUS
    <3>1. CASE owner'[c] = id
      BY <1>2, <1>3, <3>1
    <3>2. CASE owner'[c] # id
      <4>1. owner'[c] = owner[c]
        BY <1>4, <3>2
      <4>2. PICK v \in versions : v.id = owner[c]
        BY <4>1 DEF IInv, OwnersKnown
      <4> QED BY <1>2, <3>2, <4>1, <4>2
    <3> QED BY <3>1, <3>2
  <2>2. \A v, w \in versions' : v.id = w.id => v = w
    BY <1>2, <1>3 DEF IInv, OwnersKnown
  <2> QED BY <2>1, <2>2 DEF OwnersKnown
<1>13. \A v \in versions' : v.id # id => v \in versions /\ OwnedBy(v.id)' = OwnedBy(v.id)
  BY <1>2, <1>3, <1>4, <1>5 DEF OwnedBy
<1>14. \A v \in versions' : v.id = id => v = row /\ OwnedBy(v.id)' = Landed(s)
  BY <1>2, <1>3, <1>4 DEF OwnedBy
<1>15. AcceptedWhole'
  <2>1. passed => Cardinality(Landed(s)) = row.count
    <3>1. Cardinality(Landed(s)) = session[s].next - 1 /\ session[s].next <= Len(session[s].genome) + 1
      BY DEF Commits, IInv, BatchCounted, Counted
    <3>2. Len(session[s].genome) \in Nat /\ session[s].next \in Nat
      BY <1>1 DEF SessionStates
    <3> QED BY <1>3, <3>1, <3>2 DEF Commits
  <2> QED BY <1>3, <1>13, <1>14, <2>1 DEF IInv, AcceptedWhole
<1>16. RefusedScored'
  BY <1>3, <1>13, <1>14 DEF IInv, RefusedScored, Commits
<1> QED BY <1>6, <1>7, <1>10, <1>11, <1>12, <1>15, <1>16

\* Both commits of a batch are such commits.
LEMMA ScoreUnitCommits ==
  ASSUME IInv, NEW s \in Sessions, ScoreUnit(s)
  PROVE  Commits(s, FALSE)
<1>1. session[s] \in SessionStates
  BY DEF IInv, TypeOK
<1>2. session' = [session EXCEPT ![s] =
        [session[s] EXCEPT !.at = "writing", !.pending = {}, !.saved = TRUE]]
  BY DEF ScoreUnit, IInv, TypeOK
<1>3. Landed(s) \cap scored' # {}
  BY DEF ScoreUnit, IInv, BatchCounted, Counted, Landed
<1>4. /\ \A t \in Sessions : t # s => session'[t] = session[t]
      /\ session'[s].pending = {} /\ session'[s].version = session[s].version
      /\ session'[s].next = session[s].next /\ session'[s].genome = session[s].genome
      /\ session'[s].at = "writing"
  BY <1>1, <1>2 DEF IInv, TypeOK, SessionStates
<1>5. session[s].at = "scoring" /\ SaveUnits(s) /\ SaveVersion(s, FALSE) /\ lastId' = lastId
      /\ scored \subseteq scored'
  BY DEF ScoreUnit
<1> QED BY <1>3, <1>4, <1>5 DEF Commits

LEMMA FinishWriteCommits ==
  ASSUME IInv, NEW s \in Sessions, FinishWrite(s)
  PROVE  Commits(s, TRUE)
<1>1. session[s] \in SessionStates
  BY DEF IInv, TypeOK
<1>2. session' = [session EXCEPT ![s] =
        [session[s] EXCEPT !.at = "auditing", !.pending = {}, !.saved = TRUE]]
  BY DEF FinishWrite, IInv, TypeOK
<1>3. /\ \A t \in Sessions : t # s => session'[t] = session[t]
      /\ session'[s].pending = {} /\ session'[s].version = session[s].version
      /\ session'[s].next = session[s].next /\ session'[s].genome = session[s].genome
      /\ session'[s].at = "auditing"
  BY <1>1, <1>2 DEF IInv, TypeOK, SessionStates
<1>4. session[s].at = "writing" /\ SaveUnits(s) /\ SaveVersion(s, TRUE) /\ lastId' = lastId
      /\ scored \subseteq scored' /\ session[s].next > Len(session[s].genome)
  BY DEF FinishWrite
<1> QED BY <1>3, <1>4 DEF Commits

\* A row of an attempt that left nothing behind.
LEMMA EmptyRowIInv ==
  ASSUME IInv, NEW s \in Sessions, Drops(s), owner' = owner, scored' = scored,
         lastId' \in Nat, lastId <= lastId',
         NEW row \in Versions, ~row.passed, row.id <= lastId', OwnedBy(row.id) = {},
         versions' = {v \in versions : v.id # row.id} \cup {row},
         \A v \in versions : v.id = row.id => ~v.passed,
         \A t \in Sessions : t # s /\ session[t].at # "idle" => session[t].version # row.id
  PROVE  /\ VersionsOwn' /\ PendingFree' /\ BatchCounted' /\ IdsKnown'
         /\ OwnersKnown' /\ AcceptedWhole' /\ RefusedScored'
<1>1. VersionsOwn' /\ PendingFree'
  BY DropsSessions
<1>2. BatchCounted'
  <2> SUFFICES ASSUME NEW t \in Sessions PROVE Counted(t)'
    BY DEF BatchCounted
  <2>1. CASE t = s
    BY <2>1 DEF Drops, Counted
  <2>2. CASE t # s
    <3>1. session'[t] = session[t] /\ Counted(t)
      BY <2>2 DEF Drops, IInv, BatchCounted
    <3>2. Landed(t)' = Landed(t)
      BY <3>1 DEF Landed, OwnedBy
    <3>3. session[t].at # "idle" => \A v \in versions' : v.id = session[t].version => v \in versions
      BY <2>2
    <3> QED BY <3>1, <3>2, <3>3 DEF Counted
  <2> QED BY <2>1, <2>2
<1>3. IdsKnown'
  <2>1. \A v \in versions : v.id \in Nat
    BY DEF IInv, TypeOK, Versions
  <2> QED BY <2>1 DEF IInv, TypeOK, IdsKnown
<1>4. OwnersKnown'
  <2>1. \A c \in Codes : owner[c] # row.id
    BY DEF OwnedBy
  <2> QED BY <2>1 DEF IInv, OwnersKnown
<1>5. AcceptedWhole' /\ RefusedScored'
  BY DEF IInv, AcceptedWhole, RefusedScored, OwnedBy
<1> QED BY <1>1, <1>2, <1>3, <1>4, <1>5

LEMMA RefuseIInv ==
  ASSUME IInv, NEW s \in Sessions, Refuse(s)
  PROVE  /\ VersionsOwn' /\ PendingFree' /\ BatchCounted' /\ IdsKnown'
         /\ OwnersKnown' /\ AcceptedWhole' /\ RefusedScored'
<1> DEFINE row == Row(s, session[s].version, FALSE)
<1>1. /\ session[s].at = "validating" /\ session[s].version \in Nat \ {0}
      /\ session[s].version <= lastId /\ lastId' = lastId /\ lastId \in Nat
      /\ owner' = owner /\ scored' = scored
  BY DEF Refuse, IInv, TypeOK, SessionStates, VersionsOwn
<1>2. row \in Versions /\ ~row.passed /\ row.id = session[s].version
  BY <1>1, RowType DEF Row, IInv
<1>3. versions' = {v \in versions : v.id # row.id} \cup {row}
  BY <1>2 DEF Refuse, SaveVersion
<1>4. Landed(s) = {}
  <2>1. IsFiniteSet(Landed(s)) /\ Cardinality(Landed(s)) = 0
    BY <1>1 DEF IInv, BatchCounted, Counted
  <2> QED BY <2>1, FS_EmptySet
<1>5. \A v \in versions : v.id = row.id => ~v.passed
  BY <1>1, <1>2 DEF IInv, BatchCounted, Counted
<1>6. \A t \in Sessions : t # s /\ session[t].at # "idle" => session[t].version # row.id
  BY <1>1, <1>2 DEF IInv, VersionsOwn
<1>7. Drops(s)
  BY FinishDrops DEF Refuse, IInv
<1> HIDE DEF row
<1>8. OwnedBy(row.id) = {}
  BY <1>2, <1>4 DEF Landed
<1>9. lastId \in Nat /\ lastId' = lastId /\ row.id <= lastId
  BY <1>1, <1>2
<1>10. lastId' \in Nat /\ lastId <= lastId' /\ row.id <= lastId'
  BY <1>9
<1> QED BY <1>1, <1>2, <1>3, <1>5, <1>6, <1>7, <1>8, <1>10, EmptyRowIInv

LEMMA RecordFailedIInv ==
  ASSUME IInv, NEW s \in Sessions, RecordFailed(s)
  PROVE  /\ VersionsOwn' /\ PendingFree' /\ BatchCounted' /\ IdsKnown'
         /\ OwnersKnown' /\ AcceptedWhole' /\ RefusedScored'
<1> DEFINE row == Row(s, lastId + 1, FALSE)
<1>1. lastId \in Nat /\ lastId' = lastId + 1 /\ owner' = owner /\ scored' = scored
  BY DEF RecordFailed, IInv, TypeOK
<1>2. row \in Versions /\ ~row.passed /\ row.id = lastId + 1
  <2>1. lastId + 1 \in Nat \ {0}
    BY <1>1
  <2> QED BY <2>1, RowType DEF Row, IInv
<1>3. \A v \in versions : v.id # lastId + 1
  BY <1>1 DEF IInv, TypeOK, Versions, IdsKnown
<1>4. versions' = {v \in versions : v.id # row.id} \cup {row}
  BY <1>2, <1>3 DEF RecordFailed
<1> HIDE DEF row
<1>5. OwnedBy(row.id) = {}
  <2>1. \A c \in Codes : owner[c] # lastId + 1
    BY <1>1, <1>3 DEF IInv, OwnersKnown
  <2> QED BY <1>2, <2>1 DEF OwnedBy
<1>6. \A t \in Sessions : session[t].version # row.id
  <2>1. \A t \in Sessions : session[t].version \in Nat /\ session[t].version <= lastId
    BY DEF IInv, TypeOK, SessionStates, VersionsOwn
  <2> QED BY <1>1, <1>2, <2>1
<1>7. Drops(s)
  BY FinishDrops DEF RecordFailed, IInv
<1>8. lastId' \in Nat /\ lastId <= lastId' /\ row.id <= lastId'
  <2>1. lastId \in Nat /\ lastId' = lastId + 1 /\ row.id = lastId + 1
    BY <1>1, <1>2
  <2> QED BY <2>1
<1> QED BY <1>1, <1>2, <1>3, <1>4, <1>5, <1>6, <1>7, <1>8, EmptyRowIInv

LEMMA IInvStep == IInv /\ [Next]_vars => IInv'
<1> SUFFICES ASSUME IInv, [Next]_vars
             PROVE  /\ VersionsOwn' /\ PendingFree' /\ BatchCounted' /\ IdsKnown'
                    /\ OwnersKnown' /\ AcceptedWhole' /\ RefusedScored'
  BY TypeStep DEF IInv
<1>1. CASE UNCHANGED vars
  <2>1. VersionsOwn' /\ PendingFree'
    BY <1>1 DEF vars, IInv, VersionsOwn, PendingFree
  <2>2. BatchCounted'
    BY <1>1 DEF vars, IInv, BatchCounted, Counted, Landed, OwnedBy
  <2>3. IdsKnown' /\ OwnersKnown' /\ AcceptedWhole' /\ RefusedScored'
    BY <1>1, TablesKept DEF vars, IInv, TypeOK
  <2> QED BY <2>1, <2>2, <2>3
<1>2. ASSUME NEW s \in Sessions, Start(s) \/ Advance(s) \/ Fault(s) \/ Crash(s)
      PROVE  /\ VersionsOwn' /\ PendingFree' /\ BatchCounted' /\ IdsKnown'
             /\ OwnersKnown' /\ AcceptedWhole' /\ RefusedScored'
  <2>1. CASE Start(s)
    BY <2>1, StartIInv
  <2>2. CASE Refuse(s)
    BY <2>2, RefuseIInv
  <2>3. CASE Pass(s)
    BY <2>3, PassIInv
  <2>4. CASE InsertUnit(s)
    BY <2>4, InsertUnitIInv
  <2>5. CASE ScoreUnit(s)
    BY <2>5, ScoreUnitCommits, CommitsIInv
  <2>6. CASE FinishWrite(s)
    BY <2>6, FinishWriteCommits, CommitsIInv
  <2>7. CASE LogCommitted(s) \/ LoseAttempt(s) \/ Crash(s)
    <3>1. Drops(s)
      BY <2>7, FinishDrops DEF LogCommitted, LoseAttempt, Crash, IInv
    <3> QED BY <2>7, <3>1, DropsIInv DEF LogCommitted, LoseAttempt, Crash
  <2>8. CASE Collide(s) \/ DeadlockVictim(s) \/ Fault(s)
    <3>1. RollBack(s) /\ session[s].at # "idle"
      BY <2>8 DEF Collide, DeadlockVictim, Fault, WaitsFor, Inserting
    <3>2. Drops(s)
      BY <3>1, RollBackDrops DEF IInv
    <3> QED BY <3>1, <3>2, DropsIInv DEF RollBack
  <2>9. CASE RecordFailed(s)
    BY <2>9, RecordFailedIInv
  <2> QED BY <1>2, <2>1, <2>2, <2>3, <2>4, <2>5, <2>6, <2>7, <2>8, <2>9 DEF Advance
<1> QED BY <1>1, <1>2 DEF Next

\* The invariant that the properties follow from: each session's batch is
\* accounted for, unit by unit, until its version passes or is given up.
THEOREM Inductive == Spec => []IInv
<1> QED BY InitIInv, IInvStep, PTL DEF Spec

-----------------------------------------------------------------------------
(* What follows.                                                           *)

\* A version that says it passed owns exactly the units it counts, however its
\* commits and those of other imports were interleaved, failed or died.
THEOREM AcceptedWholeAlways == Spec => []AcceptedWhole
<1>1. IInv => AcceptedWhole
  BY DEF IInv
<1> QED BY Inductive, <1>1, PTL

\* No unit is left without its version row, no two rows speak for one import.
THEOREM OwnersKnownAlways == Spec => []OwnersKnown
<1>1. IInv => OwnersKnown
  BY DEF IInv
<1> QED BY Inductive, <1>1, PTL

\* An import that did not pass owns nothing, unless scoring one of its units
\* committed the batch half-way.
THEOREM UnscoredAllOrNothingAlways == Spec => []UnscoredAllOrNothing
<1>1. IInv => UnscoredAllOrNothing
  BY DEF IInv, RefusedScored, UnscoredAllOrNothing
<1> QED BY Inductive, <1>1, PTL

LEMMA KeptStep ==
  ASSUME IInv, [Next]_vars
  PROVE  [Kept]_vars
<1> SUFFICES ASSUME Next PROVE Kept
  OBVIOUS
<1>1. PICK s \in Sessions : Start(s) \/ Advance(s) \/ Fault(s) \/ Crash(s)
  BY DEF Next
<1>2. ASSUME NEW passed, Commits(s, passed) PROVE Kept
  <2>1. session[s].version # 0
    BY <1>2 DEF Commits, IInv, VersionsOwn
  <2>2. \A v \in versions : v.id = session[s].version => ~v.passed
    BY <1>2 DEF Commits, IInv, BatchCounted, Counted
  <2>3. \A c \in Codes : owner[c] # 0 => owner'[c] = owner[c]
    BY <1>2, <2>1, CommitOwners DEF Commits, IInv
  <2>4. \A v \in versions : v.passed => v \in versions'
    BY <1>2, <2>2 DEF Commits, SaveVersion
  <2> QED BY <2>3, <2>4 DEF Kept
<1>3. CASE ScoreUnit(s) \/ FinishWrite(s)
  BY <1>2, <1>3, ScoreUnitCommits, FinishWriteCommits
<1>4. CASE Refuse(s)
  BY <1>4 DEF Kept, Refuse, SaveVersion, IInv, BatchCounted, Counted
<1>5. CASE RecordFailed(s)
  BY <1>5 DEF Kept, RecordFailed
<1>6. CASE ~(ScoreUnit(s) \/ FinishWrite(s) \/ Refuse(s) \/ RecordFailed(s))
  BY <1>1, <1>6 DEF Kept, Start, Pass, InsertUnit, LogCommitted, Collide, DeadlockVictim, RollBack,
                    LoseAttempt, Crash, Fault, Advance
<1> QED BY <1>3, <1>4, <1>5, <1>6

\* A unit never changes hands to a later import, and an accepted version is
\* never turned into a refused one.
THEOREM CommittedKeptAlways == Spec => CommittedKept
<1> QED BY Inductive, KeptStep, PTL DEF Spec, CommittedKept
=============================================================================

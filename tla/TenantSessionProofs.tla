------------------------- MODULE TenantSessionProofs -------------------------
(***************************************************************************)
(* Theorems of TenantSession for every set of companies, keys and pages    *)
(* and every bound.                                                        *)
(***************************************************************************)
EXTENDS TenantSession, TLAPS

-----------------------------------------------------------------------------
(* Types.                                                                  *)

LEMMA FreshType == \A h \in Hooks : Fresh(h) \in HookStates
  BY DEF Fresh, HookStates, Companies, Requests, NoRequest

LEMMA ResolvesType == \A k \in Keys : Resolves(k) \in Companies
  BY OwnerAssumption DEF Resolves, Companies

\* What an effect depends on, and whom its request is about, are companies.
LEMMA DepsType ==
  ASSUME TypeOK, NEW h \in Hooks
  PROVE  DepsOf(h) \in Deps /\ CompanyOf(h) \in Companies /\ SourceOf(h) \in Companies
<1>1. \A g \in Hooks : hook[g].shown \in Companies
  BY DEF TypeOK, HookStates
<1>2. "units" \in Hooks /\ "workSystem" \in Hooks
  BY DEF Hooks
<1>3. NoTenant \in Companies /\ keyClient \in Companies /\ client \in Companies
  BY DEF TypeOK, Companies
<1>4. SourceOf(h) \in Companies
  BY <1>1, <1>2, <1>3 DEF SourceOf
<1>5. CompanyOf(h) \in Companies
  BY <1>3 DEF CompanyOf
<1>6. (h = "claims" /\ firstPending) \in BOOLEAN
  OBVIOUS
<1>7. (IF h = "selected" THEN keyClient ELSE SourceOf(h)) \in Companies
  BY <1>3, <1>4
<1> QED BY <1>4, <1>5, <1>6, <1>7 DEF DepsOf, Deps

Hows == {"wait", "stop", "blank", "none", "clear", "error", "needsKey"}

LEMMA UseType ==
  ASSUME TypeOK, NEW h \in Hooks
  PROVE  /\ Use(h).about \in Companies /\ Use(h).onSkip \in Hows
         /\ Use(h).onRefusal \in Hows /\ Use(h).onFailure \in Hows
<1>1. NoTenant \in Companies /\ keyClient \in Companies /\ CompanyOf(h) \in Companies
      /\ SourceOf(h) \in Companies
  BY DepsType DEF TypeOK, Companies
<1>2. CASE h = "workSystem"
  BY <1>1, <1>2 DEF Use, useWorkSystem, Hows
<1>3. CASE h = "census"
  BY <1>1, <1>3 DEF Use, useCensus, Hows
<1>4. CASE h = "claims"
  BY <1>1, <1>4 DEF Use, useEvidenceClaims, Hows
<1>5. CASE h = "verify"
  BY <1>1, <1>5 DEF Use, usePlanVerify, Hows
<1>6. CASE h = "outcome"
  BY <1>1, <1>6 DEF Use, usePlanOutcome, Hows
<1>7. CASE h \notin {"workSystem", "census", "claims", "verify", "outcome"}
  BY <1>1, <1>7 DEF Use, useApi, Hows
<1> QED BY <1>2, <1>3, <1>4, <1>5, <1>6, <1>7

\* The outcome of a request that is no more: nothing is asked, the effect is the
\* same, and the rows shown are those of before or none.
LEMMA OutcomeFacts ==
  ASSUME TypeOK, NEW h \in Hooks, NEW how \in Hows
  PROVE  /\ Outcome(h, how) \in HookStates
         /\ Outcome(h, how).request = NoRequest /\ Outcome(h, how).seen = hook[h].seen
         /\ Outcome(h, how).shown \in {hook[h].shown, NoTenant}
         /\ how \in {"blank", "none", "clear"} => Outcome(h, how).shown = NoTenant
         /\ how \in {"wait", "stop"} => Outcome(h, how).shown = hook[h].shown
         /\ how = "error" => Outcome(h, how).error = TRUE
         /\ how = "stop" => Outcome(h, how).loading = FALSE /\ Outcome(h, how).error = hook[h].error
<1> DEFINE idle == [hook[h] EXCEPT !.request = NoRequest]
<1>1. idle \in HookStates /\ idle.request = NoRequest /\ idle.seen = hook[h].seen
      /\ idle.shown = hook[h].shown /\ idle.error = hook[h].error
  BY DEF TypeOK, HookStates, Requests
<1>2. NoTenant \in Companies
  BY DEF Companies
<1>3. \A i \in HookStates :
        /\ [i EXCEPT !.loading = TRUE] \in HookStates
        /\ [i EXCEPT !.loading = FALSE] \in HookStates
        /\ [i EXCEPT !.shown = NoTenant] \in HookStates
        /\ [i EXCEPT !.shown = NoTenant, !.loading = FALSE] \in HookStates
        /\ [i EXCEPT !.shown = NoTenant, !.loading = FALSE, !.error = FALSE, !.needsKey = FALSE] \in HookStates
        /\ [i EXCEPT !.loading = FALSE, !.error = TRUE] \in HookStates
        /\ [i EXCEPT !.loading = FALSE, !.needsKey = TRUE] \in HookStates
  BY <1>2 DEF HookStates
<1> HIDE DEF idle
<1>4. CASE how = "wait"
  <2>1. Outcome(h, how) = [idle EXCEPT !.loading = TRUE]
    BY <1>4 DEF Outcome, idle
  <2>2. Outcome(h, how) \in HookStates
    BY <1>1, <1>3, <2>1
  <2>3. /\ Outcome(h, how).request = idle.request /\ Outcome(h, how).seen = idle.seen
        /\ Outcome(h, how).shown = idle.shown
        /\ Outcome(h, how).loading = TRUE
        /\ Outcome(h, how).error = idle.error
    BY <1>1, <2>1 DEF HookStates
  <2> QED BY <1>1, <1>4, <2>2, <2>3
<1>5. CASE how = "stop"
  <2>1. Outcome(h, how) = [idle EXCEPT !.loading = FALSE]
    BY <1>5 DEF Outcome, idle
  <2>2. Outcome(h, how) \in HookStates
    BY <1>1, <1>3, <2>1
  <2>3. /\ Outcome(h, how).request = idle.request /\ Outcome(h, how).seen = idle.seen
        /\ Outcome(h, how).shown = idle.shown
        /\ Outcome(h, how).loading = FALSE
        /\ Outcome(h, how).error = idle.error
    BY <1>1, <2>1 DEF HookStates
  <2> QED BY <1>1, <1>5, <2>2, <2>3
<1>6. CASE how = "blank"
  <2>1. Outcome(h, how) = [idle EXCEPT !.shown = NoTenant]
    BY <1>6 DEF Outcome, idle
  <2>2. Outcome(h, how) \in HookStates
    BY <1>1, <1>3, <2>1
  <2>3. /\ Outcome(h, how).request = idle.request /\ Outcome(h, how).seen = idle.seen
        /\ Outcome(h, how).shown = NoTenant
        /\ Outcome(h, how).error = idle.error
    BY <1>1, <2>1 DEF HookStates
  <2> QED BY <1>1, <1>6, <2>2, <2>3
<1>7. CASE how = "none"
  <2>1. Outcome(h, how) = [idle EXCEPT !.shown = NoTenant, !.loading = FALSE]
    BY <1>7 DEF Outcome, idle
  <2>2. Outcome(h, how) \in HookStates
    BY <1>1, <1>3, <2>1
  <2>3. /\ Outcome(h, how).request = idle.request /\ Outcome(h, how).seen = idle.seen
        /\ Outcome(h, how).shown = NoTenant
        /\ Outcome(h, how).loading = FALSE
        /\ Outcome(h, how).error = idle.error
    BY <1>1, <2>1 DEF HookStates
  <2> QED BY <1>1, <1>7, <2>2, <2>3
<1>8. CASE how = "clear"
  <2>1. Outcome(h, how) = [idle EXCEPT !.shown = NoTenant, !.loading = FALSE,
                                       !.error = FALSE, !.needsKey = FALSE]
    BY <1>8 DEF Outcome, idle
  <2>2. Outcome(h, how) \in HookStates
    BY <1>1, <1>3, <2>1
  <2>3. /\ Outcome(h, how).request = idle.request /\ Outcome(h, how).seen = idle.seen
        /\ Outcome(h, how).shown = NoTenant
        /\ Outcome(h, how).loading = FALSE
        /\ Outcome(h, how).error = FALSE
    BY <1>1, <2>1 DEF HookStates
  <2> QED BY <1>1, <1>8, <2>2, <2>3
<1>9. CASE how = "error"
  <2>1. Outcome(h, how) = [idle EXCEPT !.loading = FALSE, !.error = TRUE]
    BY <1>9 DEF Outcome, idle
  <2>2. Outcome(h, how) \in HookStates
    BY <1>1, <1>3, <2>1
  <2>3. /\ Outcome(h, how).request = idle.request /\ Outcome(h, how).seen = idle.seen
        /\ Outcome(h, how).shown = idle.shown
        /\ Outcome(h, how).loading = FALSE
        /\ Outcome(h, how).error = TRUE
    BY <1>1, <2>1 DEF HookStates
  <2> QED BY <1>1, <1>9, <2>2, <2>3
<1>10. CASE how = "needsKey"
  <2>1. Outcome(h, how) = [idle EXCEPT !.loading = FALSE, !.needsKey = TRUE]
    BY <1>10 DEF Outcome, idle
  <2>2. Outcome(h, how) \in HookStates
    BY <1>1, <1>3, <2>1
  <2>3. /\ Outcome(h, how).request = idle.request /\ Outcome(h, how).seen = idle.seen
        /\ Outcome(h, how).shown = idle.shown
        /\ Outcome(h, how).loading = FALSE
        /\ Outcome(h, how).error = idle.error
    BY <1>1, <2>1 DEF HookStates
  <2> QED BY <1>1, <1>10, <2>2, <2>3
<1> QED BY <1>4, <1>5, <1>6, <1>7, <1>8, <1>9, <1>10 DEF Hows

LEMMA AskingFacts ==
  ASSUME TypeOK, NEW h \in Hooks
  PROVE  /\ Asking(h) \in HookStates
         /\ Asking(h).request = [on |-> TRUE, key |-> stored, company |-> Use(h).about, part |-> "page"]
         /\ Asking(h).shown = hook[h].shown /\ Asking(h).loading = TRUE
<1>1. stored \in Keys /\ Use(h).about \in Companies /\ hook[h] \in HookStates
  BY UseType DEF TypeOK
<1>2. [on |-> TRUE, key |-> stored, company |-> Use(h).about, part |-> "page"] \in Requests
  BY <1>1 DEF Requests
<1> QED BY <1>1, <1>2 DEF Asking, HookStates

\* What a run of an effect leaves, the dependencies it saw apart.
RunOf(h) == IF Use(h).skips THEN Outcome(h, Use(h).onSkip) ELSE Asking(h)

LEMMA RunFacts ==
  ASSUME TypeOK, NEW h \in Hooks, RunEffect(h)
  PROVE  /\ RunOf(h) \in HookStates
         /\ hook' = [hook EXCEPT ![h] = [RunOf(h) EXCEPT !.seen = DepsOf(h)]]
         /\ hook'[h] \in HookStates /\ hook'[h].seen = DepsOf(h)
         /\ hook'[h].request = RunOf(h).request /\ hook'[h].shown = RunOf(h).shown
         /\ hook'[h].loading = RunOf(h).loading /\ hook'[h].error = RunOf(h).error
<1>1. RunOf(h) \in HookStates
  BY OutcomeFacts, AskingFacts, UseType DEF RunOf
<1>2. hook' = [hook EXCEPT ![h] = [RunOf(h) EXCEPT !.seen = DepsOf(h)]]
  BY DEF RunEffect, RunOf
<1>3. hook'[h] = [RunOf(h) EXCEPT !.seen = DepsOf(h)]
  BY <1>2 DEF TypeOK
<1>4. DepsOf(h) \in Deps
  BY DepsType
<1> QED BY <1>1, <1>2, <1>3, <1>4 DEF HookStates

LEMMA ReturnedType ==
  ASSUME TypeOK, NEW h \in Hooks, hook[h].request.on
  PROVE  /\ Returned(h) \in Companies
         /\ h = "selected" => Returned(h) \in {NoTenant, hook[h].request.company}
<1>0. hook[h].request \in Requests
  BY DEF TypeOK, HookStates
<1>00. hook[h].request # NoRequest
  BY DEF NoRequest
<1>1. hook[h].request.key \in Keys
  BY <1>0, <1>00 DEF Requests
<1> QED BY <1>1, OwnerAssumption DEF Returned, Companies

\* The answers of one hook: the hook they are for, and the state they leave.
LEMMA RespondFacts ==
  ASSUME TypeOK, NEW h \in Hooks, Respond(h)
  PROVE  /\ hook[h].request.on /\ UNCHANGED <<shell, page, acts>>
         /\ hook' = [hook EXCEPT ![h] = hook'[h]]
         /\ hook'[h] \in HookStates /\ hook'[h].seen = hook[h].seen
<1> USE DEF TypeOK
<1>0. hook[h] \in HookStates /\ "stop" \in Hows /\ NoTenant \in Companies
  BY DEF Hows, Companies
<1>1. CASE Answer(h)
  <2>1. hook[h].request.on /\ hook'[h] = [Outcome(h, "stop") EXCEPT !.shown = Returned(h)]
    BY <1>1 DEF Answer, Waits
  <2>2. Outcome(h, "stop") \in HookStates /\ Outcome(h, "stop").seen = hook[h].seen
        /\ Returned(h) \in Companies
    BY <1>0, <2>1, OutcomeFacts, ReturnedType
  <2>3. hook'[h] \in HookStates /\ hook'[h].seen = hook[h].seen
    BY <2>1, <2>2 DEF HookStates
  <2> QED BY <1>1, <2>1, <2>3 DEF Answer
<1>2. CASE Refuse(h)
  <2>1. hook[h].request.on /\ hook'[h] = Outcome(h, Use(h).onRefusal)
    BY <1>2 DEF Refuse, Waits
  <2> QED BY <1>2, <2>1, OutcomeFacts, UseType DEF Refuse
<1>3. CASE Fail(h)
  <2>1. hook[h].request.on /\ hook'[h] = Outcome(h, Use(h).onFailure)
    BY <1>3 DEF Fail, Waits
  <2> QED BY <1>3, <2>1, OutcomeFacts, UseType DEF Fail
<1>4. CASE AskPointers(h)
  <2>1. hook[h].request.on
        /\ hook'[h] = [hook[h] EXCEPT !.request =
             [on |-> TRUE, key |-> stored, part |-> "pointers", company |-> Returned(h)]]
    BY <1>4 DEF AskPointers, Waits
  <2>2. [on |-> TRUE, key |-> stored, part |-> "pointers", company |-> Returned(h)] \in Requests
    BY <2>1, ReturnedType DEF Requests
  <2>3. hook'[h] \in HookStates /\ hook'[h].seen = hook[h].seen
    BY <1>0, <2>1, <2>2 DEF HookStates
  <2> QED BY <1>4, <2>1, <2>3 DEF AskPointers
<1>5. CASE TakePointers(h)
  <2>1. PICK c \in {Returned(h), NoTenant} :
          hook' = [hook EXCEPT ![h] = [Outcome(h, "stop") EXCEPT !.shown = c]]
    BY <1>5 DEF TakePointers
  <2>2. hook[h].request.on /\ hook'[h] = [Outcome(h, "stop") EXCEPT !.shown = c]
    BY <1>5, <2>1 DEF TakePointers, Waits
  <2>3. Outcome(h, "stop") \in HookStates /\ Outcome(h, "stop").seen = hook[h].seen
        /\ c \in Companies
    BY <1>0, <2>1, <2>2, OutcomeFacts, ReturnedType
  <2>4. hook'[h] \in HookStates /\ hook'[h].seen = hook[h].seen
    BY <2>2, <2>3 DEF HookStates
  <2> QED BY <1>5, <2>1, <2>2, <2>4 DEF TakePointers
<1> QED BY <1>1, <1>2, <1>3, <1>4, <1>5 DEF Respond

LEMMA BannerFacts ==
  ASSUME TypeOK, NEW h \in Hooks, NEW k \in Keys, SaveFromBanner(h, k)
  PROVE  /\ hook' \in [Hooks -> HookStates]
         /\ \A g \in Hooks : /\ hook'[g].seen = hook[g].seen /\ hook'[g].request = hook[g].request
                             /\ hook'[g].shown = hook[g].shown /\ hook'[g].loading = hook[g].loading
                             /\ hook'[g].error = hook[g].error
<1>1. hook' = [hook EXCEPT ![h] = [hook[h] EXCEPT !.needsKey = FALSE]]
  BY DEF SaveFromBanner
<1>2. [hook[h] EXCEPT !.needsKey = FALSE] \in HookStates
  BY DEF TypeOK, HookStates
<1>3. \A g \in Hooks : hook'[g] = IF g = h THEN [hook[h] EXCEPT !.needsKey = FALSE] ELSE hook[g]
  BY <1>1 DEF TypeOK
<1>4. hook[h] \in HookStates
  BY DEF TypeOK
<1>5. LET new == [hook[h] EXCEPT !.needsKey = FALSE] IN
        /\ new.seen = hook[h].seen /\ new.request = hook[h].request /\ new.shown = hook[h].shown
        /\ new.loading = hook[h].loading /\ new.error = hook[h].error
  BY <1>4 DEF HookStates
<1>6. hook' \in [Hooks -> HookStates]
  BY <1>1, <1>2 DEF TypeOK
<1>7. ASSUME NEW g \in Hooks
      PROVE  /\ hook'[g].seen = hook[g].seen /\ hook'[g].request = hook[g].request
             /\ hook'[g].shown = hook[g].shown /\ hook'[g].loading = hook[g].loading
             /\ hook'[g].error = hook[g].error
  <2>1. CASE g = h
    BY <1>3, <1>5, <2>1
  <2>2. CASE g # h
    BY <1>3, <2>2
  <2> QED BY <2>1, <2>2
<1> QED BY <1>6, <1>7

-----------------------------------------------------------------------------
LEMMA LoadsType ==
  ASSUME TypeOK
  PROVE  /\ \A k \in Keys, f \in BOOLEAN : Append(loads, [key |-> k, follow |-> f]) \in Seq(Loads)
         /\ \A i \in 1 .. Len(loads) : RemoveAt(loads, i) \in Seq(Loads)
<1>1. loads \in Seq(Loads)
  BY DEF TypeOK
<1>2. \A k \in Keys, f \in BOOLEAN : [key |-> k, follow |-> f] \in Loads
  BY DEF Loads
<1>3. \A i \in 1 .. Len(loads) : RemoveAt(loads, i) \in Seq(Loads)
  BY <1>1 DEF RemoveAt
<1> QED BY <1>1, <1>2, <1>3

\* The provider's answer sets the switcher to a company, never to none.
LEMMA NextClientType ==
  ASSUME TypeOK, NEW owned \in Companies, NEW f
  PROVE  NextClient(owned, f) \subseteq Tenants
<1>1. client \in Companies
  BY DEF TypeOK
<1> QED BY <1>1, NoTenantAssumption DEF NextClient, Companies

LEMMA TypeStep == TypeOK /\ [Next]_vars => TypeOK'
<1> SUFFICES ASSUME TypeOK, [Next]_vars PROVE TypeOK'
  OBVIOUS
<1>0. acts \in 0 .. MaxActs /\ MaxActs \in Nat /\ Tenants \subseteq Companies
  BY BoundsAssumption DEF TypeOK, Companies
<1>00. MayAct => acts' \in 0 .. MaxActs
  BY <1>0 DEF MayAct
<1>1. ASSUME NEW k \in Keys, PasteKey(k) PROVE TypeOK'
  BY <1>1, <1>00, LoadsType DEF PasteKey, StartLoad, TypeOK
<1>2. ASSUME NEW k \in Keys, RetireKey(k) PROVE TypeOK'
  BY <1>2, <1>00 DEF RetireKey, TypeOK
<1>3. ASSUME NEW c \in Tenants, NewCompany(c) PROVE TypeOK'
  BY <1>3, <1>0, <1>00, LoadsType DEF NewCompany, StartLoad, TypeOK
<1>4. ASSUME NEW c \in Tenants, SelectCompany(c) PROVE TypeOK'
  BY <1>4, <1>0, <1>00 DEF SelectCompany, TypeOK
<1>5. ASSUME NEW p \in Pages, Navigate(p) PROVE TypeOK'
  BY <1>5, <1>00, FreshType DEF Navigate, TypeOK, shell
<1>6. ASSUME NEW h \in Hooks, NEW k \in Keys, SaveFromBanner(h, k) PROVE TypeOK'
  <2>1. hook' \in [Hooks -> HookStates]
    BY <1>6, BannerFacts
  <2> QED BY <1>6, <2>1, <1>00, LoadsType DEF SaveFromBanner, StartLoad, TypeOK
<1>7. ASSUME NEW i \in 1 .. Len(loads), FailLoad(i) PROVE TypeOK'
  BY <1>7, LoadsType DEF FailLoad, TypeOK
<1>8. ASSUME NEW i \in 1 .. Len(loads), NEW o \in Companies, SettleLoad(i, o) PROVE TypeOK'
  <2>1. client' \in Companies /\ keyClient' = o
    BY <1>0, <1>8, NextClientType DEF SettleLoad
  <2>2. orderly' \in BOOLEAN /\ listed' = TRUE /\ firstPending' = FALSE
    BY <1>8 DEF SettleLoad, TypeOK
  <2>3. loads' \in Seq(Loads) /\ UNCHANGED <<stored, live, page, hook, acts>>
    BY <1>8, LoadsType DEF SettleLoad
  <2> QED BY <2>1, <2>2, <2>3 DEF TypeOK
<1>9. ASSUME NEW h \in Hooks, RunEffect(h) PROVE TypeOK'
  <2>1. hook'[h] \in HookStates /\ hook' = [hook EXCEPT ![h] = hook'[h]]
    BY <1>9, RunFacts DEF TypeOK
  <2>2. hook' \in [Hooks -> HookStates]
    BY <2>1 DEF TypeOK
  <2> QED BY <1>9, <2>2 DEF RunEffect, TypeOK, shell
<1>10. ASSUME NEW h \in Hooks, Respond(h) PROVE TypeOK'
  <2>1. hook' \in [Hooks -> HookStates]
    BY <1>10, RespondFacts DEF TypeOK
  <2> QED BY <1>10, <2>1, RespondFacts DEF TypeOK, shell
<1>11. CASE UNCHANGED vars
  BY <1>11 DEF TypeOK, vars
<1> QED BY <1>1, <1>2, <1>3, <1>4, <1>5, <1>6, <1>7, <1>8, <1>9, <1>10, <1>11
        DEF Next, UserStep, LoadStep, HookStep

LEMMA TypeInit == Init => TypeOK
<1> SUFFICES ASSUME Init PROVE TypeOK
  OBVIOUS
<1>1. loads \in Seq(Loads)
  BY DEF Init, Loads
<1>2. hook \in [Hooks -> HookStates]
  BY FreshType DEF Init
<1>3. live \subseteq Keys /\ NoTenant \in Companies
  BY DEF Init, Companies
<1>4. acts \in 0 .. MaxActs
  BY BoundsAssumption DEF Init
<1>5. stored \in Keys /\ page \in Pages /\ keyClient = NoTenant /\ client \in Companies
      /\ listed = FALSE /\ firstPending = TRUE /\ orderly = TRUE
  BY DEF Init
<1> QED BY <1>1, <1>2, <1>3, <1>4, <1>5 DEF TypeOK

\* The state of the provider and of every hook has its type, for any number of
\* companies, keys and loads under way.
THEOREM TypeCorrect == Spec => []TypeOK
<1> QED BY TypeInit, TypeStep, PTL DEF Spec

-----------------------------------------------------------------------------
(* What the hooks that clear their rows hold for a guest.                  *)

Clearing == Hooks \ {"units", "selected", "plain"}

Empty(h) == hook[h].shown = NoTenant /\ hook[h].request = NoRequest

\* Before the provider's first answer nobody is signed in, and no hook of
\* these has asked for anything: that is why a run that keeps its rows while
\* the first load is pending has none to keep.
PendingIsEmpty == firstPending => keyClient = NoTenant /\ \A h \in Clearing : Empty(h)

\* A hook whose last run saw a guest asks for nothing, so no answer is on its
\* way to it, and it holds no rows.
GuestRunIsEmpty == \A h \in Clearing : \A d \in Deps :
  hook[h].seen = d /\ d.company = NoTenant => Empty(h)

GuestInv == TypeOK /\ PendingIsEmpty /\ GuestRunIsEmpty

LEMMA GuestInit == Init => GuestInv
<1> SUFFICES ASSUME Init PROVE GuestInv
  OBVIOUS
<1>1. \A h \in Hooks : Empty(h)
  BY DEF Init, Empty, Fresh
<1> QED BY <1>1, TypeInit DEF Init, GuestInv, PendingIsEmpty, GuestRunIsEmpty, Clearing

\* A guest's run leaves a hook empty that is empty or does not wait.
LEMMA GuestRun ==
  ASSUME GuestInv, NEW h \in Clearing, RunEffect(h), keyClient = NoTenant
  PROVE  RunOf(h).shown = NoTenant /\ RunOf(h).request = NoRequest
<1>1. TypeOK /\ h \in Hooks
  BY DEF GuestInv, Clearing
<1>2. RunOf(h) = Outcome(h, Use(h).onSkip)
  BY <1>1 DEF RunOf, Use, useWorkSystem, useCensus, useEvidenceClaims, usePlanVerify,
              usePlanOutcome, IsGuest, Clearing, Hooks
<1>3. Use(h).onSkip \in {"blank", "clear"} \/ (Use(h).onSkip = "wait" /\ firstPending)
  BY <1>1 DEF Use, useWorkSystem, useCensus, useEvidenceClaims, usePlanVerify,
              usePlanOutcome, Clearing, Hooks
<1>4. Outcome(h, Use(h).onSkip).request = NoRequest
      /\ (Use(h).onSkip \in {"blank", "clear"} => Outcome(h, Use(h).onSkip).shown = NoTenant)
      /\ Outcome(h, Use(h).onSkip).shown \in {hook[h].shown, NoTenant}
  BY <1>1, UseType, OutcomeFacts
<1>5. firstPending => hook[h].shown = NoTenant
  BY DEF GuestInv, PendingIsEmpty, Empty
<1> QED BY <1>2, <1>3, <1>4, <1>5

LEMMA GuestStep == GuestInv /\ [Next]_vars => GuestInv'
<1> SUFFICES ASSUME GuestInv, [Next]_vars PROVE GuestInv'
  OBVIOUS
<1>0. TypeOK /\ TypeOK' /\ Clearing \subseteq Hooks
  BY TypeStep DEF GuestInv, Clearing
<1>1. ASSUME hook' = hook, UNCHANGED <<keyClient, firstPending>> \/ firstPending' = FALSE
      PROVE  GuestInv'
  BY <1>0, <1>1 DEF GuestInv, PendingIsEmpty, GuestRunIsEmpty, Empty
<1>2. ASSUME NEW p \in Pages, Navigate(p) PROVE GuestInv'
  <2>1. \A h \in Hooks : Empty(h)'
    BY <1>2 DEF Navigate, Empty, Fresh
  <2>2. keyClient' = keyClient /\ firstPending' = firstPending
    BY <1>2 DEF Navigate, shell
  <2> QED BY <1>0, <2>1, <2>2 DEF GuestInv, PendingIsEmpty, GuestRunIsEmpty
<1>3. ASSUME NEW h \in Hooks, NEW k \in Keys, SaveFromBanner(h, k) PROVE GuestInv'
  <2>1. \A g \in Hooks : hook'[g].seen = hook[g].seen /\ Empty(g)' = Empty(g)
    BY <1>0, <1>3, BannerFacts DEF Empty
  <2>2. keyClient' = keyClient /\ firstPending' = firstPending
    BY <1>3 DEF SaveFromBanner
  <2> QED BY <1>0, <2>1, <2>2 DEF GuestInv, PendingIsEmpty, GuestRunIsEmpty
<1>4. ASSUME NEW h \in Hooks, RunEffect(h) PROVE GuestInv'
  <2>1. /\ hook'[h].seen = DepsOf(h) /\ hook'[h].request = RunOf(h).request
        /\ hook'[h].shown = RunOf(h).shown
        /\ \A g \in Hooks \ {h} : hook'[g] = hook[g]
    BY <1>0, <1>4, RunFacts DEF TypeOK
  <2>2. keyClient' = keyClient /\ firstPending' = firstPending
    BY <1>4 DEF RunEffect, shell
  <2>3. h \in Clearing => DepsOf(h).company = keyClient
    BY DEF DepsOf, CompanyOf, Clearing, Hooks
  <2>4. h \in Clearing /\ keyClient = NoTenant => Empty(h)'
    BY <1>4, <2>1, GuestRun DEF Empty
  <2>5. \A g \in Hooks \ {h} : Empty(g)' = Empty(g)
    BY <2>1 DEF Empty
  <2>6. PendingIsEmpty'
    BY <1>0, <2>2, <2>4, <2>5 DEF GuestInv, PendingIsEmpty
  <2>7. GuestRunIsEmpty'
    BY <1>0, <2>1, <2>2, <2>3, <2>4, <2>5 DEF GuestInv, GuestRunIsEmpty
  <2> QED BY <1>0, <2>6, <2>7 DEF GuestInv
<1>5. ASSUME NEW h \in Hooks, Respond(h) PROVE GuestInv'
  <2>1. /\ hook'[h].seen = hook[h].seen /\ hook[h].request.on
        /\ \A g \in Hooks \ {h} : hook'[g] = hook[g]
    BY <1>0, <1>5, RespondFacts DEF TypeOK
  <2>2. keyClient' = keyClient /\ firstPending' = firstPending
    BY <1>0, <1>5, RespondFacts DEF shell
  <2>3. ~Empty(h)
    BY <2>1 DEF Empty, NoRequest
  <2>5. \A g \in Hooks \ {h} : Empty(g)' = Empty(g)
    BY <2>1 DEF Empty
  <2>6. PendingIsEmpty'
    BY <1>0, <2>2, <2>3, <2>5 DEF GuestInv, PendingIsEmpty
  <2>7. GuestRunIsEmpty'
    BY <1>0, <2>1, <2>3, <2>5 DEF GuestInv, GuestRunIsEmpty
  <2> QED BY <1>0, <2>6, <2>7 DEF GuestInv
<1>6. CASE UserStep
  BY <1>1, <1>2, <1>3, <1>6 DEF UserStep, PasteKey, RetireKey, NewCompany, SelectCompany
<1>7. CASE LoadStep
  BY <1>1, <1>7 DEF LoadStep, FailLoad, SettleLoad
<1>8. CASE UNCHANGED vars
  BY <1>1, <1>8 DEF vars
<1> QED BY <1>4, <1>5, <1>6, <1>7, <1>8 DEF Next, HookStep

\* No late answer brings a company's rows back to a page that has seen its
\* visitor is a guest, whatever keys were pasted, retired or refused before.
THEOREM GuestSeesNothingAlways == Spec => []GuestSeesNothing
<1>1. GuestInv => GuestSeesNothing
  <2> SUFFICES ASSUME GuestInv, NEW h \in page \ {"units", "selected", "plain"},
                      IsGuest /\ ~EffectDue(h)
               PROVE  hook[h].shown = NoTenant
    BY DEF GuestSeesNothing
  <2>1. h \in Clearing /\ h \in Hooks /\ TypeOK
    BY PagesAssumption DEF GuestInv, TypeOK, Clearing
  <2>2. DepsOf(h) \in Deps /\ hook[h].seen = DepsOf(h)
    BY <2>1, DepsType DEF EffectDue
  <2>3. DepsOf(h).company = NoTenant
    BY <2>1 DEF DepsOf, CompanyOf, IsGuest, Clearing
  <2> QED BY <2>1, <2>2, <2>3 DEF GuestInv, GuestRunIsEmpty, Empty
<1> QED BY <1>1, GuestInit, GuestStep, PTL DEF Spec

-----------------------------------------------------------------------------
(* What the hook of the selected company holds.                            *)

\* While no company is selected its hook has asked for nothing.
UnselectedIsEmpty == CompanyOf("selected") = NoTenant => Empty("selected")

\* Its request is about the company its last run saw, it is loading until the
\* answer, and without an error it holds that company's rows or none.
SelectedRun == \A d \in Deps : hook["selected"].seen = d =>
  /\ hook["selected"].request # NoRequest =>
       /\ hook["selected"].loading = TRUE
       /\ hook["selected"].request.company = d.company
  /\ hook["selected"].loading = FALSE /\ hook["selected"].error = FALSE =>
       hook["selected"].shown \in {NoTenant, d.company}

SelectedInv == TypeOK /\ UnselectedIsEmpty /\ SelectedRun

LEMMA SelectedInit == Init => SelectedInv
<1> SUFFICES ASSUME Init PROVE SelectedInv
  OBVIOUS
<1>1. Empty("selected")
  BY DEF Init, Empty, Fresh, Hooks
<1> QED BY <1>1, TypeInit DEF SelectedInv, UnselectedIsEmpty, SelectedRun, Empty

\* A run of the selected page's effect: it asks about the company it saw, or
\* there is none and it stays empty.
LEMMA SelectedRunStep ==
  ASSUME SelectedInv, RunEffect("selected")
  PROVE  UnselectedIsEmpty' /\ SelectedRun'
<1> DEFINE h == "selected"
<1>0. TypeOK /\ h \in Hooks
  BY DEF SelectedInv, Hooks
<1>1. /\ hook'[h].seen = DepsOf(h) /\ hook'[h].request = RunOf(h).request
      /\ hook'[h].shown = RunOf(h).shown /\ hook'[h].loading = RunOf(h).loading
  BY <1>0, RunFacts
<1>2. Use(h) = useApi(CompanyOf(h)) /\ DepsOf(h).company = CompanyOf(h)
  BY DEF Use, DepsOf
<1>3. CompanyOf(h)' = CompanyOf(h)
  BY DEF RunEffect, shell, CompanyOf
<1>4. CASE CompanyOf(h) = NoTenant
  <2>0. Use(h).skips = TRUE /\ Use(h).onSkip = "stop"
    <3>1. Use(h).skips = (CompanyOf(h) = NoTenant)
      BY <1>2 DEF useApi
    <3>2. Use(h).onSkip = "stop"
      BY <1>2 DEF useApi
    <3> QED BY <1>4, <3>1, <3>2
  <2>1. RunOf(h) = Outcome(h, "stop") /\ "stop" \in Hows
    BY <2>0 DEF RunOf, Hows
  <2>2. RunOf(h).request = NoRequest /\ RunOf(h).shown = hook[h].shown
    BY <1>0, <2>1, OutcomeFacts
  <2>3. hook[h].shown = NoTenant
    BY <1>4 DEF SelectedInv, UnselectedIsEmpty, Empty
  <2>4. hook'[h].request = NoRequest /\ hook'[h].shown = NoTenant
    BY <1>1, <2>2, <2>3
  <2> QED BY <2>4 DEF UnselectedIsEmpty, SelectedRun, Empty
<1>5. CASE CompanyOf(h) # NoTenant
  <2>0. Use(h).skips = FALSE /\ Use(h).about = CompanyOf(h)
    <3>1. Use(h).skips = (CompanyOf(h) = NoTenant)
      BY <1>2 DEF useApi
    <3>2. Use(h).about = CompanyOf(h)
      BY <1>2 DEF useApi
    <3> QED BY <1>5, <3>1, <3>2
  <2>1. RunOf(h) = Asking(h)
    BY <2>0 DEF RunOf
  <2>2. hook'[h].loading = TRUE /\ hook'[h].request.company = CompanyOf(h)
    <3>1. /\ Asking(h).loading = TRUE
          /\ Asking(h).request = [on |-> TRUE, key |-> stored, company |-> Use(h).about, part |-> "page"]
      BY <1>0, AskingFacts
    <3> QED BY <1>1, <2>0, <2>1, <3>1
  <2>3. UnselectedIsEmpty'
    BY <1>3, <1>5 DEF UnselectedIsEmpty
  <2>4. SelectedRun'
    BY <1>1, <1>2, <2>2 DEF SelectedRun
  <2> QED BY <2>3, <2>4
<1> QED BY <1>4, <1>5

\* An answer for the selected page: only while it has a request, and with the
\* rows of the company the request was about, or an error.
LEMMA SelectedRespondStep ==
  ASSUME SelectedInv, Respond("selected")
  PROVE  UnselectedIsEmpty' /\ SelectedRun'
<1> DEFINE h == "selected"
<1>0. TypeOK /\ h \in Hooks /\ "stop" \in Hows /\ "error" \in Hows
  BY DEF SelectedInv, Hooks, Hows
<1>1. hook[h].request.on /\ hook'[h].seen = hook[h].seen
  BY <1>0, RespondFacts
<1>2. hook[h].request # NoRequest
  BY <1>1 DEF NoRequest
<1>3. CompanyOf(h) # NoTenant /\ CompanyOf(h)' = CompanyOf(h)
  <2>1. UNCHANGED shell
    BY <1>0, RespondFacts
  <2> QED BY <1>2, <2>1 DEF SelectedInv, UnselectedIsEmpty, Empty, CompanyOf, shell
<1>4. Use(h).onRefusal = "error" /\ Use(h).onFailure = "error"
  BY DEF Use, useApi
<1>5. \A d \in Deps : hook[h].seen = d => hook[h].request.company = d.company
  BY <1>2 DEF SelectedInv, SelectedRun
<1>6. CASE Answer(h)
  <2>1. hook'[h] = [Outcome(h, "stop") EXCEPT !.shown = Returned(h)]
    BY <1>0, <1>6 DEF Answer, TypeOK
  <2>2. Outcome(h, "stop") \in HookStates /\ Outcome(h, "stop").request = NoRequest
    BY <1>0, OutcomeFacts
  <2>3. hook'[h].request = NoRequest /\ hook'[h].shown = Returned(h)
    BY <2>1, <2>2 DEF HookStates
  <2>4. Returned(h) \in {NoTenant, hook[h].request.company}
    BY <1>0, <1>1, ReturnedType
  <2> QED BY <1>1, <1>3, <1>5, <2>3, <2>4 DEF UnselectedIsEmpty, SelectedRun
<1>7. CASE Refuse(h) \/ Fail(h)
  <2>1. hook'[h] = Outcome(h, "error")
    BY <1>0, <1>4, <1>7 DEF Refuse, Fail, TypeOK
  <2>2. hook'[h].request = NoRequest /\ hook'[h].error = TRUE
    BY <1>0, <2>1, OutcomeFacts
  <2> QED BY <1>3, <2>2 DEF UnselectedIsEmpty, SelectedRun
<1>8. ~AskPointers(h)
  BY DEF AskPointers
<1>9. CASE TakePointers(h)
  <2>1. PICK c \in {Returned(h), NoTenant} :
          hook' = [hook EXCEPT ![h] = [Outcome(h, "stop") EXCEPT !.shown = c]]
    BY <1>9 DEF TakePointers
  <2>2. Outcome(h, "stop") \in HookStates /\ Outcome(h, "stop").request = NoRequest
    BY <1>0, OutcomeFacts
  <2>3. hook'[h] = [Outcome(h, "stop") EXCEPT !.shown = c]
    BY <1>0, <2>1 DEF TypeOK
  <2>4. hook'[h].request = NoRequest /\ hook'[h].shown = c
    BY <2>2, <2>3 DEF HookStates
  <2>5. c \in {NoTenant, hook[h].request.company}
    BY <1>0, <1>1, <2>1, ReturnedType
  <2> QED BY <1>1, <1>3, <1>5, <2>4, <2>5 DEF UnselectedIsEmpty, SelectedRun
<1> QED BY <1>6, <1>7, <1>8, <1>9 DEF Respond

LEMMA SelectedStep == SelectedInv /\ [Next]_vars => SelectedInv'
<1> SUFFICES ASSUME SelectedInv, [Next]_vars PROVE SelectedInv'
  OBVIOUS
<1>0. TypeOK /\ TypeOK' /\ "selected" \in Hooks
  BY TypeStep DEF SelectedInv, Hooks
\* The switcher's company is set, never cleared.
<1>1. ASSUME \/ UNCHANGED <<client, listed>>
             \/ client' \in Tenants
      PROVE  CompanyOf("selected")' = NoTenant => CompanyOf("selected") = NoTenant
  <2>1. CASE UNCHANGED <<client, listed>>
    BY <2>1 DEF CompanyOf
  <2>2. CASE client' \in Tenants /\ (listed' = listed \/ listed' = TRUE)
    BY <2>2, NoTenantAssumption DEF CompanyOf
  <2>3. listed' = listed \/ listed' = TRUE
    BY DEF Next, UserStep, LoadStep, HookStep, PasteKey, RetireKey, NewCompany, SelectCompany,
           Navigate, SaveFromBanner, FailLoad, SettleLoad, RunEffect, Respond, Answer, Refuse,
           Fail, AskPointers, TakePointers, vars, shell
  <2> QED BY <1>1, <2>1, <2>2, <2>3
<1>2. ASSUME hook' = hook, UNCHANGED <<client, listed>> \/ client' \in Tenants PROVE SelectedInv'
  BY <1>0, <1>1, <1>2 DEF SelectedInv, UnselectedIsEmpty, SelectedRun, Empty
<1>3. ASSUME NEW p \in Pages, Navigate(p) PROVE SelectedInv'
  <2>1. Empty("selected")'
    BY <1>0, <1>3 DEF Navigate, Empty, Fresh
  <2> QED BY <1>0, <2>1 DEF SelectedInv, UnselectedIsEmpty, SelectedRun, Empty
<1>4. ASSUME NEW g \in Hooks, NEW k \in Keys, SaveFromBanner(g, k) PROVE SelectedInv'
  <2>1. /\ hook'["selected"].seen = hook["selected"].seen
        /\ hook'["selected"].request = hook["selected"].request
        /\ hook'["selected"].shown = hook["selected"].shown
        /\ hook'["selected"].loading = hook["selected"].loading
        /\ hook'["selected"].error = hook["selected"].error
    BY <1>0, <1>4, BannerFacts
  <2>2. UNCHANGED <<client, listed>>
    BY <1>4 DEF SaveFromBanner
  <2> QED BY <1>0, <1>1, <2>1, <2>2 DEF SelectedInv, UnselectedIsEmpty, SelectedRun, Empty
<1>5. ASSUME NEW g \in Hooks, RunEffect(g) \/ Respond(g) PROVE SelectedInv'
  <2>1. CASE g = "selected"
    BY <1>0, <1>5, <2>1, SelectedRunStep, SelectedRespondStep DEF SelectedInv
  <2>2. CASE g # "selected"
    <3>1. hook'["selected"] = hook["selected"]
      BY <1>0, <1>5, <2>2, RunFacts, RespondFacts DEF TypeOK
    <3>2. UNCHANGED <<client, listed>>
      BY <1>0, <1>5, RespondFacts DEF RunEffect, shell
    <3> QED BY <1>0, <1>1, <3>1, <3>2 DEF SelectedInv, UnselectedIsEmpty, SelectedRun, Empty
  <2> QED BY <2>1, <2>2
<1>6. CASE UserStep
  BY <1>2, <1>3, <1>4, <1>6 DEF UserStep, PasteKey, RetireKey, NewCompany, SelectCompany
<1>7. ASSUME NEW i \in 1 .. Len(loads), NEW o \in Companies, SettleLoad(i, o) PROVE SelectedInv'
  <2>1. client' \in Tenants /\ hook' = hook
    BY <1>0, <1>7, NextClientType DEF SettleLoad
  <2> QED BY <1>2, <2>1
<1>8. CASE LoadStep
  BY <1>2, <1>7, <1>8 DEF LoadStep, FailLoad
<1>9. CASE UNCHANGED vars
  BY <1>2, <1>9 DEF vars
<1> QED BY <1>5, <1>6, <1>8, <1>9 DEF Next, HookStep

\* The page of the selected company never shows another company's rows once its
\* effect has run, in whatever order companies were selected and answers came.
THEOREM SelectedOnlyAlways == Spec => []SelectedOnly
<1>1. SelectedInv => SelectedOnly
  <2> SUFFICES ASSUME SelectedInv, Shows("selected")
               PROVE  hook["selected"].shown \in {NoTenant, CompanyOf("selected")}
    BY DEF SelectedOnly
  <2>1. TypeOK /\ "selected" \in Hooks
    BY DEF SelectedInv, Hooks
  <2>2. DepsOf("selected") \in Deps /\ hook["selected"].seen = DepsOf("selected")
    BY <2>1, DepsType DEF Shows, EffectDue
  <2>3. hook["selected"].loading = FALSE /\ hook["selected"].error = FALSE
    <3>1. hook["selected"] \in HookStates
      BY <2>1 DEF TypeOK
    <3>2. hook["selected"].loading \in BOOLEAN /\ hook["selected"].error \in BOOLEAN
      BY <3>1 DEF HookStates
    <3> QED BY <3>2, Zenon DEF Shows
  <2>4. DepsOf("selected").company = CompanyOf("selected")
    BY DEF DepsOf
  <2> QED BY <2>2, <2>3, <2>4 DEF SelectedInv, SelectedRun
<1> QED BY <1>1, SelectedInit, SelectedStep, PTL DEF Spec
-----------------------------------------------------------------------------
(* What the hooks of the keyed company hold.                               *)

\* The newest load is for the stored key, and the last one to answer said
\* whose it is.
StoredIsNewest == /\ loads # <<>> => loads[Len(loads)].key = stored
                  /\ loads = <<>> => keyClient \in {NoTenant, Owner[stored]}

\* A load that is to answer yet was started with a key of this company.
Announced(c) == \E i \in 1 .. Len(loads) : Owner[loads[i].key] = c

\* Rows of company c on a page that is signed in as keyClient.
Due(c) == c \in {NoTenant, keyClient} \/ Announced(c)

\* A hook that ran for the company the tab is signed in as asks with a key of
\* that company, or of one whose load is about to sign the tab in anew; and so
\* with the rows it shows.
KeyedRun(h) ==
  h \in page /\ keyClient # NoTenant /\ (\E d \in Deps : hook[h].seen = d /\ d.company = keyClient)
    => /\ hook[h].request.on => Due(Owner[hook[h].request.key])
       /\ hook[h].loading = FALSE /\ hook[h].error = FALSE /\ hook[h].needsKey = FALSE
            => Due(hook[h].shown)

Keyed == Hooks \ {"selected"}

TurnInv == TypeOK /\ (orderly => StoredIsNewest /\ \A h \in Keyed : KeyedRun(h))

LEMMA StoredDue ==
  ASSUME TypeOK, StoredIsNewest, keyClient # NoTenant
  PROVE  Due(Owner[stored])
<1>1. CASE loads = <<>>
  BY <1>1 DEF StoredIsNewest, Due
<1>2. CASE loads # <<>>
  <2>1. Len(loads) \in 1 .. Len(loads)
    BY <1>2 DEF TypeOK
  <2> QED BY <1>2, <2>1 DEF StoredIsNewest, Due, Announced
<1> QED BY <1>1, <1>2

\* A load more keeps what is due.
LEMMA AppendDue ==
  ASSUME TypeOK, NEW l, loads' = Append(loads, l), keyClient' = keyClient, NEW c, Due(c)
  PROVE  Due(c)'
<1>1. CASE c \in {NoTenant, keyClient}
  BY <1>1 DEF Due
<1>2. CASE Announced(c)
  <2>1. PICK i \in 1 .. Len(loads) : Owner[loads[i].key] = c
    BY <1>2 DEF Announced
  <2>2. i \in 1 .. Len(loads') /\ loads'[i] = loads[i]
    BY <2>1 DEF TypeOK
  <2> QED BY <2>1, <2>2 DEF Due, Announced
<1> QED BY <1>1, <1>2 DEF Due

LEMMA AppendNewest ==
  ASSUME TypeOK, NEW f, loads' = Append(loads, [key |-> stored', follow |-> f])
  PROVE  StoredIsNewest'
<1>1. loads \in Seq(Loads)
  BY DEF TypeOK
<1>2. PICK l : l = [key |-> stored', follow |-> f]
  OBVIOUS
<1>3. loads' = Append(loads, l) /\ l.key = stored'
  BY <1>2
<1>4. loads' # <<>> /\ loads'[Len(loads')] = l
  BY <1>1, <1>3
<1> QED BY <1>3, <1>4 DEF StoredIsNewest

\* The oldest load answers: what was due stays due, its own company apart.
LEMMA FirstLoad ==
  ASSUME TypeOK, StoredIsNewest, 1 \in 1 .. Len(loads), loads' = RemoveAt(loads, 1), stored' = stored,
         keyClient' \in {Owner[loads[1].key], NoTenant}
  PROVE  /\ StoredIsNewest'
         /\ \A c : Announced(c) /\ c # Owner[loads[1].key] => Announced(c)'
<1>1. loads \in Seq(Loads)
  BY DEF TypeOK
<1>2. /\ Len(loads') = Len(loads) - 1
      /\ \A i \in 1 .. Len(loads') : loads'[i] = loads[i + 1]
  <2>1. loads' = SubSeq(loads, 1, 0) \o SubSeq(loads, 2, Len(loads))
    BY DEF RemoveAt
  <2>2. SubSeq(loads, 1, 0) = <<>>
    BY <1>1
  <2>3. loads' = SubSeq(loads, 2, Len(loads))
    BY <1>1, <2>1, <2>2
  <2> QED BY <1>1, <2>3
<1>3. StoredIsNewest'
  <2>1. CASE Len(loads) = 1
    <3>1. loads' = <<>>
      BY <1>1, <2>1 DEF RemoveAt
    <3>2. loads[1].key = stored
      BY <1>1, <2>1 DEF StoredIsNewest
    <3> QED BY <3>1, <3>2 DEF StoredIsNewest
  <2>2. CASE Len(loads) # 1
    <3>1. loads' # <<>> /\ loads # <<>> /\ loads'[Len(loads')] = loads[Len(loads)]
      BY <1>1, <1>2, <2>2
    <3> QED BY <3>1 DEF StoredIsNewest
  <2> QED BY <2>1, <2>2
<1>4. ASSUME NEW c, Announced(c), c # Owner[loads[1].key] PROVE Announced(c)'
  <2>1. PICK i \in 1 .. Len(loads) : Owner[loads[i].key] = c
    BY <1>4 DEF Announced
  <2>2. i - 1 \in 1 .. Len(loads') /\ loads'[i - 1] = loads[i]
    BY <1>1, <1>2, <1>4, <2>1
  <2> QED BY <2>1, <2>2 DEF Announced
<1> QED BY <1>3, <1>4

\* How the hooks are set up, signed in.
LEMMA UseSignedIn ==
  ASSUME NEW h \in Hooks
  PROVE  /\ {Use(h).onRefusal, Use(h).onFailure} \subseteq {"error", "needsKey", "none"}
         /\ h # "selected" /\ ~IsGuest /\ Use(h).skips
              => h \in {"verify", "outcome"} /\ Use(h).onSkip = "clear"
<1>1. CASE h = "workSystem"
  BY <1>1 DEF Use, useWorkSystem
<1>2. CASE h = "census"
  BY <1>2 DEF Use, useCensus
<1>3. CASE h = "claims"
  BY <1>3 DEF Use, useEvidenceClaims
<1>4. CASE h = "verify"
  BY <1>4 DEF Use, usePlanVerify
<1>5. CASE h = "outcome"
  BY <1>5 DEF Use, usePlanOutcome
<1>6. CASE h = "plain"
  <2>1. Use(h) = [useApi(NoTenant) EXCEPT !.skips = FALSE]
    BY <1>6 DEF Use
  <2>2. Use(h).skips = FALSE /\ Use(h).onRefusal = "error" /\ Use(h).onFailure = "error"
    BY <2>1 DEF useApi
  <2> QED BY <2>2
<1>7. CASE h \in {"units", "selected"}
  <2>1. Use(h) = useApi(CompanyOf(h))
    BY <1>7 DEF Use
  <2>2. Use(h).skips = (CompanyOf(h) = NoTenant) /\ Use(h).onRefusal = "error"
        /\ Use(h).onFailure = "error"
    BY <2>1 DEF useApi
  <2>3. h # "selected" /\ ~IsGuest => CompanyOf(h) # NoTenant
    BY DEF CompanyOf, IsGuest
  <2> QED BY <2>2, <2>3
<1> QED BY <1>1, <1>2, <1>3, <1>4, <1>5, <1>6, <1>7 DEF Hooks

\* What a hook that is signed in runs or is answered.
LEMMA KeyedRunOf ==
  ASSUME TypeOK, StoredIsNewest, keyClient # NoTenant, NEW h \in Keyed
  PROVE  /\ RunOf(h).request.on => Due(Owner[RunOf(h).request.key])
         /\ RunOf(h).loading = FALSE => Due(RunOf(h).shown)
<1>1. h \in Hooks /\ h # "selected" /\ ~IsGuest /\ CompanyOf(h) = keyClient
  BY DEF Keyed, IsGuest, CompanyOf
<1>2. CASE Use(h).skips
  <2>1. h \in {"verify", "outcome"} /\ Use(h).onSkip = "clear"
    BY <1>1, <1>2, UseSignedIn
  <2>2. RunOf(h) = Outcome(h, "clear") /\ "clear" \in Hows
    BY <1>2, <2>1 DEF RunOf, Hows
  <2>3. RunOf(h).request = NoRequest /\ RunOf(h).shown = NoTenant
    BY <1>1, <2>2, OutcomeFacts
  <2> QED BY <2>3 DEF NoRequest, Due
<1>3. CASE ~Use(h).skips
  <2>1. RunOf(h) = Asking(h)
    BY <1>3 DEF RunOf
  <2>2. /\ Asking(h).loading = TRUE
        /\ Asking(h).request = [on |-> TRUE, key |-> stored, company |-> Use(h).about, part |-> "page"]
    BY <1>1, AskingFacts
  <2>3. RunOf(h).request.key = stored /\ RunOf(h).loading = TRUE
    BY <2>1, <2>2
  <2> QED BY <2>3, StoredDue
<1> QED BY <1>2, <1>3

\* A keyed route returns rows of the key's company or none.
LEMMA ReturnedKeyed == \A h : Returned(h) \in {Owner[hook[h].request.key], NoTenant}
  BY DEF Returned

LEMMA OutcomeNeedsKey ==
  ASSUME TypeOK, NEW h \in Hooks
  PROVE  Outcome(h, "needsKey").needsKey = TRUE
<1> DEFINE idle == [hook[h] EXCEPT !.request = NoRequest]
<1>1. idle \in HookStates
  BY DEF TypeOK, HookStates, Requests
<1>2. Outcome(h, "needsKey") = [idle EXCEPT !.loading = FALSE, !.needsKey = TRUE]
  BY DEF Outcome
<1> HIDE DEF idle
<1> QED BY <1>1, <1>2 DEF HookStates

LEMMA KeyedRespond ==
  ASSUME TypeOK, StoredIsNewest, keyClient # NoTenant, NEW h \in Keyed, Respond(h),
         Due(Owner[hook[h].request.key]),
         hook[h].loading = FALSE /\ hook[h].error = FALSE /\ hook[h].needsKey = FALSE
            => Due(hook[h].shown)
  PROVE  /\ hook'[h].request.on => Due(Owner[hook'[h].request.key])
         /\ hook'[h].loading = FALSE /\ hook'[h].error = FALSE /\ hook'[h].needsKey = FALSE
              => Due(hook'[h].shown)
<1>0. h \in Hooks /\ h # "selected" /\ "stop" \in Hows /\ hook[h] \in HookStates
  BY DEF Keyed, Hows, TypeOK
<1>1. ASSUME NEW c \in {Owner[hook[h].request.key], NoTenant}, c \in Companies,
             hook'[h] = [Outcome(h, "stop") EXCEPT !.shown = c]
      PROVE  hook'[h].request = NoRequest /\ Due(hook'[h].shown)
  <2>1. Outcome(h, "stop") \in HookStates /\ Outcome(h, "stop").request = NoRequest
    BY <1>0, OutcomeFacts
  <2>2. hook'[h].request = NoRequest /\ hook'[h].shown = c
    BY <1>1, <2>1 DEF HookStates
  <2> QED BY <2>2 DEF Due
<1>2. CASE Answer(h)
  <2>1. hook'[h] = [Outcome(h, "stop") EXCEPT !.shown = Returned(h)]
    BY <1>0, <1>2 DEF Answer, TypeOK
  <2>2. Returned(h) \in Companies
    BY <1>0, <1>2, ReturnedType DEF Answer, Waits
  <2> QED BY <1>1, <2>1, <2>2, ReturnedKeyed DEF NoRequest
<1>3. CASE TakePointers(h)
  <2>1. PICK c \in {Returned(h), NoTenant} :
          hook' = [hook EXCEPT ![h] = [Outcome(h, "stop") EXCEPT !.shown = c]]
    BY <1>3 DEF TakePointers
  <2>2. hook'[h] = [Outcome(h, "stop") EXCEPT !.shown = c] /\ NoTenant \in Companies
    BY <1>0, <2>1 DEF TypeOK, Companies
  <2>3. Returned(h) \in Companies
    BY <1>0, <1>3, ReturnedType DEF TakePointers, Waits
  <2> QED BY <1>1, <2>1, <2>2, <2>3, ReturnedKeyed DEF NoRequest
<1>4. CASE AskPointers(h)
  <2>1. hook'[h] = [hook[h] EXCEPT !.request =
             [on |-> TRUE, key |-> stored, part |-> "pointers", company |-> Returned(h)]]
    BY <1>0, <1>4 DEF AskPointers, TypeOK
  <2>2. /\ hook'[h].request.key = stored /\ hook'[h].shown = hook[h].shown
        /\ hook'[h].loading = hook[h].loading /\ hook'[h].error = hook[h].error
        /\ hook'[h].needsKey = hook[h].needsKey
    BY <1>0, <2>1 DEF HookStates
  <2> QED BY <2>2, StoredDue
<1>5. CASE Refuse(h) \/ Fail(h)
  <2>1. PICK how \in {Use(h).onRefusal, Use(h).onFailure} : hook'[h] = Outcome(h, how)
    BY <1>0, <1>5 DEF Refuse, Fail, TypeOK
  <2>2. how \in {"error", "needsKey", "none"}
    BY <1>0, <2>1, UseSignedIn
  <2>3. how \in Hows
    BY <2>2 DEF Hows
  <2>4. hook'[h].request = NoRequest
        /\ (how = "none" => hook'[h].shown = NoTenant) /\ (how = "error" => hook'[h].error = TRUE)
    <3>1. /\ Outcome(h, how).request = NoRequest
          /\ how \in {"blank", "none", "clear"} => Outcome(h, how).shown = NoTenant
          /\ how = "error" => Outcome(h, how).error = TRUE
      BY <1>0, <2>3, OutcomeFacts
    <3> QED BY <2>1, <3>1
  <2>5. how = "needsKey" => hook'[h].needsKey = TRUE
    BY <1>0, <2>1, OutcomeNeedsKey
  <2> QED BY <2>2, <2>4, <2>5 DEF NoRequest, Due
<1> QED BY <1>2, <1>3, <1>4, <1>5 DEF Respond

LEMMA TurnInit == Init => TurnInv
<1> SUFFICES ASSUME Init PROVE TurnInv
  OBVIOUS
<1>1. TypeOK /\ keyClient = NoTenant
  BY TypeInit DEF Init
<1>2. StoredIsNewest
  BY DEF Init, StoredIsNewest
<1>3. \A h \in Keyed : KeyedRun(h)
  BY <1>1 DEF KeyedRun
<1> QED BY <1>1, <1>2, <1>3 DEF TurnInv

\* A step that leaves a hook alone, and that keeps what is due, keeps its run.
LEMMA SameRun ==
  ASSUME NEW h \in Keyed, KeyedRun(h), keyClient' = keyClient, h \in page' => h \in page,
         hook'[h].seen = hook[h].seen, hook'[h].request = hook[h].request,
         hook'[h].shown = hook[h].shown, hook'[h].loading = hook[h].loading,
         hook'[h].error = hook[h].error, hook'[h].needsKey = hook[h].needsKey,
         \A c : Due(c) => Due(c)'
  PROVE  KeyedRun(h)'
  BY DEF KeyedRun

LEMMA SameDue ==
  ASSUME loads' = loads, keyClient' = keyClient
  PROVE  \A c : Due(c) => Due(c)'
  BY DEF Due, Announced

LEMMA TurnStep == TurnInv /\ [Next]_vars => TurnInv'
<1> SUFFICES ASSUME TurnInv, [Next]_vars, orderly'
             PROVE  StoredIsNewest' /\ \A h \in Keyed : KeyedRun(h)'
  BY TypeStep DEF TurnInv
<1>0. TypeOK /\ TypeOK' /\ Keyed \subseteq Hooks
  BY TypeStep DEF TurnInv, Keyed
\* Steps of the user.
<1>1. ASSUME orderly, hook' = hook, page' = page, keyClient' = keyClient,
             \/ loads' = loads /\ stored' = stored
             \/ \E f : loads' = Append(loads, [key |-> stored', follow |-> f])
      PROVE  StoredIsNewest' /\ \A h \in Keyed : KeyedRun(h)'
  <2>1. StoredIsNewest'
    <3>1. CASE loads' = loads /\ stored' = stored
      BY <1>1, <3>1 DEF TurnInv, StoredIsNewest
    <3>2. CASE \E f : loads' = Append(loads, [key |-> stored', follow |-> f])
      BY <1>0, <3>2, AppendNewest
    <3> QED BY <1>1, <3>1, <3>2
  <2>2. \A c : Due(c) => Due(c)'
    BY <1>0, <1>1, AppendDue, SameDue
  <2> QED BY <1>1, <2>1, <2>2, SameRun DEF TurnInv
<1>2. ASSUME NEW p \in Pages, Navigate(p)
      PROVE  StoredIsNewest' /\ \A h \in Keyed : KeyedRun(h)'
  <2>1. orderly /\ StoredIsNewest'
    BY <1>2 DEF Navigate, shell, TurnInv, StoredIsNewest
  <2>2. \A h \in Keyed : hook'[h].seen = NeverRan
    BY <1>0, <1>2 DEF Navigate, Fresh
  <2>3. NeverRan \notin Deps
    BY DEF NeverRan, Deps
  <2> QED BY <2>1, <2>2, <2>3 DEF KeyedRun
<1>3. ASSUME NEW h \in Hooks, NEW k \in Keys, SaveFromBanner(h, k)
      PROVE  FALSE
  BY <1>3 DEF SaveFromBanner
\* A load that answers in turn.
<1>4. ASSUME NEW i \in 1 .. Len(loads), NEW o \in Companies, SettleLoad(i, o)
      PROVE  StoredIsNewest' /\ \A h \in Keyed : KeyedRun(h)'
  <2>1. orderly /\ i = 1 /\ (\A h \in Hooks : ~EffectDue(h)) /\ keyClient' = o
        /\ o \in {Resolves(loads[1].key), NoTenant} /\ loads' = RemoveAt(loads, 1)
        /\ UNCHANGED <<stored, page, hook>>
    BY <1>4 DEF SettleLoad
  <2>2. keyClient' \in {Owner[loads[1].key], NoTenant}
    BY <2>1 DEF Resolves
  <2>3. StoredIsNewest' /\ \A c : Announced(c) /\ c # Owner[loads[1].key] => Announced(c)'
    BY <1>0, <1>4, <2>1, <2>2, FirstLoad DEF TurnInv
  <2>4. ASSUME NEW h \in Keyed PROVE KeyedRun(h)'
    <3> SUFFICES ASSUME h \in page, keyClient' # NoTenant, NEW d \in Deps, hook[h].seen = d,
                        d.company = keyClient'
                 PROVE  KeyedRun(h)'
      BY <2>1 DEF KeyedRun
    <3>1. hook[h].seen = DepsOf(h)
      BY <1>0, <2>1 DEF EffectDue
    <3>2. DepsOf(h).company = keyClient
      BY DEF DepsOf, CompanyOf, Keyed
    <3>3. keyClient' = keyClient /\ keyClient = Owner[loads[1].key]
      BY <2>1, <2>2, <3>1, <3>2
    <3>4. \A c : Due(c) => Due(c)'
      BY <2>3, <3>3 DEF Due
    <3> QED BY <2>1, <3>3, <3>4, SameRun DEF TurnInv
  <2> QED BY <2>3, <2>4
\* Steps of the hooks.
<1>5. ASSUME NEW g \in Hooks, RunEffect(g) \/ Respond(g)
      PROVE  StoredIsNewest' /\ \A h \in Keyed : KeyedRun(h)'
  <2>1. UNCHANGED <<shell, page>> /\ \A h \in Hooks \ {g} : hook'[h] = hook[h]
    BY <1>0, <1>5, RunFacts, RespondFacts DEF RunEffect, TypeOK
  <2>2. orderly /\ StoredIsNewest /\ StoredIsNewest' /\ \A c : Due(c) => Due(c)'
    BY <2>1, SameDue DEF shell, TurnInv, StoredIsNewest
  <2>3. \A h \in Keyed \ {g} : KeyedRun(h)'
    BY <1>0, <2>1, <2>2, SameRun DEF TurnInv, shell
  <2>4. g \in Keyed => KeyedRun(g)'
    <3> SUFFICES ASSUME g \in Keyed, g \in page, keyClient # NoTenant, NEW d \in Deps,
                        hook'[g].seen = d, d.company = keyClient
                 PROVE  /\ hook'[g].request.on => Due(Owner[hook'[g].request.key])
                        /\ hook'[g].loading = FALSE /\ hook'[g].error = FALSE
                           /\ hook'[g].needsKey = FALSE => Due(hook'[g].shown)
      BY <2>1, <2>2 DEF KeyedRun, shell
    <3>1. CASE RunEffect(g)
      BY <1>0, <2>2, <3>1, RunFacts, KeyedRunOf
    <3>2. CASE Respond(g)
      <4>1. hook[g].request.on /\ hook'[g].seen = hook[g].seen
        BY <1>0, <3>2, RespondFacts
      <4>2. KeyedRun(g)
        BY <2>2 DEF TurnInv
      <4> QED BY <1>0, <2>2, <3>2, <4>1, <4>2, KeyedRespond DEF KeyedRun
    <3> QED BY <1>5, <3>1, <3>2
  <2> QED BY <2>2, <2>3, <2>4
<1>6. CASE UserStep
  BY <1>1, <1>2, <1>3, <1>6 DEF UserStep, PasteKey, RetireKey, NewCompany, SelectCompany, StartLoad
<1>7. CASE LoadStep
  BY <1>4, <1>7 DEF LoadStep, FailLoad
<1>8. CASE UNCHANGED vars
  BY <1>1, <1>8 DEF vars
<1> QED BY <1>5, <1>6, <1>7, <1>8 DEF Next, HookStep

\* "One refetch, after the tenant is actually known": for any number of
\* companies, keys, pages and loads, as long as the provider's loads answer in
\* turn and no refusal was dismissed through the key banner, a tab at rest that
\* is signed in as the company of its stored key shows no other company's rows.
THEOREM ShownIsKeyedInTurnAlways == Spec => []ShownIsKeyedInTurn
<1>1. TurnInv => ShownIsKeyedInTurn
  <2> SUFFICES ASSUME TurnInv, orderly, Quiet, ~IsGuest, NEW h \in page \ {"selected"}, Shows(h)
               PROVE  hook[h].shown \in {NoTenant, keyClient}
    BY DEF ShownIsKeyedInTurn, ShownIsKeyed
  <2>1. TypeOK /\ h \in Hooks /\ h \in Keyed /\ KeyedRun(h) /\ keyClient # NoTenant /\ loads = <<>>
    BY PagesAssumption DEF TurnInv, TypeOK, Keyed, Quiet, IsGuest
  <2>2. DepsOf(h) \in Deps /\ hook[h].seen = DepsOf(h) /\ DepsOf(h).company = keyClient
    BY <2>1, DepsType DEF Shows, EffectDue, DepsOf, CompanyOf
  <2>3. hook[h].loading = FALSE /\ hook[h].error = FALSE /\ hook[h].needsKey = FALSE
    <3>1. hook[h] \in HookStates
      BY <2>1 DEF TypeOK
    <3>2. hook[h].loading \in BOOLEAN /\ hook[h].error \in BOOLEAN /\ hook[h].needsKey \in BOOLEAN
      BY <3>1 DEF HookStates
    <3> QED BY <3>2, Zenon DEF Shows
  <2>4. Due(hook[h].shown)
    BY <2>1, <2>2, <2>3 DEF KeyedRun
  <2>5. ~Announced(hook[h].shown)
    BY <2>1 DEF Announced
  <2> QED BY <2>4, <2>5 DEF Due
<1> QED BY <1>1, TurnInit, TurnStep, PTL DEF Spec
=============================================================================

---------------------------- MODULE TenantSession ----------------------------
(***************************************************************************)
(* The browser's side of a tenant: company.tsx resolves the stored API key *)
(* to a company, and the data hooks of the pages (hooks.ts, lib/censuses,  *)
(* lib/workSystem, lib/pointers, lib/planVerify) fetch again when that     *)
(* company changes.                                                        *)
(*                                                                         *)
(* The key lives in localStorage and is read when a request is sent; the   *)
(* company it resolves to is React state and is known only once whoami has *)
(* answered.  Between the two a request may carry one company's key on     *)
(* behalf of another.  Several resolutions may be under way, and they may  *)
(* answer in any order.                                                    *)
(***************************************************************************)
EXTENDS Naturals, Sequences, SequencesExt

CONSTANTS Tenants,        \* companies
          Keys,           \* org API keys
          NoTenant,       \* JavaScript's null for a company
          Owner,          \* the company each key was minted for, NoTenant if never minted
          Pages,          \* the routes, each as the set of hooks it mounts
          MaxActs,        \* bound: user actions and retired keys
          MaxLoads        \* bound: company loads under way at once

Hooks == {"units", "verify", "workSystem", "outcome", "census", "claims", "selected", "plain"}

ASSUME NoTenantAssumption == NoTenant \notin Tenants
ASSUME OwnerAssumption == Owner \in [Keys -> Tenants \cup {NoTenant}]
ASSUME PagesAssumption == Pages \subseteq SUBSET Hooks
ASSUME BoundsAssumption == MaxActs \in Nat /\ MaxLoads \in Nat

Companies == Tenants \cup {NoTenant}

VARIABLES stored,       \* localStorage: the key
          live,         \* backend: the keys require_org_api_key accepts
          loads,        \* the provider's loads under way, oldest first
          keyClient,    \* keyClientId
          client,       \* clientId, the company selected in the switcher
          listed,       \* whether the list of companies has arrived
          firstPending, \* firstLoadPending
          orderly,      \* history: no load failed or answered out of turn, no banner closed
          page,         \* the hooks mounted now
          hook,         \* the state of each hook
          acts          \* user actions and retired keys so far

vars == <<stored, live, loads, keyClient, client, listed, firstPending, orderly, page, hook, acts>>

\* The key and what the provider makes of it.
shell == <<stored, live, loads, keyClient, client, listed, firstPending, orderly>>

Loads == [key : Keys, follow : BOOLEAN]

\* What an effect depends on; a run of it closes over these values.
Deps == [company : Companies, source : Companies, pending : BOOLEAN]

NeverRan == [ran |-> FALSE]

NoRequest == [on |-> FALSE]

Requests == [on : {TRUE}, key : Keys, company : Companies, part : {"page", "pointers"}]
              \cup {NoRequest}

\* shown: whose data the hook holds, NoTenant for none or an empty page.
HookStates == [seen : Deps \cup {NeverRan}, request : Requests, shown : Companies,
               loading : BOOLEAN, error : BOOLEAN, needsKey : BOOLEAN]

\* useApi, useEvidenceClaims start with loading set, the others without.
Fresh(h) == [seen |-> NeverRan, request |-> NoRequest, shown |-> NoTenant,
             loading |-> h \in {"units", "claims", "selected", "plain"},
             error |-> FALSE, needsKey |-> FALSE]

Resolves(k) == IF k \in live THEN Owner[k] ELSE NoTenant

Init == /\ stored \in Keys
        /\ live = {k \in Keys : Owner[k] # NoTenant}
        /\ loads = <<[key |-> stored, follow |-> FALSE]>>
        /\ keyClient = NoTenant
        /\ client \in Companies
        /\ listed = FALSE
        /\ firstPending = TRUE
        /\ orderly = TRUE
        /\ page \in Pages
        /\ hook = [h \in Hooks |-> Fresh(h)]
        /\ acts = 0

-----------------------------------------------------------------------------
(* What the hooks depend on.                                               *)

\* The hook whose rows a dependent hook asks about.
SourceOf(h) == CASE h = "verify" -> hook["units"].shown
                 [] h = "outcome" -> hook["workSystem"].shown
                 [] OTHER -> NoTenant

\* The company in the hook's path or dependency list.
CompanyOf(h) == IF h # "selected" THEN keyClient
                ELSE IF listed THEN client ELSE NoTenant

\* Mutant: only the selected page's effect is keyed on the company.
DepsOfMount(h) == [company |-> IF h = "selected" THEN CompanyOf(h) ELSE NoTenant,
                   source  |-> IF h = "selected" THEN keyClient ELSE SourceOf(h),
                   pending |-> h = "claims" /\ firstPending]

\* The selected page's useApi also fetches again when keyClientId changes,
\* so what it sees includes both.
DepsOf(h) == [company |-> CompanyOf(h),
              source  |-> IF h = "selected" THEN keyClient ELSE SourceOf(h),
              pending |-> h = "claims" /\ firstPending]

EffectDue(h) == h \in page /\ hook[h].seen # DepsOf(h)

-----------------------------------------------------------------------------
(* The provider.                                                           *)

\* useIsGuest: no key, or none that resolves.
IsGuest == keyClient = NoTenant

MayAct == acts < MaxActs /\ acts' = acts + 1

StartLoad(k, follow) == /\ Len(loads) < MaxLoads
                        /\ loads' = Append(loads, [key |-> k, follow |-> follow])

\* setSpecKey from OrgKeyControl or the demo's tenant buttons: the event it
\* fires starts a load that moves the view to the key's company.
PasteKey(k) == /\ MayAct
               /\ stored' = k
               /\ StartLoad(k, TRUE)
               /\ UNCHANGED <<live, keyClient, client, listed, firstPending, orderly, page, hook>>

\* AppShell's "New company": reload() and setClientId.
NewCompany(c) == /\ MayAct
                 /\ StartLoad(stored, FALSE)
                 /\ client' = c
                 /\ UNCHANGED <<stored, live, keyClient, listed, firstPending, orderly, page, hook>>

SelectCompany(c) == /\ MayAct
                    /\ listed
                    /\ client' = c
                    /\ UNCHANGED <<stored, live, loads, keyClient, listed, firstPending, orderly, page, hook>>

\* load's functional update of clientId, once both answers are there.
NextClient(owned, follow) ==
  IF follow /\ owned # NoTenant THEN {owned}
  ELSE IF client # NoTenant THEN {client}
  ELSE IF owned # NoTenant THEN {owned}
  ELSE Tenants

\* Promise.all of /clients/ and whoami; a whoami that fails counts as no company.
\* It is out of turn if an older load is still under way, or if React renders
\* it together with the answer before it, whose effects then never ran.
SettleLoad(i, owned) == /\ orderly' = (orderly /\ i = 1 /\ \A h \in Hooks : ~EffectDue(h))
                        /\ owned \in {Resolves(loads[i].key), NoTenant}
                        /\ keyClient' = owned
                        /\ client' \in NextClient(owned, loads[i].follow)
                        /\ listed' = TRUE
                        /\ firstPending' = FALSE
                        /\ loads' = RemoveAt(loads, i)
                        /\ UNCHANGED <<stored, live, page, hook, acts>>

\* /clients/ failed: everything stays as it was, and nothing asks again.
FailLoad(i) == /\ orderly' = FALSE
               /\ firstPending' = FALSE
               /\ loads' = RemoveAt(loads, i)
               /\ UNCHANGED <<stored, live, keyClient, client, listed, page, hook, acts>>

\* A rotated key leaves its grace window, or another visitor's "Issue fresh
\* keys" retires it: from then on it answers 401.
RetireKey(k) == /\ MayAct
                /\ k \in live
                /\ live' = live \ {k}
                /\ UNCHANGED <<stored, loads, keyClient, client, listed, firstPending, orderly, page, hook>>

-----------------------------------------------------------------------------
(* The hooks.                                                              *)

\* One record per hook: when its effect returns early and what that resets,
\* the company it asks about, and what a refused or failed request leaves.
useApi(c) == [skips |-> c = NoTenant, onSkip |-> "stop", about |-> c,
              onRefusal |-> "error", onFailure |-> "error"]

useWorkSystem == [skips |-> IsGuest, onSkip |-> "blank", about |-> keyClient,
                  onRefusal |-> "needsKey", onFailure |-> "error"]

\* Mutants: what the early return leaves behind.
useCensusKeepsRows == [skips |-> IsGuest, onSkip |-> "stop", about |-> keyClient,
                       onRefusal |-> "needsKey", onFailure |-> "error"]
useCensusKeepsWaiting == [skips |-> IsGuest, onSkip |-> "blank", about |-> keyClient,
                          onRefusal |-> "needsKey", onFailure |-> "error"]

useCensus == [skips |-> IsGuest, onSkip |-> "clear", about |-> keyClient,
              onRefusal |-> "needsKey", onFailure |-> "error"]

useEvidenceClaims == [skips |-> IsGuest,
                      onSkip |-> IF firstPending THEN "wait" ELSE "clear",
                      about |-> keyClient, onRefusal |-> "needsKey", onFailure |-> "error"]

usePlanVerify == [skips |-> IsGuest \/ SourceOf("verify") = NoTenant, onSkip |-> "clear",
                  about |-> SourceOf("verify"), onRefusal |-> "needsKey", onFailure |-> "none"]

usePlanOutcome == [skips |-> IsGuest \/ SourceOf("outcome") = NoTenant, onSkip |-> "clear",
                   about |-> SourceOf("outcome"), onRefusal |-> "needsKey", onFailure |-> "none"]

Use(h) == CASE h = "workSystem" -> useWorkSystem
            [] h = "census" -> useCensus
            [] h = "claims" -> useEvidenceClaims
            [] h = "verify" -> usePlanVerify
            [] h = "outcome" -> usePlanOutcome
            [] h = "plain" -> [useApi(NoTenant) EXCEPT !.skips = FALSE]
            [] OTHER -> useApi(CompanyOf(h))

\* What becomes of a hook's state, request or answer dropped.
Outcome(h, how) ==
  LET idle == [hook[h] EXCEPT !.request = NoRequest] IN
  CASE how = "wait" -> [idle EXCEPT !.loading = TRUE]
    [] how = "stop" -> [idle EXCEPT !.loading = FALSE]
    [] how = "blank" -> [idle EXCEPT !.shown = NoTenant]
    [] how = "none" -> [idle EXCEPT !.shown = NoTenant, !.loading = FALSE]
    [] how = "clear" -> [idle EXCEPT !.shown = NoTenant, !.loading = FALSE,
                                     !.error = FALSE, !.needsKey = FALSE]
    [] how = "error" -> [idle EXCEPT !.loading = FALSE, !.error = TRUE]
    [] how = "needsKey" -> [idle EXCEPT !.loading = FALSE, !.needsKey = TRUE]

\* Mutant: the request carries no key.
AskingWithoutKey(h) == [hook[h] EXCEPT !.loading = TRUE, !.error = FALSE,
                                       !.request = [on |-> TRUE, key |-> NoTenant,
                                                    company |-> Use(h).about, part |-> "page"]]

Asking(h) == [hook[h] EXCEPT !.loading = TRUE, !.error = FALSE,
                             !.request = [on |-> TRUE, key |-> stored,
                                          company |-> Use(h).about, part |-> "page"]]

\* React runs a due effect after the render.  Its cleanup cancels the run
\* before it, whose answer is then ignored.
RunEffect(h) ==
  /\ EffectDue(h)
  /\ hook' = [hook EXCEPT ![h] =
       [(IF Use(h).skips THEN Outcome(h, Use(h).onSkip) ELSE Asking(h)) EXCEPT !.seen = DepsOf(h)]]
  /\ UNCHANGED <<shell, page, acts>>

Waits(h, part) == hook[h].request.on /\ hook[h].request.part = part

Accepted(h) == hook[h].request.key \in live

\* Mutant: client_id does not filter.
ReturnedUnfiltered(h) == Owner[hook[h].request.key]

\* Whose rows a keyed route returns: row security gives the key's company,
\* and a client_id or a unit of another company leaves nothing.
Returned(h) == LET r == hook[h].request IN
  IF h \in {"plain", "workSystem", "census"} \/ r.company = Owner[r.key]
    THEN Owner[r.key] ELSE NoTenant

Answer(h) == /\ h # "claims"
             /\ Waits(h, "page")
             /\ Accepted(h)
             /\ hook' = [hook EXCEPT ![h] = [Outcome(h, "stop") EXCEPT !.shown = Returned(h)]]
             /\ UNCHANGED <<shell, page, acts>>

\* withKey: a key the backend does not accept.
Refuse(h) == /\ Waits(h, "page")
             /\ ~Accepted(h)
             /\ hook' = [hook EXCEPT ![h] = Outcome(h, Use(h).onRefusal)]
             /\ UNCHANGED <<shell, page, acts>>

\* Any other failure.
Fail(h) == /\ Waits(h, "page")
           /\ hook' = [hook EXCEPT ![h] = Outcome(h, Use(h).onFailure)]
           /\ UNCHANGED <<shell, page, acts>>

\* Evidence asks for the pointers of the units it got, with the key stored by
\* then.
AskPointers(h) == /\ h = "claims"
                  /\ Waits(h, "page")
                  /\ Accepted(h)
                  /\ hook' = [hook EXCEPT ![h].request =
                       [on |-> TRUE, key |-> stored, part |-> "pointers", company |-> Returned(h)]]
                  /\ UNCHANGED <<shell, page, acts>>

\* A unit whose pointers are refused or fail to load is read as having none.
TakePointers(h) == /\ Waits(h, "pointers")
                   /\ \E c \in {Returned(h), NoTenant} :
                        /\ Accepted(h) \/ c = NoTenant
                        /\ hook' = [hook EXCEPT ![h] = [Outcome(h, "stop") EXCEPT !.shown = c]]
                   /\ UNCHANGED <<shell, page, acts>>

\* Another route: its hooks start afresh, the cleanups cancel the old ones.
Navigate(p) == /\ MayAct
               /\ page' = p
               /\ hook' = [h \in Hooks |-> Fresh(h)]
               /\ UNCHANGED shell

\* ApiKeyBanner on a page that passes onSaved={() => setNeedsKey(false)}: the
\* refused request is not sent again unless the company changes.
SaveFromBanner(h, k) == /\ MayAct
                        /\ hook[h].needsKey
                        /\ stored' = k
                        /\ StartLoad(k, TRUE)
                        /\ hook' = [hook EXCEPT ![h].needsKey = FALSE]
                        /\ orderly' = FALSE
                        /\ UNCHANGED <<live, keyClient, client, listed, firstPending, page>>
-----------------------------------------------------------------------------
UserStep == \/ \E k \in Keys : PasteKey(k) \/ RetireKey(k)
            \/ \E c \in Tenants : NewCompany(c) \/ SelectCompany(c)
            \/ \E p \in Pages : Navigate(p)
            \/ \E h \in Hooks, k \in Keys : SaveFromBanner(h, k)

LoadStep == \E i \in 1 .. Len(loads) : FailLoad(i) \/ \E o \in Companies : SettleLoad(i, o)

Respond(h) == Answer(h) \/ Refuse(h) \/ Fail(h) \/ AskPointers(h) \/ TakePointers(h)

HookStep == \E h \in Hooks : RunEffect(h) \/ Respond(h)

Next == UserStep \/ LoadStep \/ HookStep

\* React runs its effects, and every request is answered or fails; the user
\* need not do anything.
Fairness == /\ WF_vars(LoadStep)
            /\ \A h \in Hooks : WF_vars(RunEffect(h)) /\ WF_vars(Respond(h))

Spec == Init /\ [][Next]_vars /\ Fairness
-----------------------------------------------------------------------------
TypeOK == /\ stored \in Keys
          /\ live \subseteq Keys
          /\ loads \in Seq(Loads)
          /\ keyClient \in Companies
          /\ client \in Companies
          /\ listed \in BOOLEAN
          /\ firstPending \in BOOLEAN
          /\ orderly \in BOOLEAN
          /\ page \in Pages
          /\ hook \in [Hooks -> HookStates]
          /\ acts \in 0 .. MaxActs

Shows(h) == h \in page /\ ~EffectDue(h) /\ ~hook[h].loading
            /\ ~hook[h].error /\ ~hook[h].needsKey

Quiet == /\ loads = <<>>
         /\ \A h \in page : ~EffectDue(h) /\ ~hook[h].request.on

\* When nothing is under way, the tab is signed in as the company of the
\* stored key and a hook reports no error, what the page shows is that
\* company's (hooks.ts: one refetch, after the tenant is actually known).
ShownIsKeyed ==
  Quiet /\ ~IsGuest /\ keyClient = Owner[stored]
    => \A h \in page \ {"selected"} : Shows(h) => hook[h].shown \in {NoTenant, keyClient}

\* The same as long as the provider's loads answer in turn and no refused hook
\* was dismissed through the key banner, whatever keys were
\* pasted, pages visited and answers of the hooks came late or failed.
ShownIsKeyedInTurn == orderly => ShownIsKeyed

\* CompanyBanner: the numbers on this page are the selected company's only.
SelectedOnly == Shows("selected") => hook["selected"].shown \in {NoTenant, CompanyOf("selected")}

\* Once a hook has seen that nobody is signed in it holds no company's rows,
\* and no late answer brings them back (useWorkSystem, useCensus,
\* useEvidenceClaims, usePlanVerify, usePlanOutcome clear them).
GuestSeesNothing ==
  \A h \in page \ {"units", "selected", "plain"} :
    IsGuest /\ ~EffectDue(h) => hook[h].shown = NoTenant

\* No page waits for ever.  useWorkSystem is left out: it does not.
LoadingEnds == \A h \in Hooks \ {"workSystem"} :
  (h \in page /\ hook[h].loading) ~> ~(h \in page /\ hook[h].loading)
=============================================================================

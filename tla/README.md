# TLA+ models of copiloto-core

copiloto-core is the Python core (FastAPI, asyncpg, Redis) of a multi-tenant
product, with a browser-facing backend (BFF) for its React admin panel, and that
panel. This directory holds TLA+ models of the parts of both where several
things are under way at once, TLC configurations that check them on small
instances, and theorems about them checked by TLAPS. Paths of Python and SQL
files are relative to `src/copiloto_core/`, those of `.js` and `.jsx` files to
`src/admin-panel/src/`.

## 1. The system

Several processes run side by side: replicas (pods or `uvicorn --workers`
interpreters), each with one or more workers; a worker is one asyncio event
loop, so within it only an `await` lets something else run. Workers share
Postgres and Redis, and nothing else; every module-level cache, breaker and
limiter is private to a worker.

| part | state it keeps | operations | what makes it correct |
| --- | --- | --- | --- |
| WebSocket fan-out, `admin/ws_fanout.py` | subscribers per tenant, `_task`, `_ready`, one queue per socket | subscribe, unsubscribe, supervise, dispatch | one LISTEN, nobody waits forever, events in order and only the oldest dropped, closed with the last socket |
| AI dispatcher, `ai/dispatcher.py` | a circuit breaker per provider | dispatch | chain in order, breaker opens and closes as documented, one audit row |
| BFF session store, `admin/session_store.py` | Redis keys, a TTL+LRU cache per worker | get, set, delete | revocation visible after the cache TTL, live sessions found on every worker, none served after expiry |
| BFF routes, `admin/routes.py` | cookies | login, callback, proxy, logout, stream | a state is used once; sessions as above |
| Tenant members, `api/v1/handlers/platform_admin_handlers.py` | `users`, `user_tenant_roles` | add, patch, remove | replaced means replaced, removed means removed |
| Invitations, `services/invitations.py` | `tenant_invitations` | create, supersede, redeem, mail | one open invitation per person and tenant, closed once, mailed after the commit |
| Database access, `db/pool.py` | pool | one transaction per request | all or nothing, before the answer goes out |
| AI registry and gating caches, `ai/registry.py`, `auth/gating.py`; JWKS, `core/security.py` | TTL caches per worker | get, invalidate, force refresh | staleness bounded by the TTL, or by the invalidation |
| Rate limiters, `services/rate_limit.py`, `services/sliding_window_rate_limit.py` | buckets in LRU order | check | no more than the limit per window |
| Email, `email/dispatcher.py`, `services/email.py` | provider rows, dispatch log | send | chain by priority, audit rows that say what happened |
| Identity, `app.resolve_or_create_user`; signup | `users`, `tenants` | first login, signup | one row per person, one tenant per signup |
| OAuth state store, `admin/oauth_state_store.py` | consumed states | mark_consumed | at most one use |
| Module migrations, `migrations/runner.py` | `schema_migrations` | apply | each once, in order |
| HTTP clients, `services/http_clients.py` | singletons | get, close_all | one client, none used after close |

The panel is a single-page application: one user, one thread, but every
request is answered when it pleases, while the user goes on clicking, leaves the
page, or moves through the browser's history.

| part | state it keeps | operations | what makes it correct |
| --- | --- | --- | --- |
| Session and tenants, `context/AuthContext.jsx`, `app/TenantProvider.jsx`, `components/domain/SupportModeBanner.jsx` | profile, tenant options, support override and cookie, last tenant in local storage | load, list, sign-up, enter and leave support mode | nobody is shown roles he does not have |
| Routes, permissions, shells, `app/`, `permissions/` | address, error boundaries | redirects, guards, navigation | links survive the loading, redirects end, what is offered can be opened, an error stays in its module |
| Read hooks, `features/platform/*/hooks/` and the two provider containers | data, loading, error, a cancelled flag per run | mount, new key, reload, unmount, answer, failure | what is shown answers what is selected; the spinner is honest |
| Dead letters, `features/platform/fleet-dlq/` | dialog, retrying, outcome | open, confirm, close | one retry at a time |
| Provider pages, `features/platform/ai-providers/`, `email-providers/` | form, test dialog, banner | edit, save, delete, test | one save at a time, no form lost, results in their own dialog |
| Fleet, `features/platform/fleet-tenants/` | drawer, its two panels, creation dialog | open, toggle, add, create | the drawer is of one tenant; one creation at a time |
| Team, `features/owner-admin/team/` | rows, lock, notice, form, confirmation | invite, change, remove, jump | one change at a time, lock released with it |
| Account, `features/account/` | form, saves, sessions | hydrate, edit, save, revoke | one save at a time, what says "saving" ends |
| API client, `services/coreApi.js` | none | request | each request is answered or fails, in any order |

The rest (settings, adapters, CRUD handlers, scaffolding, UI kit, static pages)
keeps no state that steps of several actors could bring out of order.
`PROJECT.json` lists every part, and under `hazards` the places where this code
can go wrong in a way a unit test would hardly reach.

The interactions that matter: a socket calls `subscribe` and shares the
supervisor with all the others; the supervisor takes a pool connection; the
callback, the proxy and the logout meet in the session store; member requests and
redemptions meet in Postgres' rows and locks; a dispatch meets other dispatches
in the breakers. In the panel the router mounts one page at a time: a page that
is left loses its state, its locks and its dialogs, while what it has sent stays in
flight; a container that reads again unmounts the page below it; and the address, which is there first, meets
the session and the list of tenants, which come later.

## 2. Modules

| module | models | composed from |
| --- | --- | --- |
| `Fanout` | the fan-out, its sockets, its supervisors, the LISTEN connections | - |
| `Dispatcher` | `dispatch`, the breakers, the audit rows | - |
| `SessionStore` | `RedisSessionStore` in several workers, with the requests that use it | - |
| `Membership` | the member and invitation transactions over Postgres' locks | - |
| `LatestRead` | what a screen that reads promises: abstract specification | - |
| `FetchHook` | the read hooks of the panel | implements `LatestRead` |
| `PanelReads` | the pages as readers: list hook, viewer, modules panel, and what each page draws | three instances of `FetchHook` |
| `DlqRetry`, `ProviderForms`, `FleetDrawer`, `PanelTeam`, `PanelAccount` | the dialogs, forms and panels of the pages | `PanelReads` |
| `PanelPages` | all of them under the router | the five modules above |
| `PanelShell` | session, tenants, support mode, routes, guards, permissions, navigation, error boundaries | - |
| `TtlCache` | the TTL caches of a worker (AI providers, gates, signing keys), their readers, and the transactions that change what is cached | - |
| `MC<module>` | finite instances | the module and TLC |
| `DispatcherProofs`, `SessionStoreProofs`, `MembershipProofs`, `FanoutProofs`, `FetchHookProofs`, `PanelPagesProofs`, `PanelShellProofs`, `TtlCacheProofs` | theorems | the module and TLAPS |

How the models correspond to the code:

* **Fanout.** A socket is a value of `Sockets`; `pc` says at which `await` of
  `subscribe`, the read loop or `unsubscribe` it is. A task created by
  `create_task` is a number of `TaskIds`, an `asyncio.Event` a number of
  `EventIds` (0 is the one of `__init__`). `sup[t]` says at which await the
  supervisor is; a cancellation requested by `unsubscribe` is delivered there by
  `CancelDelivered`. What is between two awaits is one action, so `_lock`, which is
  never held across one, needs no variable. `AcquireFails`, `SetupFails`,
  `ConnectionLost` and `ReleaseFails` are the faults; each is bounded by a constant.
  Notifications come from outside.
* **Dispatcher.** One action walks the chain up to the next call, skipping the
  open circuits (`Call`) or giving up (`Exhausted`); four actions are the four
  ways an answer can end (`Succeeds`, `ContentRejected`, `RetryableError`,
  `OtherError`). `started[c]` is the local `now`, which is read before the call
  and recorded after it. `failedAt`, `streak` and `lastFail` are history
  variables that no guard reads.
* **SessionStore.** A request runs in a worker; every Redis command is three
  steps, sent, applied by Redis (`ApplyGet`, `ApplySet`, `ApplyDelete`), and
  answered, so that others can come in between, and it may fail. `older` is the
  order of the `OrderedDict`, as the set of its pairs. The callback answers the
  browser only after `set`, and a browser sends only cookies it has.
* **Membership.** One user and one tenant. A statement in READ COMMITTED that may
  have to wait is two actions: what it found when it started (`target`), and what
  it does with the rows when their locks are free, looking at them again. `tx[r]`
  is what the transaction has written and so what it has locked; `Commit` makes it
  visible; `Abort` is any failure of a statement, among them the choice of
  Postgres' deadlock detector. `Replicas` are interpreters: the advisory lock
  key is a salted `hash()`, so it is shared within one only.

* **FetchHook.** The hooks are one effect in many copies, with a `cancelled` flag
  in the closure of each run. A run is a number (`gen`); a call in `calls` carries the
  number, the key and the flag of its run. The effect of a click is flushed before
  the next event, so a change of key and its effect are one action. The answer is
  abstracted to the request it answers. `ClearsOnStart` distinguishes the hooks
  that empty their data when they ask (`useRunbookDetail`) from those that keep it.
* **PanelReads.** `page` is what the router shows. Opening and leaving a page mount
  and unmount the instance `List`; `Viewer` is the runbook viewer, `Modules` the
  modules panel of the fleet drawer, two uses of one set of variables because they
  are on different pages. `HealthScreen` ... `FleetTable` are the conditions each
  page renders its main area by, in its own order; `HealthBadge` ... `BillingFigures`
  say what its tiles, badges and descriptions count: the last answer, or the empty
  list. `left` holds the changes that were in flight when their page was left, until
  the last of them is answered (`Leave`, `LeftAnswered`).
* **ProviderForms.** The container replaces its child by the loading screen, so a
  reload is a new child (`Child` is the run of the list); an answer knows the
  child it was sent by, and reaches the state of no other.
* **FleetDrawer.** A drawer is known by the run of the modules hook it mounted
  with; the members panel has no cancelled flag, and a late answer reaches it only
  while its own drawer is open, because closing unmounts it.
* **PanelTeam, PanelAccount.** A change and the read after it are one chain in
  `teamCalls`, as in the `async` handlers. A value of a form is abstracted to its
  origin: default, server or user.
* **PanelPages.** Nothing is aborted when a page is left. The reads of the hooks stay
  in `calls`, with their flag; the changes move to `left`, since nothing is left that
  their answers could set; the other reads, whose answer would set state of an
  unmounted component and changes nothing at the server, are dropped.
* **PanelShell.** `Redirects` is what the route on the screen redirects to and
  `Screen` what it draws otherwise, each a `CASE` over the routes of
  `app/router.jsx`. `account` and `member` are what the server knows, `profile` and
  `options` what the panel has been told. `GoWith` is a change of address: the
  layouts it does not keep are unmounted, so `live` of their requests is cleared
  and their error boundary is gone. `Load` is a document load, which forgets
  everything but `stored` and `cookie`. The capabilities of the platform are two,
  one per level, since roles give all or none of them.
* **TtlCache.** The three caches have one shape, so they are one module: a row is what a
  key of a cache is computed from, and its value is the number of changes of it
  that are committed, of which `commits` keeps the times. `Hit` and `Miss` are the look
  at the cache up to the first `await`, `Answer` is the moment at which Postgres or
  Auth0 evaluates the question, `Resume` what the coroutine does with the answer: it
  stores it until the clock of its look (`now`, read before the `await`) plus the TTL,
  whatever the cache holds by then. A token whose key is not in the set asks once
  more (`forced`); the other two never do. A change of a row is a transaction
  (`Update`, `Clear`, `Commit`, `Rollback`): the handler of the providers clears their
  cache when its own `transaction()` block ends, which is a savepoint of the one
  `get_db` opened, and `get_db` commits later, when the handler has returned.
  `Invalidate` is there for extensions and operators; `Rotate` is Auth0.

### Plan

Done in this order: Fanout, Dispatcher, SessionStore, Membership, the proofs about
Dispatcher and SessionStore; then the panel, FetchHook and the pages first, then the
shell, and the proofs about the reads; then the proofs about Membership, Fanout, the
forms of the pages and the shell, and the other properties of Dispatcher and
SessionStore; then the TTL caches with their proofs.

To come, the most important first:

1. Proofs: the fan-out after a lost connection or a failed release, where only
   `TypeOK` and `CurrentTaskAlive` are proved; a refinement of `SessionStore` by one
   session table.
2. Identity reconciliation and sign-up as concurrent transactions.
3. The rate limiters against a reference that keeps the whole history; the email
   chain and its audit rows; the OAuth callback composed with SessionStore; module
   migrations of two starting replicas; HTTP clients at shutdown.
4. The toasts of the panel: five visible, the others in a queue, a timer each.

## 3. Runs

Every `.cfg` gives the constants of one question. `CHECK_DEADLOCK FALSE` is set
throughout because each instance has a finite number of sockets, calls or
requests and stops when they are done.

| run | instance | shows |
| --- | --- | --- |
| `MCFanout` | 2 sockets, 4 events, queue of 2, 1 setup fault | `TypeOK`, `InOrderOnce`, `NothingMissed`, `GapOnlyWhenFull` |
| `MCFanoutLive` | 3 sockets, 2 tenants, 1 fault of each kind | `CurrentTaskAlive`, `OneListener`, `SubscribeReturns` |
| `MCDispatcher` | 3 calls, crossed chains of up to 3 entries, 2 in flight, threshold 2 | `TypeOK`, `ChainInOrder`, `PolicyEndAudited`, `OpenNeedsStreak`, `SkipOnlyDuringCooldown`, `DispatchEnds` |
| `MCSessionStore` | 2 workers, 3 requests, 3 sessions of which 1 is garbled, cache of 1, 1 fault, TTLs 2 and 1 | `TypeOK`, `RevokedWithinTTL`, `NoSpurious401`, `ServedBeforeExpiry` |
| `MCMembership` | 3 requests of any kinds, 2 roles, 2 replicas | `OneOpen`, `InviteeKeepsALink`, `MailedAreCommitted`, `SerializedByReplica`, `OnlyRemoveEmpties`, `ClosedOnce`, `OnlyDeletesCircle` |
| `MCPanelPages` | 2 filters, 2 rows, 2 modules, 3 requests of the list hook, 2 of the second one | `SpinnerHonest`, `SettledIsSelected`, `ContentIsRead`, `NoDoubleSubmit`, `ResultOfTheRow`, `DrawerOfOneTenant`, `AiFormKept`, `ReadsImplementReader` |
| `MCPanelShell` | 4 kinds of users, 2 tenants, 2 document loads, 2 support calls or sign-ups | `TypeOK`, `RolesAreEarned`, `RedirectsLand`, `NavIsHonest`, `RailIsWhole`, `DeepLinkSurvives` |
| `MCTtlCache` | 2 workers, a provider, a gate and a key set, 2 reads, 1 change, 1 rotation, TTL 1 | `PropagatesWithinTTL`, `ValidKeyAccepted` |

The type invariants of Membership, of the pages and of TtlCache bound nothing (no queue,
no deque, no number of a task), so no run spends time on them; they are proved
(section 4).

Four runs end in a counterexample: there the code and what it says of itself
differ (`findings` in `PROJECT.json` quotes each sentence).

| run | property | what happens |
| --- | --- | --- |
| `MCFanoutLeak` | `ClosedWhenLast` | a subscribe that gives up leaves an empty set: until that tenant is subscribed and unsubscribed again, the connection is not closed |
| `MCMembershipReplicas` | `AddsSerialized` | two interpreters take different advisory locks |
| `MCPanelCrash` | `CrashStaysInItsModule` | in the platform shell the error of a module is shown in the next one |
| `MCTtlCacheClear` | `ProviderEffective` | a read between the clear and the commit caches the old provider again, in the worker that changed it |

Behaviours of the models that a reader of the code may not expect, which no run
is devoted to:

* `admin/ws_fanout.py` 13 speaks of ONE pool connection, but the old supervisor is
  drained outside the lock (233-240): while it gives its connection back, a new
  subscriber can start the next supervisor with a second one.
* `admin/ws_fanout.py` 142 catches what UNLISTEN raises on a live connection, not
  `asyncpg.InterfaceError` on a dead one. The crash handler (156) of a cancelled
  supervisor then sets `_task` to None although it names a newer one, and
  two supervisors LISTEN. `OneListener` therefore assumes that no connection was
  lost and no release failed.
* `ai/dispatcher.py` 17-18: a provider is skipped for the cooldown minus the
  duration of the call that opened its breaker, because `opened_at` is the time at
  which that call began. For the same reason the "5 fallos consecutivos en una ventana de
  60s" of line 16 are calls that began in a window: a fast failure and one that comes a
  long timeout later open the breaker together (`OpensOnRecentFailures` does not hold). A `call_fn` that raises an exception other than the four
  caught types (267, 280) leaves no audit row, which line 19 promises for each
  dispatch; `PolicyEndAudited` leaves those out.
* `admin/session_store.py` 137 says LRU, but only a fill moves an entry to the
  end (205), a hit does not: the eviction order is that of the fills.
* `patch_tenant_member` replaces "todos los roles" (557), but its DELETE does not
  see what a concurrent add or patch commits after its snapshot, so two roles may
  remain; and when a remove commits between its read and its INSERT, the
  membership is there again.
* Two changes of one member deadlock: each has deleted a role and needs a row of the
  other. Two removes of a member with two roles do it, as their DELETEs (617) take the
  rows in any order; a remove and a patch do it when the patch has deleted one role and
  inserts (562) another, which the remove has deleted. Postgres aborts one of them. That every
  circle needs two such changes is `OnlyDeletesCircle`.
* `services/invitations.py` 562 takes an invitation with `redeemed_at` for one that was
  redeemed, but a superseded one has it too (270): its link answers "redeemed" although
  nobody accepted it.
* `already_redeemed` (`invitation_handlers.py` 124-126) is true for the first
  redemption too.
* `FleetDlq.jsx` 37, 57-60: the lock of a retry goes away with the page, and its POST
  does not. Leave while it is in flight, come back and confirm, and the same retry is
  sent again (`RetriedOnce` of `PanelPages` does not hold); the other forms behave
  alike. `NoDoubleSubmit` is about one mount of a page.
* The dead letters (`FleetDlq.jsx` 108-127), the fleet (`FleetTenants.jsx` 74, 94) and the
  health page (`SystemHealth.jsx` 69-70) count an empty list before the first answer and
  beside the error: zeros, "0 tenants en la flota", "Sin alertas". The flags
  (`FeatureFlags.jsx` 82) and the incidents (`Incidents.jsx` 68) do so while the first
  answer is awaited. `DlqKpis.jsx` 10-11 drops a tile because "showing a fabricated
  number would be dishonest". `FiguresAreRead` of `PanelReads` does not hold;
  `ContentIsRead` is about the tables and the figures that are never invented.
* `FleetDlq.jsx` 65: the dialog can be closed while a retry runs and opened for
  another tenant, which is then told the outcome of the first (`OutcomeOfTheTenant`
  of `DlqRetry` does not hold).
* `useTeamData.js` 119 sets the success message of an invitation and the `refresh()`
  of the same handler clears it before it is drawn (`SuccessIsShown` does not hold);
  the same handler closes the form that is open now, be it another one. After a
  jump through the history the late list of the other tenant replaces the rows.
* `EmailProviders.jsx` 140: a delete that completes while a form is open reloads the
  list, which throws the form away; `AiFormKept` is about the other page.
* `AccountProfile.jsx` 51, `AccountNotifications.jsx` 47: the late read overwrites what
  the user has typed meanwhile. `AccountSessions.jsx`: two reads may overtake each
  other, and the spinner stops with the first.
* `useTenantModules.js`: a click on a switch clears the error of the read of the panel,
  and an older toggle that is answered enables the switch of the newer one.
* `TenantProvider.jsx` 113 drops the override before the DELETE is sent, and nothing
  is disabled while an activation is in flight: a second activation answered after
  the exit enters support mode again, and a late DELETE takes the cookie of a new
  activation. The override itself does not expire with the cookie.
* `FleetDlq.jsx` 74 enters a tenant without asking for support mode, and the row it
  enters with replaces the option of the tenant, roles included, as the one of
  "Ver como tenant" does (`FleetTenants.jsx` 60).
* `TenantProvider.jsx` 59: a tenant signed up while the list is on its way is taken
  away by the older list. `DeepLinkSurvives` leaves it out.
* `TenantSetupWizard.jsx` 60: for an existing tenant the tab says "Cambios guardados."
  without a request.
* The TTL caches store an answer whatever has been stored meanwhile: of two reads that
  missed, the older answer may be stored last, so a worker can go from the new row
  back to the old one, for a TTL of the commit at most.
* `auth/gating.py` 41-43 says that the endpoints of the core invalidate the gates. None
  does: the one of the modules calls a hook that does nothing (`admin_routes.py`
  816-818, 1069), those of the roles call nothing, so a change takes up to the TTL
  in the worker that made it, too.
* `core/security.py` 252 says that the keys are fetched again only if they came from the
  cache; the code (261) fetches again in either case, so an unknown key costs two
  fetches on a cold cache.
* `auth/gating.py` 206 asks for `u.auth0_sub`, but the column of `app.users` is
  `auth_subject` (`platform_schema/10-core.sql` 88): on that schema the query raises, and
  the capability gate answers every user 503. In the model that is a read that
  always takes `Fail`.

**Bounds.** `MaxEvents`, `MaxSetupFaults`, `MaxLost`, `MaxCleanupFaults` (Fanout),
`MaxInFlight`, `MaxClock` (Dispatcher), `MaxFaults`, `MaxClock` (SessionStore),
`MaxReads`, `MaxDetails`, `MaxLeft`, `MaxRetries`, `MaxWrites`, `MaxDrawer`,
`MaxTeam`, `MaxAccount` (panel pages), `MaxSent` and `MaxLoads` (PanelShell), `MaxChanges`
and `MaxClock` (TtlCache) are bounds of the checking, not of the code; they are
guards, never state constraints. Thresholds, TTLs and queue sizes are as small as
lets each boundary be passed on both sides: a queue of 2 fills and overflows with 4
events; threshold 2 has a first and a last failure; clocks run past the window and
the cooldown, and to session plus cache TTL. Three sockets are the least for
one that leaves, one that joins meanwhile and one that joins afterwards; three
requests the least for a login, a revocation and a read between them, or for two
adds and a redemption of the first. Three requests of a list are the least for an
older answer that arrives after a newer one while the newest is awaited, and two of a
runbook or a drawer for an older one that arrives after the newer. A page is left with
at most one request in flight, a read or a change (`MaxLeft`, which counts those
of earlier pages too): one is enough for a late answer to meet the next page, and for
a change to be sent again while the first is out. Two retries, two writes and two saves are the least for a double submission; the
drawer needs three requests to open, close and open for another tenant while the
first read is out. Two document loads are the least for a link that is followed
with a tenant stored and a cookie set before. Two reads and one change are the least
for answers of different age to be stored in the wrong order, and time up to 2 lets
an entry of TTL 1 be hit, outlive a commit, and expire, before and after it is
stored again; one rotation, with no key listed beyond its own, is the least for a key
to come and another to go. Symmetry is used for safety runs only, on
requests, workers, replicas, roles, sessions, rows, modules and tenants that nothing tells apart.

`ClosedWhenLast` needs two tenants and two setup failures to fail. In `MCMembership` the
three requests are of any kinds and the member may have either role, both or none
when they begin, so circles of two removes, of two patches, and of a patch and a
remove all occur. The instance with four requests (2.5 million states) satisfies its
properties too, but is too long for a run; `OnlyDeletesCircle` is proved for any number.
`AddsSerialized` fails with two replicas (`MCMembershipReplicas`); what does hold is
`SerializedByReplica`.

**Fairness.** The event loop runs every task that is ready, so the steps of a
socket that is subscribing or unsubscribing and of a supervisor are weakly fair;
a connect, a disconnect, a notification and every fault are not. A provider call
ends (the adapters have timeouts), so the answer to a call is fair as a whole but
no kind of answer is. Membership and TtlCache are checked
for safety only. A transaction that waits in a circle ends by `Abort`, Postgres'
choice of a victim, and `OnlyDeletesCircle` says where that can be; no statement is
executed twice. No fairness is assumed in the panel: `fetch` has no timeout
there, so nothing says that an answer comes, and its properties are all of safety.

## 4. Proofs

TLAPS proves, for every value of the constants that satisfies the assumptions
named in the modules, all safety properties of the passing runs. Each component has an
inductive invariant, checked by TLC on the instance of its run before it was proved;
the properties follow from it.

* **Dispatcher** (`DispatcherProofs`). `TypeCorrect`, for any chains over any providers;
  the one fact with content is `PushType`, that the deque stays within the threshold.
  - `BreakerInvariant` gives `OpenNeedsStreakHolds` and `SkipOnlyDuringCooldownHolds`.
    Neither is inductive: that an open breaker had a streak needs that the deque
    never holds more failures than the streak counts, and that a skip is recent
    needs `openedAt <= lastFail`, which in turn needs that a call never started in
    the future.
  - `WalkInvariant` gives `ChainInOrderHolds` and `PolicyEndAuditedHolds`: what has failed
    and what was skipped are at every moment the entries before the one being
    called, and the audit row is written by the step that ends the walk.
* **SessionStore** (`SessionStoreProofs`). `TypeCorrect`.
  - `RevokeInvariant` gives `RevokedWithinTTLHolds`: a cache entry of a revoked session
    is not usable `LocalTTL` after Redis deleted it. It is not inductive because a
    GET answered before the delete is cached after it. The invariant says where old
    values can still be: `CacheInv` bounds the entry of each cache by the revocation
    plus the TTL, `ReadInv` does so for a reply on its way, `RevokedInv` says that
    nothing is stored under a revoked id, `LoginInv` and `UserInv` that an id is stored
    once, by the one login that made it.
  - `SessionInvariant` gives `NoSpurious401Holds` and `ServedBeforeExpiryHolds`: every
    payload, in Redis, in a reply or in a cache, was written by a login and has its
    expiry (`PayloadInv`, `ReplyInv`, `EntryInv`); a session whose cookie is out is in
    Redis until it is revoked (`KeptInv`); and each step towards a 401 has its excuse
    (`DeniedInv`), which no later step takes away (`ExcusedStays`).
* **Membership** (`MembershipProofs`). `MembershipInvariant` says what each transaction
  has written at each of its statements (`TxInv`), that what it has closed
  is still open for everybody else and closed by nobody else (`LocksInv`), that one
  invitation is open and who opens another has closed it (`OpenInv`), and that an add
  which holds the advisory lock of its replica has found all that was open
  (`FoundInv`). From it:
  `MembershipTypeCorrect`, `OneOpenHolds`, `InviteeKeepsALinkHolds`,
  `MailedAreCommittedHolds`, `SerializedByReplicaHolds`, and the action properties
  `ClosedOnceHolds` and `OnlyRemoveEmptiesHolds`, for any number of requests, roles and
  replicas. `OnlyDeletesCircleHolds` needs `HeldInv`, what a transaction may hold at each
  statement: who has closed the open invitation, or opens one, waits for nobody, so
  nobody in a circle waits for an invitation or for the advisory lock
  (`NoInvitationInCircle`); and who has inserted a role is past all the other waits, so
  a role that is waited for in a circle is held by somebody who has deleted it
  (`RoleWaits`).
* **Fanout** (`FanoutProofs`). `FanoutInvariant` has two halves. One holds whatever fails:
  every supervisor made is accounted for by an attempt of a socket, so their number
  is bounded (`AttemptInv`), the current one has not ended (`SupervisorInv`), and a
  socket is in the set of its tenant and waits on the Event of the supervisor it
  found or spawned (`SocketInv`). It gives
  `FanoutTypeCorrect` and `CurrentTaskAliveHolds`. The other holds while no connection was
  lost and no release failed (`Unbroken`): only the current supervisor is registered
  (`OwnedInv`), what is in flight to it is newer than all that was delivered, and in
  order (`FlightInv`), and each queue is in order and misses, of what was notified
  since its socket joined, only what is in flight or what a full queue dropped at
  its head (`QueueInv`). It gives `OneListenerHolds`, `InOrderOnceHolds`,
  `NothingMissedHolds` and `GapOnlyWhenFullHolds`. The condition is stated in the
  theorems. The run `MCFanout` has the same condition, as a bound: `MaxLost` and
  `MaxCleanupFaults` are 0 there. `MCFanoutLive`, where both are 1, checks the first
  half, and `OneListener`, which carries its condition. Without it the properties are false: after a release
  that fails two supervisors may LISTEN and an event be taken twice (see section 3).
* **Read hooks** (`FetchHookProofs`). `HookInvariant`, for any keys and any number of
  requests. That a settled screen is current (`SettledIsCurrent`) is not inductive: it
  needs that the one run that is not cancelled is the newest and asks for the
  current key (`LiveIsNewest`), that runs are told apart by their number
  (`CallsAreRuns`), and that the spinner is that run (`LoadingIsLive`). From it
  `HookRefinesReader`: the hook implements `LatestRead`.
* **Pages as readers** (`PanelPagesProofs`). `ReadsInvariant`, and from it
  `SpinnerHonestHolds`, `SettledIsSelectedHolds` and `ReadsRefineReader`. The lemmas of
  `FetchHookProofs` are used through three instances; what is left to show is which
  step of the 60 actions of the pages is which step of a hook (`ListStep`,
  `DetailSteps`). The detail is a hook except that the modules panel sets its error
  from outside, so `ReadsInv` demands of it only what does not look at the error
  (`CallsInv`), and `SettledIsCurrent` only in the page of the runbooks.
* **Forms and dialogs** (`PanelPagesProofs`). `PagesInvariant` adds a part for each form to
  `ReadsInv`. A flag that disables a button and the requests it stands for go together
  (`Guarded`: exactly one request while it is set, none otherwise); a request of a
  page, a child or a drawer that is gone cannot be taken for one of the present
  (`ProvidersInv`, `DrawerHolds`); a page that is on the screen has asked for its list
  (`ListAsked`). From it `PagesTypeCorrect`, `NoDoubleSubmitHolds`, `ResultOfTheRowHolds`,
  `DrawerOfOneTenantHolds`, `ContentIsReadHolds` and the action property `AiFormKeptHolds`.
  `NoDoubleSubmitHolds` is about one mount of a page, `ContentIsReadHolds` about tables
  and the figures of billing, flags and incidents (section 3 says what is not so).
  `AiInv`, which that one needs, says that on the AI page the only request that can
  replace the child is the save of the form that is open.
* **Shell** (`PanelShellProofs`). `ShellInvariant` has three parts. `EarnedInv` says where each
  option comes from, the server or the profile, and that without a session there
  is nothing; it gives `RolesAreEarnedHolds`. `ListInv` says that the list is asked for
  as soon as the session is known, and that no tenant of the user is missing once
  it is answered; it gives `DeepLinkSurvivesHolds`. `LandInv` says where a chain of
  redirects can be after how many hops and what was known when it got there; it
  gives `RedirectsLandHolds`. `StepKinds` sorts the actions by what they do to what the
  panel knows, so each part is proved over eight kinds of steps. `NavIsHonestHolds`
  needs no invariant: the two tables agree for every set of roles (`OfferedOpens`).
  Nor does `RailIsWholeHolds`: how many items come before one tells the items apart
  (`BeforeIsAnOrder`), so by the pigeonholes no more are picked than there are slots,
  and all are when they fit (`PickedFit`).
  `ShellTypeCorrect`.
* **TtlCache** (`TtlCacheProofs`). `TtlCacheInvariant`, for any workers, rows, reads and
  changes. That what a read ended with is no older than a TTL
  (`PropagatesWithinTTLHolds`) is not inductive, because an entry may be stored after
  the change it has not seen, and after the cache was cleared for it. What holds is
  about time: an answer that lacks a change was asked for before that change was
  committed (`FlightHolds`), so the entry it becomes ends within a TTL of the commit
  (`EntryHolds`), whenever it is stored and over whatever. `ValidKeyAcceptedHolds` needs
  that the last answer of a rejected token lies between what was listed when it
  began and what is listed now (`KeyHolds`), and that a key listed at both ends is
  listed in between (`WindowMoves`). `TtlCacheTypeCorrect`.

**Assumptions.** Bounds are natural numbers; the threshold, the lifetime of a session
and the sizes of the cache and of a queue are positive, and so are `MaxReads`,
`MaxDetails` and `MaxAccount`, since the first read of a page counts among the requests. Sockets and
requests are finite sets, and no request is named like a role. A value that stands for "none" or
"nothing selected" is none of the keys, payloads or numbers it is told apart from
(`None`, `NoFilter`, `NoItem`, `NoTenant`). There is at least one filter. The TTL is
positive, and providers, gates and key sets are told apart. What the
session says of a user are roles of the matrix and a tenant that exists or none
(`ShellAssumption`), and the home of the platform is among the modules that are
opened. Each is a named `ASSUME` of its module, which TLC evaluates in its run.

**Model-checked only.** `SubscribeReturns` and `DispatchEnds`: TLAPS has no ENABLED, so
no liveness. What a recursive definition computes cannot be proved by
induction here; for that reason `HighestRole` and `SafeHome` pick the first of an
order by its index (`FirstIn`), `PickMobilePrimary` picks by the number of items
before one, and the guard of `ModuleSelect` is the set of the items
offered, not the sequence they are shown in. The properties of the runs that
expect a violation are false of the code.

## 5. What is not modelled, and why

* Formatting, logging, metrics, and the text of errors.
* Fanout: JSON decoding of a payload, heartbeats, `reset_fanout_for_tests`. The
  sender of the notifications is not in this repository. A lost connection is
  never noticed by the code; `NothingMissed` speaks of notifications that reach
  the process.
* Dispatcher: the database lookup of the chain (it belongs to the registry), the
  length of the backoff, failed audit inserts (logged and ignored by the code).
* SessionStore: `InMemorySessionStore`, the factory, the contents of a payload
  other than its expiry, and clocks that differ between workers.
* Membership: `is_default`, audit rows, Auth0, `last_send_status`, the concurrency
  limit of outgoing email, PATCH requests that change no role, other tenants and users.
* TtlCache: what a provider, a gate or a key says; the fallback to the environment
  when no provider row exists and the service actors, which pass without a query;
  several keys that one change touches at once, other than the cache of the
  providers, which is cleared whole.
* Panel: the text and layout of pages, toasts, theme, tabs and pagination; filters
  applied to rows in memory; the payload builders and the audio file of a provider
  test; the preferences page, which writes to local storage at once; the static
  pages (roles, landing). A request is answered or fails; how the API client builds
  its URL and reads an error is left out. React batches the updates of one event:
  a handler up to its `await` is one action.
* The parts that section 1 lists without a module, in the order of the plan.

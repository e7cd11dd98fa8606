----------------------------- MODULE PanelShell ----------------------------
(***************************************************************************)
(* The frame of the admin panel: AuthContext (who is signed in),           *)
(* TenantProvider (the tenants of the user and support mode), the routes   *)
(* with their guards and redirects, the permission matrix, and the two     *)
(* shells.  A document load forgets everything but the last tenant visited *)
(* (local storage) and the support cookie; two requests, for the session   *)
(* and for the tenants, then bring the state back while the address        *)
(* already points somewhere.                                               *)
(***************************************************************************)
EXTENDS Naturals, Sequences, FiniteSets, SequencesExt

CONSTANTS Tenants, NoTenant,
          Profiles,      \* what the session endpoint can say of the user
          Memberships,   \* roles a user can have in a tenant, {} for none
          Clicked,       \* platform modules that are opened, to bound the runs
          MaxSent,       \* bound on support calls and sign-ups of a document
          MaxLoads       \* bound on document loads

VARIABLES account,     \* the user behind the browser, as the server knows it
          member,      \* roles per tenant, as the server knows them
          status,      \* AuthContext: loading, in, anonymous
          mfa,         \* MfaAutoLogout: none, leaving, stuck
          profile,     \* the profile in the session
          list,        \* the request for the tenants: none, pending, answered, failed
          options,     \* tenantOptions: tenant -> roles
          created,     \* tenants signed up in this document
          path,        \* the address
          stored,      \* the last tenant visited, in local storage
          hops,        \* redirects since the user last moved
          override,    \* supportModeOverride
          cookie,      \* the tenant of the support cookie in the browser
          acts,        \* support activations in flight
          exits,       \* deactivations in flight, and whether their banner lives
          busy,        \* the banner says "Saliendo..."
          signups,     \* sign-ups in flight, and whether their form lives
          crash,       \* the module whose error the boundary of the shell shows
          sent, loads

userVars    == <<account, member>>
sessionVars == <<status, mfa, profile, list>>
tenantVars  == <<options, created>>
routeVars   == <<path, stored, hops, crash>>
supportVars == <<override, cookie, acts, exits, busy>>
vars == <<userVars, sessionVars, tenantVars, routeVars, supportVars, signups, sent, loads>>

-----------------------------------------------------------------------------
(* Roles and capabilities.  The capabilities of the platform differ only   *)
(* in their level, so they are two here.                                   *)
ROLES == <<"platform_owner", "owner", "admin", "manager", "agent", "viewer">>

RoleSet == Range(ROLES)

PERMISSIONS ==
    [tenant_setup_read  |-> [roles |-> {"admin", "owner"}, level |-> "R"],
     tenant_setup_write |-> [roles |-> {"admin", "owner"}, level |-> "RW"],
     team_read          |-> [roles |-> {"manager", "admin", "owner"}, level |-> "R"],
     team_write         |-> [roles |-> {"admin", "owner"}, level |-> "RW"],
     platform_read      |-> [roles |-> {"platform_owner"}, level |-> "R"],
     platform_write     |-> [roles |-> {"platform_owner"}, level |-> "RW"]]

Can(roles, cap, mode) ==
    /\ roles \cap PERMISSIONS[cap].roles # {}
    /\ mode = "RW" => PERMISSIONS[cap].level = "RW"

(* The first of a list that is in S, as a set: none if none is. *)
FirstIn(order, S) ==
    {order[i] : i \in {j \in DOMAIN order :
                         order[j] \in S /\ \A k \in 1 .. j - 1 : order[k] \notin S}}

HighestRole(roles) ==
    LET first == FirstIn(ROLES, roles)
    IN  IF first = {} THEN "viewer" ELSE CHOOSE r \in first : TRUE

ROLE_HOME(role) ==
    IF role = "platform_owner" THEN "platform-fleet" ELSE "tenant-setup"

(* Mutant: the navigation asks for less than the guard of the module. *)
AdminModuleRead(id) ==
    CASE id = "tenant-setup" -> ""
      [] id = "team"         -> "team_read"
      [] OTHER               -> "platform_read"

(* modules.js: the capability a module needs to be in the navigation; ""   *)
(* is none.                                                                *)
AdminModule(id) ==
    CASE id = "tenant-setup" -> ""
      [] id = "team"         -> "team_write"
      [] id \in {"platform-ai-providers", "platform-email-providers"} -> "platform_write"
      [] OTHER               -> "platform_read"

TENANT_NAV   == <<"tenant-setup", "team">>
PLATFORM_NAV == <<"platform-fleet", "platform-system-health", "platform-billing",
                  "platform-incidents", "platform-fleet-dlq", "platform-runbooks",
                  "platform-roles-acl", "platform-feature-flags",
                  "platform-ai-providers", "platform-email-providers">>
VIEWER_NAV   == <<>>

(* moduleRegistry.js: what it needs to be drawn. *)
MODULE_REGISTRY(id) ==
    CASE id = "tenant-setup" -> [capability |-> "", mode |-> "R"]
      [] id = "team"         -> [capability |-> "team_write", mode |-> "RW"]
      [] id \in {"platform-ai-providers", "platform-email-providers"} ->
            [capability |-> "platform_write", mode |-> "RW"]
      [] OTHER               -> [capability |-> "platform_read", mode |-> "R"]

Registered == Range(TENANT_NAV) \cup Range(PLATFORM_NAV)

IsModuleAccessible(id, roles) ==
    /\ id \in Registered
    /\ LET entry == MODULE_REGISTRY(id)
       IN  entry.capability = "" \/ Can(roles, entry.capability, entry.mode)

(* What the session says of a user names roles and tenants that exist; the *)
(* home of the platform is among the modules that are opened.              *)
ASSUME ShellAssumption ==
    /\ NoTenant \notin Tenants
    /\ Profiles \subseteq [roles : SUBSET RoleSet, claim : BOOLEAN,
                           tenant : Tenants \cup {NoTenant}, mfa : BOOLEAN]
    /\ Memberships \subseteq SUBSET RoleSet
    /\ "platform-fleet" \in Clicked
    /\ Clicked \subseteq Range(PLATFORM_NAV)
    /\ MaxSent \in Nat
    /\ MaxLoads \in Nat

-----------------------------------------------------------------------------
NoProfile == [roles |-> {}, claim |-> FALSE, tenant |-> NoTenant, mfa |-> FALSE]

LoggedIn    == status = "in"
GlobalRoles == profile.roles \cap {"owner", "platform_owner"}

(* Mutant: an override that is not compared with the tenant. *)
SupportModeAnywhere(t) == profile.claim \/ override # NoTenant

SupportMode(t) == profile.claim \/ (t # NoTenant /\ override = t)

(* resolveActiveRoles: the roles of the user in a tenant, or without one. *)
ActiveRoles(t) ==
    IF t = NoTenant THEN GlobalRoles
    ELSE options[t] \cup
         (IF SupportMode(t) /\ GlobalRoles # {}
          THEN profile.roles \cup
               (IF "platform_owner" \in GlobalRoles THEN {"owner"} ELSE {})
          ELSE {})

IsSystemOwner(t) == SupportMode(t) /\ GlobalRoles # {}

(* useActiveTenant: the tenant of the address, if the user has it. *)
ActiveTenant ==
    IF path.at = "tenant" /\ path.tenant \in DOMAIN options
    THEN path.tenant ELSE NoTenant

(* useTenantOptions: the option made of the profile, until the list is here. *)
Seed(p) == IF p.tenant = NoTenant THEN <<>> ELSE [t \in {p.tenant} |-> p.roles]

(* handleTenantCreated: a row is added or replaces the one with its id. *)
Upsert(t, roles) ==
    [u \in DOMAIN options \cup {t} |-> IF u = t THEN roles ELSE options[u]]

(* pickDefaultTenant; which tenant is the default, or first, is the server's *)
(* choice.                                                                 *)
DefaultTenants == IF stored \in DOMAIN options THEN {stored} ELSE DOMAIN options

(* resolveSafeHomeModule: the home of the role, else the first module of   *)
(* the navigation that can be opened; the set is empty when there is none. *)
NavOrder(role) == IF role = "viewer" THEN VIEWER_NAV ELSE TENANT_NAV

(* Mutant: the home of the role, be it in this navigation or not (BUG-011). *)
SafeHomeOfRole(roles) == {ROLE_HOME(HighestRole(roles))}

SafeHome(roles) ==
    LET role == HighestRole(roles)
        nav  == NavOrder(role)
        open == {id \in Range(nav) : IsModuleAccessible(id, roles)}
    IN  IF ROLE_HOME(role) \in open THEN {ROLE_HOME(role)} ELSE FirstIn(nav, open)

-----------------------------------------------------------------------------
(* Addresses.  The module "" is the index of its layout. *)
At(place)      == [at |-> place, tenant |-> NoTenant, module |-> ""]
Platform(id)   == [at |-> "platform", tenant |-> NoTenant, module |-> id]
Account(id)    == [at |-> "account", tenant |-> NoTenant, module |-> id]
TenantAt(t, id) == [at |-> "tenant", tenant |-> t, module |-> id]

Paths ==
    [at : {"root", "login", "no-tenant", "onboarding", "unknown"},
     tenant : {NoTenant}, module : {""}]
      \cup [at : {"platform"}, tenant : {NoTenant}, module : Clicked \cup {""}]
      \cup [at : {"account"}, tenant : {NoTenant}, module : {"", "profile"}]
      \cup [at : {"tenant"}, tenant : Tenants, module : Range(TENANT_NAV) \cup {""}]

(* Each route: the addresses it redirects to; none when it stays. *)
IndexRedirect ==
    IF ~LoggedIn \/ list = "pending" THEN {}
    ELSE IF HighestRole(ActiveRoles(NoTenant)) = "platform_owner" THEN {Platform("")}
    ELSE IF DOMAIN options = {} THEN {At("no-tenant")}
    ELSE {TenantAt(t, "tenant-setup") : t \in DefaultTenants}

NoTenantRoute ==
    IF ~LoggedIn THEN {At("root")}
    ELSE IF list # "pending" /\ DOMAIN options # {} THEN {At("root")} ELSE {}

OnboardingRoute == IF LoggedIn THEN {} ELSE {At("root")}

AccountRoute ==
    IF ~LoggedIn THEN {At("root")}
    ELSE IF path.module = "" THEN {Account("profile")} ELSE {}

PlatformRoute ==
    IF ~LoggedIn THEN {At("root")}
    ELSE IF /\ list # "pending"
            /\ HighestRole(ActiveRoles(NoTenant)) = "platform_owner"
            /\ path.module = ""
         THEN {Platform(ROLE_HOME("platform_owner"))} ELSE {}

TenantHomeRedirect ==
    {TenantAt(path.tenant, id) : id \in SafeHome(ActiveRoles(path.tenant))}

(* Mutant: the tenant is looked up while the list is on its way. *)
TenantScopeEager ==
    IF path.tenant \notin DOMAIN options THEN {At("root")}
    ELSE IF path.module = "" THEN TenantHomeRedirect ELSE {}

TenantScope ==
    IF list = "pending" THEN {}
    ELSE IF path.tenant \notin DOMAIN options THEN {At("root")}
    ELSE IF path.module = "" THEN TenantHomeRedirect ELSE {}

(* RootLayout draws no route before the session is known, or when it lacks *)
(* its second factor.                                                      *)
Redirects ==
    IF status = "loading" \/ mfa # "none" THEN {}
    ELSE CASE path.at = "root"       -> IndexRedirect
           [] path.at = "login"      -> {At("root")}
           [] path.at = "no-tenant"  -> NoTenantRoute
           [] path.at = "onboarding" -> OnboardingRoute
           [] path.at = "account"    -> AccountRoute
           [] path.at = "platform"   -> PlatformRoute
           [] path.at = "tenant"     -> TenantScope
           [] OTHER                  -> {}

(* ModuleScreen inside a shell: RequirePermission over the registry. *)
ModuleScreen ==
    IF IsModuleAccessible(path.module, ActiveRoles(ActiveTenant)) THEN "module" ELSE "denied"

(* What is on the screen where no redirect is pending. *)
Screen ==
    IF status = "loading" \/ mfa = "leaving" THEN "loading"
    ELSE IF mfa = "stuck" THEN "stuck"
    ELSE CASE path.at = "unknown"  -> "notFound"
           [] path.at = "platform" ->
                IF list = "pending" THEN "loading"
                ELSE IF HighestRole(ActiveRoles(NoTenant)) # "platform_owner" THEN "denied"
                ELSE ModuleScreen
           [] path.at = "tenant"   ->
                IF list = "pending" \/ ActiveTenant = NoTenant THEN "loading"
                ELSE IF path.module = "" THEN "noModule"
                ELSE IF path.module \notin Range(TENANT_NAV) THEN "notFound"
                ELSE ModuleScreen
           [] OTHER -> path.at

(* A shell with its navigation is on the screen. *)
InShell == Redirects = {} /\ Screen \in {"module", "denied"}
              /\ ~(path.at = "platform" /\ HighestRole(ActiveRoles(NoTenant)) # "platform_owner")

(* resolveNav without the denied items; the order of the sidebar.          *)
ResolveNav(nav, roles) ==
    {id \in Range(nav) : AdminModule(id) = "" \/ Can(roles, AdminModule(id), "R")}

ShellOrder == IF path.at = "platform" THEN PLATFORM_NAV ELSE TENANT_NAV

Offered == ResolveNav(ShellOrder, ActiveRoles(ActiveTenant))

(* The rail of small screens: the priority modules first, then the others  *)
(* in the order of the sidebar, five slots, the last one "Mas" when there  *)
(* are more.  An item is picked if few enough come before it.              *)
MAX_PRIMARY_SLOTS == 5
MOBILE_PRIMARY_PRIORITY ==
    <<"dashboard", "viewer-summary", "operations-desk", "viewer-conversations", "appointments",
      "viewer-appointments", "contacts", "manager-analytics", "viewer-analytics">>

PriorityItems == Range(MOBILE_PRIMARY_PRIORITY)

Precedes(order, a, b) ==
    \E j \in DOMAIN order : order[j] = b /\ \E i \in 1 .. j - 1 : order[i] = a

Before(a, b) ==
    IF {a, b} \cap PriorityItems = {} THEN Precedes(ShellOrder, a, b)
    ELSE a \in PriorityItems /\ (b \in PriorityItems => Precedes(MOBILE_PRIMARY_PRIORITY, a, b))

PickMobilePrimary(items, count) ==
    {id \in items : Cardinality({other \in items : Before(other, id)}) < count}

(* Mutant: the button "Mas" is not counted among the slots. *)
BottomRailFull(items) ==
    LET showMore == Cardinality(items) > MAX_PRIMARY_SLOTS
        rail     == PickMobilePrimary(items, MAX_PRIMARY_SLOTS)
    IN  [rail |-> rail, overflow |-> IF showMore THEN items \ rail ELSE {}, more |-> showMore]

BottomRail(items) ==
    LET showMore == Cardinality(items) > MAX_PRIMARY_SLOTS
        rail     == PickMobilePrimary(items, MAX_PRIMARY_SLOTS - IF showMore THEN 1 ELSE 0)
    IN  [rail |-> rail, overflow |-> IF showMore THEN items \ rail ELSE {}, more |-> showMore]

-----------------------------------------------------------------------------
Init ==
    /\ account \in Profiles
    /\ member \in [Tenants -> Memberships]
    /\ status = "loading"
    /\ mfa = "none"
    /\ profile = NoProfile
    /\ list = "none"
    /\ options = <<>>
    /\ created = {}
    /\ path \in Paths
    /\ stored \in Tenants \cup {NoTenant}
    /\ hops = 0
    /\ override = NoTenant
    /\ cookie = NoTenant
    /\ acts = {}
    /\ exits = {}
    /\ busy = FALSE
    /\ signups = {}
    /\ crash = ""
    /\ sent = 0
    /\ loads = 1

(* The effect of TenantScope: the tenant on the screen is remembered. *)
Remember ==
    stored' = IF path'.at = "tenant" /\ path'.tenant \in DOMAIN options'
              THEN path'.tenant ELSE stored

(* The layouts that survive a change of address.  The shells stay while    *)
(* their modules change; the boundary of the tenant shell has the module   *)
(* as its key, the one of the platform shell has none.                     *)
ShellStays(q) ==
    /\ path.at = q.at
    /\ path.at = "platform" \/ (path.at = "tenant" /\ path.module # "" /\ q.module # "")

BoundaryStays(q) == ShellStays(q) /\ (q.at = "tenant" => q.module = path.module)

Unmounted(calls) == {[c EXCEPT !.live = FALSE] : c \in calls}

(* The address becomes q: what its layout does not keep is unmounted. *)
GoWith(q, exs, sgs) ==
    /\ path' = q
    /\ crash' = IF BoundaryStays(q) THEN crash ELSE ""
    /\ IF ShellStays(q) THEN exits' = exs /\ UNCHANGED busy
                        ELSE exits' = Unmounted(exs) /\ busy' = FALSE
    /\ signups' = IF q.at = path.at THEN sgs ELSE Unmounted(sgs)
    /\ Remember

Go(q) == GoWith(q, exits, signups)

Send == sent < MaxSent /\ sent' = sent + 1

(* A document load: a link from outside, F5, the way back from a logout.   *)
Load(p) ==
    /\ loads < MaxLoads
    /\ loads' = loads + 1
    /\ status' = "loading"
    /\ mfa' = "none"
    /\ profile' = NoProfile
    /\ list' = "none"
    /\ options' = <<>>
    /\ created' = {}
    /\ path' = p
    /\ hops' = 0
    /\ override' = NoTenant
    /\ acts' = {}
    /\ exits' = {}
    /\ busy' = FALSE
    /\ signups' = {}
    /\ crash' = ""
    /\ UNCHANGED <<userVars, stored, cookie, sent>>

(* fetchAdminSession answers 200.  Without the second factor nothing is    *)
(* mounted but MfaAutoLogout; otherwise TenantProvider asks for the list.  *)
SessionFound ==
    /\ status = "loading"
    /\ status' = "in"
    /\ profile' = account
    /\ IF account.mfa
       THEN mfa' = "leaving" /\ UNCHANGED <<options, list>>
       ELSE /\ options' = Seed(account)
            /\ list' = "pending"
            /\ UNCHANGED mfa
    /\ path' = path
    /\ Remember
    /\ UNCHANGED <<userVars, created, hops, crash, supportVars, signups, sent, loads>>

(* It answers 401, or fails: the panel goes on without a session. *)
NoSession ==
    /\ status = "loading"
    /\ status' = "anonymous"
    /\ list' = "pending"
    /\ UNCHANGED <<userVars, mfa, profile, tenantVars, routeVars, supportVars,
                   signups, sent, loads>>

(* MfaAutoLogout: the logout is answered and the document loads again; or  *)
(* five seconds pass without an answer.                                    *)
MfaLoggedOut == mfa # "none" /\ Load(At("root"))

MfaStuck ==
    /\ mfa = "leaving"
    /\ mfa' = "stuck"
    /\ UNCHANGED <<userVars, status, profile, list, tenantVars, routeVars,
                   supportVars, signups, sent, loads>>

(* listMyTenants answers with the memberships, those created since it was  *)
(* asked or not.  An empty list leaves the seed where it is.               *)
ListAnswers(seen) ==
    /\ list = "pending"
    /\ LoggedIn
    /\ seen \subseteq {t \in Tenants : member[t] # {}}
    /\ {t \in Tenants \ created : member[t] # {}} \subseteq seen
    /\ list' = "answered"
    /\ options' = IF seen = {} THEN options ELSE [t \in seen |-> member[t]]
    /\ path' = path
    /\ Remember
    /\ UNCHANGED <<userVars, status, mfa, profile, created, hops, crash, supportVars,
                   signups, sent, loads>>

(* It fails: the seed stays. *)
ListFails ==
    /\ list = "pending"
    /\ list' = "failed"
    /\ UNCHANGED <<userVars, status, mfa, profile, tenantVars, routeVars, supportVars,
                   signups, sent, loads>>

(* <Navigate>: one redirect of the route on the screen. *)
Redirect ==
    /\ UNCHANGED <<userVars, sessionVars, tenantVars, override, cookie, acts, sent, loads>>
    /\ \E q \in Redirects : Go(q)
    /\ hops' = hops + 1

UserGoes(q) ==
    /\ q # path
    /\ UNCHANGED <<userVars, sessionVars, tenantVars, override, cookie, acts, sent, loads>>
    /\ Go(q)
    /\ hops' = 0

(* Back and forward, and the links and buttons that are always there: the  *)
(* router is mounted once the session is known.                            *)
History(q) == status # "loading" /\ mfa = "none" /\ UserGoes(q)

(* An item of the sidebar or of the bottom rail. *)
ModuleSelect(id) ==
    /\ InShell
    /\ id \in Offered
    /\ UserGoes(IF path.at = "platform" THEN Platform(id) ELSE TenantAt(path.tenant, id))

(* TenantSwitcher, for who has several tenants or is there in support mode. *)
TenantChange(t) ==
    /\ InShell
    /\ ActiveTenant # NoTenant
    /\ Cardinality(DOMAIN options) > 1 \/ IsSystemOwner(ActiveTenant)
    /\ t \in DOMAIN options
    /\ UserGoes(TenantAt(t, ""))

(* BackToPlatformButton. *)
BackToPlatform ==
    /\ InShell
    /\ ActiveTenant # NoTenant
    /\ IsSystemOwner(ActiveTenant)
    /\ UserGoes(Platform(""))

-----------------------------------------------------------------------------
(* "Ver como tenant" in the drawer of the fleet.  Nothing is disabled      *)
(* while the call is in flight.                                            *)
SupportInto(t) ==
    /\ InShell
    /\ path = Platform("platform-fleet")
    /\ Send
    /\ acts' = acts \cup {[n |-> sent + 1, tenant |-> t]}
    /\ UNCHANGED <<userVars, sessionVars, tenantVars, routeVars, override, cookie,
                   exits, busy, signups, loads>>

(* The call is answered: the browser has the cookie, the override is set,  *)
(* the row of the fleet, which has no roles, becomes the option of the     *)
(* tenant, and the user is taken there, wherever he is by now.             *)
SupportGranted(c) ==
    /\ c \in acts
    /\ acts' = acts \ {c}
    /\ cookie' = c.tenant
    /\ override' = c.tenant
    /\ options' = Upsert(c.tenant, {})
    /\ Go(TenantAt(c.tenant, ""))
    /\ hops' = 0
    /\ UNCHANGED <<userVars, sessionVars, created, sent, loads>>

SupportRefused(c) ==
    /\ c \in acts
    /\ acts' = acts \ {c}
    /\ UNCHANGED <<userVars, sessionVars, tenantVars, routeVars, override, cookie,
                   exits, busy, signups, sent, loads>>

(* Mutant: the row is kept under an id that it does not have (BUG-118). *)
EnterTenantNoId(t) ==
    /\ InShell
    /\ path = Platform("platform-fleet-dlq")
    /\ options' = Upsert(NoTenant, {})
    /\ Go(TenantAt(t, ""))
    /\ hops' = 0
    /\ UNCHANGED <<userVars, sessionVars, created, override, cookie, acts, sent, loads>>

(* "Entrar" in the dead letters of the fleet: no support mode is asked. *)
EnterTenant(t) ==
    /\ InShell
    /\ path = Platform("platform-fleet-dlq")
    /\ options' = Upsert(t, {})
    /\ Go(TenantAt(t, ""))
    /\ hops' = 0
    /\ UNCHANGED <<userVars, sessionVars, created, override, cookie, acts, sent, loads>>

(* "Salir de support mode": the override goes before the call is made. *)
ExitSupport ==
    /\ InShell
    /\ ActiveTenant # NoTenant
    /\ override = ActiveTenant
    /\ ~busy
    /\ Send
    /\ busy' = TRUE
    /\ override' = NoTenant
    /\ exits' = exits \cup {[n |-> sent + 1, live |-> TRUE]}
    /\ UNCHANGED <<userVars, sessionVars, tenantVars, routeVars, cookie, acts,
                   signups, loads>>

(* The call ends; it takes whatever support cookie is there, or it fails. *)
ExitEnds(c) ==
    /\ c \in exits
    /\ exits' = exits \ {c}
    /\ busy' = (busy /\ ~c.live)
    /\ cookie' \in {NoTenant, cookie}
    /\ UNCHANGED <<userVars, sessionVars, tenantVars, routeVars, override, acts,
                   signups, sent, loads>>

(* The cookie runs out; the banner counts down to it and stays. *)
CookieExpires ==
    /\ cookie # NoTenant
    /\ cookie' = NoTenant
    /\ UNCHANGED <<userVars, sessionVars, tenantVars, routeVars, override, acts, exits,
                   busy, signups, sent, loads>>

(* NegocioTab in the onboarding: one sign-up at a time per form. *)
SubmitSignup ==
    /\ LoggedIn
    /\ mfa = "none"
    /\ path.at = "onboarding"
    /\ \A c \in signups : ~c.live
    /\ Send
    /\ signups' = signups \cup {[n |-> sent + 1, live |-> TRUE]}
    /\ UNCHANGED <<userVars, sessionVars, tenantVars, routeVars, supportVars, loads>>

(* The tenant exists, its creator is its owner, and the panel goes there.  *)
SignedUp(c, t) ==
    /\ c \in signups
    /\ member[t] = {}
    /\ t \notin DOMAIN options
    /\ member' = [member EXCEPT ![t] = {"owner"}]
    /\ created' = created \cup {t}
    /\ options' = Upsert(t, {"owner"})
    /\ GoWith(TenantAt(t, ""), exits, signups \ {c})
    /\ hops' = 0
    /\ UNCHANGED <<account, sessionVars, override, cookie, acts, sent, loads>>

SignupFails(c) ==
    /\ c \in signups
    /\ signups' = signups \ {c}
    /\ UNCHANGED <<userVars, sessionVars, tenantVars, routeVars, supportVars, sent, loads>>

(* A module throws while it is drawn; "Reintentar" draws what is there now. *)
ModuleThrows ==
    /\ InShell
    /\ Screen = "module"
    /\ crash = ""
    /\ crash' = path.module
    /\ UNCHANGED <<userVars, sessionVars, tenantVars, path, stored, hops, supportVars,
                   signups, sent, loads>>

RetryModule ==
    /\ crash # ""
    /\ crash' = ""
    /\ UNCHANGED <<userVars, sessionVars, tenantVars, path, stored, hops, supportVars,
                   signups, sent, loads>>

Next ==
    \/ \E p \in Paths : Load(p) \/ History(p)
    \/ SessionFound
    \/ NoSession
    \/ MfaLoggedOut
    \/ MfaStuck
    \/ \E seen \in SUBSET Tenants : ListAnswers(seen)
    \/ ListFails
    \/ Redirect
    \/ \E id \in Clicked \cup Range(TENANT_NAV) : ModuleSelect(id)
    \/ \E t \in Tenants : TenantChange(t) \/ SupportInto(t) \/ EnterTenant(t)
    \/ BackToPlatform
    \/ \E c \in acts : SupportGranted(c) \/ SupportRefused(c)
    \/ ExitSupport
    \/ \E c \in exits : ExitEnds(c)
    \/ CookieExpires
    \/ SubmitSignup
    \/ \E c \in signups : SignupFails(c) \/ \E t \in Tenants : SignedUp(c, t)
    \/ ModuleThrows
    \/ RetryModule

Spec == Init /\ [][Next]_vars

-----------------------------------------------------------------------------
TypeOK ==
    /\ account \in Profiles
    /\ member \in [Tenants -> Memberships \cup {{"owner"}}]
    /\ status \in {"loading", "in", "anonymous"}
    /\ mfa \in {"none", "leaving", "stuck"}
    /\ profile \in Profiles \cup {NoProfile}
    /\ list \in {"none", "pending", "answered", "failed"}
    /\ DOMAIN options \subseteq Tenants
    /\ created \subseteq Tenants
    /\ path \in Paths
    /\ {stored, override, cookie} \subseteq Tenants \cup {NoTenant}
    /\ acts \subseteq [n : 1..MaxSent, tenant : Tenants]
    /\ exits \cup signups \subseteq [n : 1..MaxSent, live : BOOLEAN]
    /\ busy \in BOOLEAN
    /\ sent \in 0 .. MaxSent
    /\ hops \in Nat /\ loads \in Nat
    /\ crash \in Registered \cup {""}

(* The panel never shows a user more than he has: roles beyond his         *)
(* membership come from support mode, which without the permanent claim    *)
(* holds for the one tenant it was asked for, or from the profile while    *)
(* the list of tenants has not replaced it.                                *)
RolesAreEarned ==
    /\ \A t \in DOMAIN options : ~(ActiveRoles(t) \subseteq member[t]) =>
          \/ profile.claim
          \/ override = t
          \/ t = profile.tenant /\ (list # "answered" \/ \A u \in Tenants \ created : member[u] = {})
    /\ LoggedIn \/ (options = <<>> /\ ActiveRoles(NoTenant) = {})

(* A link into the panel survives the loading of the session and of the    *)
(* tenants: a user is sent back to "/" from a tenant he belongs to, or     *)
(* from the platform, only when he turned out not to be signed in or his   *)
(* tenants could not be read (BUG-185).  A tenant signed up before the     *)
(* list arrived is left out: the older list takes it away.                 *)
Welcome(p) ==
    /\ status # "anonymous"
    /\ \/ p.at \in {"platform", "account"}
       \/ p.at = "tenant" /\ member[p.tenant] # {} /\ p.tenant \notin created
            /\ list # "failed"

DeepLinkSurvives ==
    [][Redirect /\ path' = At("root") => ~Welcome(path)]_vars

(* Redirects end, and end somewhere: never on the 404 and never on a       *)
(* module that the user may not open (UI-018, BUG-011).                    *)
RedirectsLand ==
    /\ hops <= 3
    /\ hops > 0 /\ Redirects = {} => Screen \notin {"notFound", "denied"}

(* The navigation and the guards agree: what the sidebar offers can be     *)
(* opened where it leads.                                                  *)
NavIsHonest ==
    InShell => \A id \in Offered : IsModuleAccessible(id, ActiveRoles(ActiveTenant))

(* The rail of a small screen with its sheet offers what the sidebar does, *)
(* in five slots; the button of the sheet is there when it has something.  *)
RailIsWhole ==
    InShell =>
        LET rail == BottomRail(Offered)
        IN  /\ Offered = rail.rail \cup rail.overflow
            /\ Cardinality(rail.rail) + (IF rail.more THEN 1 ELSE 0) <= MAX_PRIMARY_SLOTS
            /\ rail.more <=> rail.overflow # {}

(* TenantShell.jsx:107-111 (BUG-097): the error of a module is not shown   *)
(* in another one.                                                         *)
CrashStaysInItsModule == Redirects = {} => crash \in {"", path.module}
=============================================================================

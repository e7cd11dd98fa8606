--------------------------- MODULE PanelShellProofs --------------------------
(***************************************************************************)
(* Proofs about PanelShell, for any tenants, users and memberships, and    *)
(* any number of requests and document loads: a user is shown only the     *)
(* roles he has, a link survives the loading, redirects end on a screen    *)
(* that exists and may be opened, and the rail leaves nothing out.         *)
(***************************************************************************)
EXTENDS PanelShell, FiniteSetTheorems, FunctionTheorems, TLAPS

(* An option shows what the server says, or is the one made of the profile *)
(* while no list with anything in it has replaced it; without a session    *)
(* there is nothing, nor anything on its way that would bring something.   *)
EarnedInv ==
    /\ \A t \in DOMAIN options :
          \/ options[t] \subseteq member[t]
          \/ /\ t = profile.tenant
             /\ list # "answered" \/ \A u \in Tenants \ created : member[u] = {}
    /\ LoggedIn \/ (options = <<>> /\ profile = NoProfile /\ acts = {} /\ signups = {})

(* The list is asked for once the session is known, and what it answered   *)
(* stays: no tenant of the user leaves the options after it.               *)
ListInv ==
    /\ status = "loading" => list = "none"
    /\ LoggedIn /\ mfa = "none" => list # "none"
    /\ list = "answered" =>
          \A t \in Tenants \ created : member[t] # {} => t \in DOMAIN options

(* The index of a layout has no module. *)
Index == ""

(* The user is at home in the platform. *)
OfThePlatform == HighestRole(GlobalRoles) = "platform_owner"

(* Where a chain of redirects can be after so many hops, and what was known *)
(* of the session and the tenants when it got there.                       *)
LandInv ==
    hops > 0 =>
       /\ status # "loading"
       /\ \/ path = At("root") /\ hops <= 1
          \/ /\ path = At("no-tenant") /\ hops <= 2
             /\ LoggedIn /\ list # "pending" /\ DOMAIN options = {}
          \/ path = Account("profile") /\ hops <= 1 /\ LoggedIn
          \/ /\ \/ path = Platform(Index) /\ hops <= 2
                \/ path = Platform("platform-fleet") /\ hops <= 3
             /\ LoggedIn /\ list # "pending"
             /\ OfThePlatform
          \/ /\ path.at = "tenant" /\ path.module = "tenant-setup" /\ hops <= 2
             /\ path.tenant \in DOMAIN options
             /\ LoggedIn /\ list # "pending"

(* The inductive invariant. *)
ShellInv == TypeOK /\ EarnedInv /\ ListInv /\ LandInv

-----------------------------------------------------------------------------
(* Roles, modules and addresses. *)

(* The first of a list that is in a set is one of the set. *)
LEMMA FirstIsIn ==
    ASSUME NEW order, NEW S
    PROVE  FirstIn(order, S) \subseteq S
BY DEF FirstIn

(* The highest role of a user is one of his, or the least there is. *)
LEMMA HighestIsHad ==
    ASSUME NEW roles
    PROVE  HighestRole(roles) \in roles \cup {"viewer"}
BY FirstIsIn DEF HighestRole

(* The home in a tenant is its setup, which anybody may open.              *)
LEMMA HomeIsSetup ==
    ASSUME NEW roles
    PROVE  SafeHome(roles) \subseteq {"tenant-setup"}
<1>. DEFINE open(nav) == {id \in Range(nav) : IsModuleAccessible(id, roles)}
<1>1. FirstIn(VIEWER_NAV, open(VIEWER_NAV)) = {} /\ Range(VIEWER_NAV) = {}
  BY DEF FirstIn, VIEWER_NAV, Range
<1>2. TENANT_NAV[1] = "tenant-setup" /\ Range(TENANT_NAV) = {"tenant-setup", "team"}
      /\ DOMAIN TENANT_NAV = 1 .. 2
  BY DEF TENANT_NAV, Range
<1>3. IsModuleAccessible("tenant-setup", roles)
  BY <1>2 DEF IsModuleAccessible, Registered, MODULE_REGISTRY
<1>4. FirstIn(TENANT_NAV, open(TENANT_NAV)) \subseteq {"tenant-setup"}
  BY <1>2, <1>3 DEF FirstIn
<1>5. ROLE_HOME(HighestRole(roles)) \in {"tenant-setup", "platform-fleet"}
  BY DEF ROLE_HOME
<1>. QED
  BY <1>1, <1>2, <1>4, <1>5 DEF SafeHome, NavOrder

(* The home of the platform may be opened by who is sent there. *)
LEMMA FleetIsOpen ==
    ASSUME NEW roles, HighestRole(roles) = "platform_owner"
    PROVE  IsModuleAccessible("platform-fleet", roles)
<1>1. "platform_owner" \in roles
  BY HighestIsHad
<1>2. "platform-fleet" \in Registered
  BY DEF Registered, PLATFORM_NAV, Range
<1>. QED
  BY <1>1, <1>2 DEF IsModuleAccessible, MODULE_REGISTRY, Can, PERMISSIONS

(* The modules of the two navigations, and the setup of a tenant. *)
LEMMA Navigations ==
    /\ Range(TENANT_NAV) = {"tenant-setup", "team"}
    /\ Range(TENANT_NAV) \cap Range(PLATFORM_NAV) = {}
    /\ "" \notin Registered
    /\ \A roles : IsModuleAccessible("tenant-setup", roles)
<1>1. Range(TENANT_NAV) = {"tenant-setup", "team"}
  BY DEF TENANT_NAV, Range
<1>2. Range(PLATFORM_NAV) =
        {"platform-fleet", "platform-system-health", "platform-billing",
         "platform-incidents", "platform-fleet-dlq", "platform-runbooks",
         "platform-roles-acl", "platform-feature-flags",
         "platform-ai-providers", "platform-email-providers"}
  BY DEF PLATFORM_NAV, Range
<1>. QED
  BY <1>1, <1>2 DEF Registered, IsModuleAccessible, MODULE_REGISTRY

(* The navigation and the guards are two tables, and they agree: whatever  *)
(* roles a user has, an item he is offered opens (modules.js,              *)
(* moduleRegistry.js).                                                     *)
LEMMA OfferedOpens ==
    ASSUME NEW roles, NEW nav \in {TENANT_NAV, PLATFORM_NAV}, NEW id \in ResolveNav(nav, roles)
    PROVE  IsModuleAccessible(id, roles)
<1>1. id \in Registered
  BY DEF ResolveNav, Registered
<1>2. AdminModule(id) = MODULE_REGISTRY(id).capability
  BY DEF AdminModule, MODULE_REGISTRY
<1>3. MODULE_REGISTRY(id).mode = "RW" /\ MODULE_REGISTRY(id).capability # "" =>
        PERMISSIONS[MODULE_REGISTRY(id).capability].level = "RW"
  BY DEF MODULE_REGISTRY, PERMISSIONS
<1>. QED
  BY <1>1, <1>2, <1>3 DEF ResolveNav, IsModuleAccessible, Can

-----------------------------------------------------------------------------
(* Addresses and redirects. *)

(* What an address is made of. *)
LEMMA Addresses ==
    ASSUME NEW p \in Paths
    PROVE  /\ p = [at |-> p.at, tenant |-> p.tenant, module |-> p.module]
           /\ p.at \in {"root", "login", "no-tenant", "onboarding", "unknown",
                        "account", "platform", "tenant"}
           /\ p.at = "tenant" => p.tenant \in Tenants
           /\ p.at = "platform" => p.module \in Clicked \cup {""}
           /\ p.at \notin {"tenant", "platform", "account"} => p.module = ""
BY DEF Paths

(* Where an address is, and in which module. *)
LEMMA Fields ==
    /\ \A p : At(p).at = p
    /\ \A id : Platform(id).at = "platform" /\ Platform(id).module = id
    /\ \A id : Account(id).at = "account" /\ Account(id).module = id
    /\ \A t, id : TenantAt(t, id).at = "tenant" /\ TenantAt(t, id).module = id
    /\ Index \notin {"profile", "platform-fleet", "tenant-setup"}
BY DEF At, Platform, Account, TenantAt, Index

(* The addresses that the routes redirect to, and the others that a click  *)
(* leads to, exist.                                                        *)
LEMMA AddressesExist ==
    /\ {At("root"), At("no-tenant"), Account("profile")} \subseteq Paths
    /\ {Platform(""), Platform("platform-fleet")} \subseteq Paths
    /\ \A id \in Clicked : Platform(id) \in Paths
    /\ \A t \in Tenants : \A id \in Range(TENANT_NAV) \cup {""} : TenantAt(t, id) \in Paths
<1>1. {At("root"), At("no-tenant")} \subseteq Paths
  BY DEF Paths, At
<1>2. Account("profile") \in Paths
  BY DEF Paths, Account
<1>3. Platform("") \in Paths /\ \A id \in Clicked : Platform(id) \in Paths
  BY DEF Paths, Platform
<1>4. \A t \in Tenants : \A id \in Range(TENANT_NAV) \cup {""} : TenantAt(t, id) \in Paths
  BY DEF Paths, TenantAt
<1>. QED
  BY <1>1, <1>2, <1>3, <1>4, ShellAssumption

(* A user is sent back to "/" ... *)
SentBack ==
    \/ path.at = "login"
    \/ path.at \in {"no-tenant", "onboarding", "account", "platform"} /\ ~LoggedIn
    \/ path.at = "no-tenant" /\ list # "pending" /\ DOMAIN options # {}
    \/ path.at = "tenant" /\ list # "pending" /\ path.tenant \notin DOMAIN options

(* ... or on from it, or from the index of a layout to its home. *)
SentOn(q) ==
    \/ /\ path.at = "root" /\ LoggedIn /\ list # "pending"
       /\ \/ q = Platform(Index) /\ OfThePlatform
          \/ q = At("no-tenant") /\ DOMAIN options = {}
          \/ \E t \in DOMAIN options : q = TenantAt(t, "tenant-setup")
    \/ /\ path.at = "account" /\ LoggedIn
       /\ path.module = Index /\ q = Account("profile")
    \/ /\ path.at = "platform" /\ LoggedIn /\ list # "pending"
       /\ OfThePlatform
       /\ path.module = Index /\ q = Platform("platform-fleet")
    \/ /\ path.at = "tenant" /\ list # "pending" /\ path.tenant \in DOMAIN options
       /\ path.module = Index /\ q = TenantAt(path.tenant, "tenant-setup")

(* These are all the redirects there are. *)
LEMMA RedirectsAre ==
    ASSUME path \in Paths
    PROVE  /\ Redirects # {} => status # "loading" /\ mfa = "none"
           /\ \A q \in Redirects : (q = At("root") /\ SentBack) \/ SentOn(q)
<1>. USE DEF SentBack, SentOn, OfThePlatform, Index
<1>1. Redirects # {} => status # "loading" /\ mfa = "none"
  BY Zenon DEF Redirects
<1>2. ASSUME NEW q \in Redirects
      PROVE  (q = At("root") /\ SentBack) \/ SentOn(q)
  <2>. ~(status = "loading" \/ mfa # "none")
    BY <1>1, <1>2
  <2>1. CASE path.at = "root"
    <3>1. q \in IndexRedirect
      BY <2>1 DEF Redirects
    <3>2. ActiveRoles(NoTenant) = GlobalRoles
      BY DEF ActiveRoles
    <3>3. DefaultTenants \subseteq DOMAIN options
      BY DEF DefaultTenants
    <3>. QED
      BY <2>1, <3>1, <3>2, <3>3 DEF IndexRedirect
  <2>2. CASE path.at = "login"
    BY <2>2 DEF Redirects
  <2>3. CASE path.at = "no-tenant"
    <3>1. q \in NoTenantRoute
      BY <2>3 DEF Redirects
    <3>. QED
      BY <2>3, <3>1 DEF NoTenantRoute
  <2>4. CASE path.at = "onboarding"
    <3>1. q \in OnboardingRoute
      BY <2>4 DEF Redirects
    <3>. QED
      BY <2>4, <3>1 DEF OnboardingRoute
  <2>5. CASE path.at = "account"
    <3>1. q \in AccountRoute
      BY <2>5 DEF Redirects
    <3>. QED
      BY <2>5, <3>1 DEF AccountRoute
  <2>6. CASE path.at = "platform"
    <3>1. q \in PlatformRoute
      BY <2>6 DEF Redirects
    <3>2. ActiveRoles(NoTenant) = GlobalRoles
      BY DEF ActiveRoles
    <3>3. ROLE_HOME("platform_owner") = "platform-fleet"
      BY DEF ROLE_HOME
    <3>. QED
      BY <2>6, <3>1, <3>2, <3>3 DEF PlatformRoute
  <2>7. CASE path.at = "tenant"
    <3>1. q \in TenantScope
      BY <2>7 DEF Redirects
    <3>2. \A r \in TenantHomeRedirect : r = TenantAt(path.tenant, "tenant-setup")
      BY HomeIsSetup DEF TenantHomeRedirect
    <3>. QED
      BY <2>7, <3>1, <3>2 DEF TenantScope
  <2>8. CASE path.at = "unknown"
    BY <2>8 DEF Redirects
  <2>. QED
    BY <2>1, <2>2, <2>3, <2>4, <2>5, <2>6, <2>7, <2>8, Addresses
<1>. QED
  BY <1>1, <1>2

(* A redirect leads to an address that exists. *)
LEMMA RedirectsExist ==
    ASSUME TypeOK, NEW q \in Redirects
    PROVE  q \in Paths
<1>1. DOMAIN options \subseteq Tenants /\ path \in Paths
  BY DEF TypeOK
<1>2. \A t \in DOMAIN options : TenantAt(t, "tenant-setup") \in Paths
  BY <1>1, AddressesExist, Navigations
<1>3. q = At("root") \/ SentOn(q)
  BY <1>1, RedirectsAre
<1>. QED
  BY <1>2, <1>3, AddressesExist DEF SentOn, Index

-----------------------------------------------------------------------------
(* What a change of address does, and who can make one. *)

(* Requests that wait in a component: the component is there, or was left. *)
Waiting == [n : 1 .. MaxSent, live : BOOLEAN]

(* A component that is left loses none of its requests. *)
LEMMA UnmountedWait ==
    ASSUME NEW calls \in SUBSET Waiting
    PROVE  Unmounted(calls) \subseteq Waiting /\ (calls = {} => Unmounted(calls) = {})
BY DEF Unmounted, Waiting

(* A change of address keeps the types. *)
LEMMA GoTypes ==
    ASSUME TypeOK, NEW q \in Paths,
           NEW exs \in SUBSET Waiting, NEW sgs \in SUBSET Waiting,
           GoWith(q, exs, sgs), DOMAIN options' \subseteq Tenants
    PROVE  /\ path' = q /\ path' \in Paths
           /\ stored' \in Tenants \cup {NoTenant}
           /\ exits' \cup signups' \subseteq Waiting
           /\ busy' \in BOOLEAN
           /\ crash' \in Registered \cup {""}
           /\ sgs = {} => signups' = {}
<1>1. path' = q
  BY DEF GoWith
<1>2. stored' \in Tenants \cup {NoTenant}
  BY DEF GoWith, Remember, TypeOK
<1>3. exits' \in {exs, Unmounted(exs)} /\ busy' \in {busy, FALSE}
  BY DEF GoWith
<1>4. signups' \in {sgs, Unmounted(sgs)}
  BY DEF GoWith
<1>5. crash' \in {crash, ""}
  BY DEF GoWith
<1>. QED
  BY <1>1, <1>2, <1>3, <1>4, <1>5, UnmountedWait DEF TypeOK

(* The platform shell is drawn for who is signed in, and no shell while    *)
(* the second factor is missing.                                           *)
LEMMA ShellOfTheUser ==
    ASSUME TypeOK, InShell
    PROVE  /\ status # "loading" /\ mfa \notin {"leaving", "stuck"}
           /\ path.at \in {"platform", "tenant"}
           /\ path.at = "platform" => LoggedIn
<1>1. status # "loading" /\ mfa # "leaving" /\ mfa # "stuck"
  BY Zenon DEF InShell, Screen
<1>. path \in Paths /\ mfa \in {"none", "leaving", "stuck"}
  BY DEF TypeOK
<1>2. path.at \in {"platform", "tenant"}
  BY <1>1, Addresses DEF InShell, Screen
<1>3. path.at = "platform" => LoggedIn
  BY <1>1 DEF InShell, Redirects, PlatformRoute
<1>. QED
  BY <1>1, <1>2, <1>3

(* A module that is drawn is registered. *)
LEMMA ModuleIsRegistered ==
    ASSUME TypeOK, Screen = "module"
    PROVE  path.module \in Registered
<1>1. path \in Paths
  BY DEF TypeOK
<1>2. ModuleScreen = "module"
  BY <1>1, Addresses DEF Screen
<1>. QED
  BY <1>2 DEF ModuleScreen, IsModuleAccessible

(* A request that may be sent has a number. *)
LEMMA SendTypes ==
    ASSUME sent \in 0 .. MaxSent, Send
    PROVE  sent + 1 \in 1 .. MaxSent /\ sent' \in 0 .. MaxSent
<1>1. MaxSent \in Nat
  BY ShellAssumption
<1>. QED
  BY <1>1 DEF Send

(* The three ways in which the user changes the address by himself. *)
LEMMA UserStays ==
    ASSUME TypeOK, NEW q \in Paths, UserGoes(q)
    PROVE  TypeOK'
<1>1. GoWith(q, exits, signups) /\ DOMAIN options' \subseteq Tenants
  BY DEF UserGoes, Go, TypeOK, tenantVars
<1>2. exits \in SUBSET Waiting /\ signups \in SUBSET Waiting
  BY DEF TypeOK, Waiting
<1>3. /\ path' \in Paths /\ stored' \in Tenants \cup {NoTenant}
      /\ exits' \cup signups' \subseteq Waiting
      /\ busy' \in BOOLEAN /\ crash' \in Registered \cup {""}
  BY <1>1, <1>2, GoTypes
<1>4. UNCHANGED <<userVars, sessionVars, tenantVars, override, cookie, acts, sent, loads>> /\ hops' = 0
  BY DEF UserGoes
<1>. QED
  BY <1>3, <1>4 DEF TypeOK, Waiting, userVars, sessionVars, tenantVars

(* The user is taken to a tenant that becomes an option: support mode, or  *)
(* the dead letters.                                                       *)
Enters(t) ==
    /\ options' = Upsert(t, {})
    /\ Go(TenantAt(t, ""))
    /\ hops' = 0
    /\ UNCHANGED <<userVars, sessionVars, created, sent, loads>>

(* Every step keeps the types. *)
LEMMA TypeStep ==
    ASSUME TypeOK, [Next]_vars
    PROVE  TypeOK'
<1>. USE DEF userVars, sessionVars, tenantVars, routeVars, supportVars
<1>0. /\ exits \in SUBSET Waiting /\ signups \in SUBSET Waiting
      /\ path \in Paths /\ DOMAIN options \subseteq Tenants
  BY DEF TypeOK, Waiting
<1>1. ASSUME NEW p \in Paths, Load(p)
      PROVE  TypeOK'
  <2>1. loads \in Nat
    BY DEF TypeOK
  <2>2. loads' = loads + 1 /\ hops' = 0 /\ options' = <<>>
    BY <1>1, Zenon DEF Load
  <2>3. loads' \in Nat /\ hops' \in Nat /\ DOMAIN options' \subseteq Tenants
    BY <2>1, <2>2
  <2>. QED
    BY <1>1, <2>3 DEF TypeOK, Load
<1>2. CASE MfaLoggedOut
  BY <1>1, <1>2, AddressesExist DEF MfaLoggedOut
<1>3. CASE SessionFound
  <2>1. account \in Profiles /\ account.tenant \in Tenants \cup {NoTenant}
    BY ShellAssumption DEF TypeOK
  <2>2. DOMAIN Seed(account) \subseteq Tenants
    BY <2>1 DEF Seed
  <2>3. DOMAIN options' \subseteq Tenants
    BY <1>0, <1>3, <2>2 DEF SessionFound
  <2>4. stored' \in Tenants \cup {NoTenant}
    BY <1>3, <2>3 DEF SessionFound, Remember, TypeOK
  <2>5. list' \in {"none", "pending", "answered", "failed"} /\ mfa' \in {"none", "leaving", "stuck"}
    BY <1>3 DEF SessionFound, TypeOK
  <2>. QED
    BY <1>3, <2>1, <2>3, <2>4, <2>5 DEF SessionFound, TypeOK
<1>4. CASE NoSession \/ MfaStuck \/ ListFails
  BY <1>4 DEF NoSession, MfaStuck, ListFails, TypeOK
<1>5. ASSUME NEW seen \in SUBSET Tenants, ListAnswers(seen)
      PROVE  TypeOK'
  <2>1. DOMAIN options' \subseteq Tenants
    BY <1>0, <1>5 DEF ListAnswers
  <2>2. stored' \in Tenants \cup {NoTenant}
    BY <1>5, <2>1 DEF ListAnswers, Remember, TypeOK
  <2>. QED
    BY <1>5, <2>1, <2>2 DEF ListAnswers, TypeOK
<1>6. CASE Redirect
  <2>1. PICK q \in Redirects : Go(q)
    BY <1>6 DEF Redirect
  <2>2. q \in Paths
    BY RedirectsExist
  <2>3. DOMAIN options' \subseteq Tenants
    BY <1>0, <1>6 DEF Redirect
  <2>4. /\ path' \in Paths /\ stored' \in Tenants \cup {NoTenant}
        /\ exits' \cup signups' \subseteq Waiting
        /\ busy' \in BOOLEAN /\ crash' \in Registered \cup {""}
    BY <1>0, <2>1, <2>2, <2>3, GoTypes DEF Go
  <2>5. UNCHANGED <<userVars, sessionVars, tenantVars, override, cookie, acts, sent, loads>>
        /\ hops' = hops + 1
    BY <1>6 DEF Redirect
  <2>6. hops \in Nat
    BY DEF TypeOK
  <2>7. hops' \in Nat
    BY <2>5, <2>6
  <2>. QED
    BY <2>4, <2>5, <2>7 DEF TypeOK, Waiting
<1>7. ASSUME NEW q \in Paths, History(q)
      PROVE  TypeOK'
  BY <1>7, UserStays DEF History
<1>8. ASSUME NEW id \in Clicked \cup Range(TENANT_NAV), ModuleSelect(id)
      PROVE  TypeOK'
  <2>1. CASE path.at = "platform"
    <3>1. id \in Range(PLATFORM_NAV)
      BY <1>8, <2>1 DEF ModuleSelect, Offered, ResolveNav, ShellOrder
    <3>2. Platform(id) \in Paths
      BY <3>1, AddressesExist, Navigations
    <3>. QED
      BY <1>8, <2>1, <3>2, UserStays DEF ModuleSelect
  <2>2. CASE path.at # "platform"
    <3>1. id \in Range(TENANT_NAV)
      BY <1>8, <2>2 DEF ModuleSelect, Offered, ResolveNav, ShellOrder
    <3>2. path.tenant \in Tenants
      BY <1>0, <1>8, <2>2, ShellOfTheUser, Addresses DEF ModuleSelect
    <3>3. TenantAt(path.tenant, id) \in Paths
      BY <3>1, <3>2, AddressesExist
    <3>. QED
      BY <1>8, <2>2, <3>3, UserStays DEF ModuleSelect
  <2>. QED
    BY <2>1, <2>2
<1>9. ASSUME NEW t \in Tenants, TenantChange(t)
      PROVE  TypeOK'
  BY <1>9, AddressesExist, UserStays DEF TenantChange
<1>10. CASE BackToPlatform
  BY <1>10, AddressesExist, UserStays DEF BackToPlatform
<1>11. ASSUME NEW t \in Tenants, Enters(t),
              {override', cookie'} \subseteq Tenants \cup {NoTenant},
              acts' \subseteq acts
       PROVE  TypeOK'
  <2>1. TenantAt(t, "") \in Paths
    BY AddressesExist
  <2>2. DOMAIN options' \subseteq Tenants
    BY <1>0, <1>11 DEF Enters, Upsert
  <2>3. /\ path' \in Paths /\ stored' \in Tenants \cup {NoTenant}
        /\ exits' \cup signups' \subseteq Waiting
        /\ busy' \in BOOLEAN /\ crash' \in Registered \cup {""}
    BY <1>0, <1>11, <2>1, <2>2, GoTypes DEF Enters, Go
  <2>4. UNCHANGED <<userVars, sessionVars, created, sent, loads>> /\ hops' = 0
    BY <1>11 DEF Enters
  <2>. QED
    BY <1>11, <2>2, <2>3, <2>4 DEF TypeOK, Waiting
<1>12. ASSUME NEW t \in Tenants, EnterTenant(t)
       PROVE  TypeOK'
  BY <1>11, <1>12 DEF EnterTenant, Enters, TypeOK
<1>13. ASSUME NEW c \in acts, SupportGranted(c)
       PROVE  TypeOK'
  <2>1. c.tenant \in Tenants
    BY DEF TypeOK
  <2>. QED
    BY <1>11, <1>13, <2>1 DEF SupportGranted, Enters
<1>14. ASSUME NEW t \in Tenants, SupportInto(t)
       PROVE  TypeOK'
  <2>1. [n |-> sent + 1, tenant |-> t] \in [n : 1 .. MaxSent, tenant : Tenants]
    BY <1>14, SendTypes DEF SupportInto, TypeOK
  <2>2. sent' \in 0 .. MaxSent
    BY <1>14, SendTypes DEF SupportInto, TypeOK
  <2>. QED
    BY <1>14, <2>1, <2>2 DEF SupportInto, TypeOK
<1>15. ASSUME NEW c \in acts, SupportRefused(c)
       PROVE  TypeOK'
  BY <1>15 DEF SupportRefused, TypeOK
<1>16. ASSUME Send
       PROVE  sent' \in 0 .. MaxSent /\ [n |-> sent + 1, live |-> TRUE] \in Waiting
  BY <1>16, SendTypes DEF Waiting, TypeOK
<1>17. CASE ExitSupport
  BY <1>16, <1>17 DEF ExitSupport, Waiting, TypeOK
<1>18. ASSUME NEW c \in exits, ExitEnds(c)
       PROVE  TypeOK'
  <2>1. c.live \in BOOLEAN
    BY DEF TypeOK
  <2>2. busy' \in BOOLEAN
    BY <1>18, <2>1 DEF ExitEnds, TypeOK
  <2>. QED
    BY <1>18, <2>2 DEF ExitEnds, TypeOK
<1>19. CASE CookieExpires
  BY <1>19 DEF CookieExpires, TypeOK
<1>20. CASE SubmitSignup
  BY <1>16, <1>20 DEF SubmitSignup, Waiting, TypeOK
<1>21. ASSUME NEW c \in signups, SignupFails(c)
       PROVE  TypeOK'
  BY <1>21 DEF SignupFails, TypeOK
<1>22. ASSUME NEW c \in signups, NEW t \in Tenants, SignedUp(c, t)
       PROVE  TypeOK'
  <2>1. TenantAt(t, "") \in Paths
    BY AddressesExist
  <2>2. DOMAIN options' \subseteq Tenants
    BY <1>0, <1>22 DEF SignedUp, Upsert
  <2>3. signups \ {c} \in SUBSET Waiting
    BY <1>0
  <2>4. /\ path' \in Paths /\ stored' \in Tenants \cup {NoTenant}
        /\ exits' \cup signups' \subseteq Waiting
        /\ busy' \in BOOLEAN /\ crash' \in Registered \cup {""}
    BY <1>0, <1>22, <2>1, <2>2, <2>3, GoTypes DEF SignedUp
  <2>5. /\ member' \in [Tenants -> Memberships \cup {{"owner"}}]
        /\ created' \subseteq Tenants /\ hops' = 0
        /\ UNCHANGED <<account, sessionVars, override, cookie, acts, sent, loads>>
    BY <1>22 DEF SignedUp, TypeOK
  <2>. QED
    BY <2>2, <2>4, <2>5 DEF TypeOK, Waiting
<1>23. CASE ModuleThrows
  BY <1>23, ModuleIsRegistered DEF ModuleThrows, TypeOK
<1>24. CASE RetryModule
  BY <1>24 DEF RetryModule, TypeOK
<1>25. CASE UNCHANGED vars
  BY <1>25 DEF vars, TypeOK
<1>. QED
  BY <1>1, <1>2, <1>3, <1>4, <1>5, <1>6, <1>7, <1>8, <1>9, <1>10, <1>12, <1>13,
     <1>14, <1>15, <1>17, <1>18, <1>19, <1>20, <1>21, <1>22, <1>23, <1>24, <1>25 DEF Next

-----------------------------------------------------------------------------
(* The kinds of steps, by what they do to what the panel knows. *)

(* A document load forgets. *)
Forgets ==
    /\ status' = "loading" /\ mfa' = "none" /\ profile' = NoProfile /\ list' = "none"
    /\ options' = <<>> /\ created' = {} /\ acts' = {} /\ signups' = {} /\ hops' = 0
    /\ member' = member

(* The address changes and nothing else of this. *)
Moves ==
    /\ UNCHANGED <<userVars, sessionVars, tenantVars, acts>>
    /\ signups = {} => signups' = {}
    /\ hops' = 0 \/ Redirect

(* A tenant becomes an option of who is signed in. *)
EntersHere ==
    /\ LoggedIn
    /\ \E t \in Tenants : Enters(t)

(* Nothing is learned; what was asked may have failed. *)
Idles ==
    /\ UNCHANGED <<member, status, profile, options, created, path, hops>>
    /\ list' = list \/ (list = "pending" /\ list' = "failed")
    /\ mfa' = "none" => mfa = "none"
    /\ LoggedIn \/ (acts' \subseteq acts /\ signups' \subseteq signups)

(* A user who goes somewhere only moves. *)
LEMMA UserMoves ==
    ASSUME TypeOK, NEW q, UserGoes(q)
    PROVE  Moves
<1>1. signups = {} => signups' = {}
  BY UnmountedWait DEF UserGoes, Go, GoWith
<1>. QED
  BY <1>1 DEF UserGoes, Moves

(* Every step is of one of these kinds, or is one of the answers that say  *)
(* who the user is and what tenants he has.                                *)
LEMMA StepKinds ==
    ASSUME TypeOK, EarnedInv, [Next]_vars
    PROVE  \/ Forgets \/ Moves \/ EntersHere \/ Idles
           \/ SessionFound \/ NoSession
           \/ \E seen \in SUBSET Tenants : ListAnswers(seen)
           \/ \E c \in signups : \E t \in Tenants : LoggedIn /\ SignedUp(c, t)
<1>. USE DEF userVars, sessionVars, tenantVars, routeVars, supportVars
<1>1. ASSUME NEW p, Load(p)
      PROVE  Forgets
  BY <1>1, Zenon DEF Load, Forgets
<1>2. CASE MfaLoggedOut
  BY <1>1, <1>2 DEF MfaLoggedOut
<1>3. CASE MfaStuck \/ ListFails \/ CookieExpires \/ ExitSupport \/ ModuleThrows \/ RetryModule
  BY <1>3 DEF MfaStuck, ListFails, CookieExpires, ExitSupport, ModuleThrows, RetryModule, Idles
<1>4. CASE Redirect
  <2>1. signups = {} => signups' = {}
    BY <1>4, UnmountedWait DEF Redirect, Go, GoWith
  <2>. QED
    BY <1>4, <2>1 DEF Redirect, Moves
<1>5. ASSUME NEW q, History(q)
      PROVE  Moves
  BY <1>5, UserMoves DEF History
<1>6. ASSUME NEW id, ModuleSelect(id)
      PROVE  Moves
  BY <1>6, UserMoves DEF ModuleSelect
<1>7. ASSUME NEW t, TenantChange(t)
      PROVE  Moves
  BY <1>7, UserMoves DEF TenantChange
<1>8. CASE BackToPlatform
  BY <1>8, UserMoves DEF BackToPlatform
<1>9. ASSUME NEW t, SupportInto(t)
      PROVE  Idles
  <2>1. LoggedIn
    BY <1>9, ShellOfTheUser DEF SupportInto, Platform
  <2>. QED
    BY <1>9, <2>1 DEF SupportInto, Idles
<1>10. ASSUME NEW t \in Tenants, EnterTenant(t)
       PROVE  EntersHere
  <2>1. LoggedIn
    BY <1>10, ShellOfTheUser DEF EnterTenant, Platform
  <2>. QED
    BY <1>10, <2>1 DEF EnterTenant, EntersHere, Enters
<1>11. ASSUME NEW c \in acts, SupportGranted(c)
       PROVE  EntersHere
  <2>1. LoggedIn /\ c.tenant \in Tenants
    BY DEF EarnedInv, TypeOK
  <2>2. Enters(c.tenant)
    BY <1>11 DEF SupportGranted, Enters
  <2>. QED
    BY <2>1, <2>2 DEF EntersHere
<1>12. ASSUME NEW c, SupportRefused(c) \/ ExitEnds(c) \/ SignupFails(c)
       PROVE  Idles
  BY <1>12 DEF SupportRefused, ExitEnds, SignupFails, Idles
<1>13. CASE SubmitSignup
  BY <1>13 DEF SubmitSignup, Idles
<1>14. ASSUME NEW c \in signups, NEW t \in Tenants, SignedUp(c, t)
       PROVE  LoggedIn
  BY DEF EarnedInv
<1>15. CASE UNCHANGED vars
  BY <1>15 DEF vars, Idles
<1>. QED
  BY <1>1, <1>2, <1>3, <1>4, <1>5, <1>6, <1>7, <1>8, <1>9, <1>10, <1>11, <1>12, <1>13,
     <1>14, <1>15 DEF Next

-----------------------------------------------------------------------------
(* Every step keeps the invariant. *)

(* What a user may see: an option comes from the server, or the profile.   *)
LEMMA EarnedStep ==
    ASSUME TypeOK, EarnedInv, ListInv, [Next]_vars
    PROVE  EarnedInv'
<1>. USE DEF userVars, sessionVars, tenantVars
<1>1. CASE Forgets
  BY <1>1 DEF Forgets, EarnedInv
<1>2. CASE Moves
  BY <1>2 DEF Moves, EarnedInv, LoggedIn
<1>3. CASE EntersHere
  <2>1. PICK t \in Tenants : Enters(t)
    BY <1>3 DEF EntersHere
  <2>2. LoggedIn' /\ UNCHANGED <<member, profile, list, created>>
    BY <1>3, <2>1 DEF EntersHere, Enters, LoggedIn
  <2>3. options' = Upsert(t, {})
    BY <2>1 DEF Enters
  <2>4. ASSUME NEW u \in DOMAIN options'
        PROVE  options'[u] = {} \/ (u \in DOMAIN options /\ options'[u] = options[u])
    BY <2>3, <2>4 DEF Upsert
  <2>. QED
    BY <2>2, <2>4 DEF EarnedInv
<1>4. CASE Idles
  BY <1>4 DEF Idles, EarnedInv, LoggedIn
<1>5. CASE SessionFound
  <2>1. /\ LoggedIn' /\ UNCHANGED <<member, created>> /\ profile' = account
        /\ list' \in {"none", "pending"}
    BY <1>5 DEF SessionFound, LoggedIn, ListInv
  <2>2. options' = options \/ options' = Seed(account)
    BY <1>5 DEF SessionFound
  <2>3. options = <<>>
    BY <1>5 DEF SessionFound, EarnedInv, LoggedIn
  <2>4. \A t \in DOMAIN options' : t = profile'.tenant
    BY <2>1, <2>2, <2>3 DEF Seed
  <2>. QED
    BY <2>1, <2>4 DEF EarnedInv
<1>6. CASE NoSession
  <2>1. options' = <<>> /\ profile' = NoProfile /\ acts' = {} /\ signups' = {}
    BY <1>6 DEF NoSession, supportVars, EarnedInv, LoggedIn
  <2>. QED
    BY <2>1 DEF EarnedInv
<1>7. ASSUME NEW seen \in SUBSET Tenants, ListAnswers(seen)
      PROVE  EarnedInv'
  <2>1. LoggedIn' /\ UNCHANGED <<member, created, profile>>
    BY <1>7 DEF ListAnswers, LoggedIn
  <2>2. CASE seen = {}
    <3>1. options' = options /\ \A u \in Tenants \ created : member[u] = {}
      BY <1>7, <2>2 DEF ListAnswers
    <3>. QED
      BY <2>1, <3>1 DEF EarnedInv
  <2>3. CASE seen # {}
    <3>1. options' = [t \in seen |-> member[t]]
      BY <1>7, <2>3 DEF ListAnswers
    <3>. QED
      BY <2>1, <3>1 DEF EarnedInv
  <2>. QED
    BY <2>2, <2>3
<1>8. ASSUME NEW c \in signups, NEW t \in Tenants, LoggedIn, SignedUp(c, t)
      PROVE  EarnedInv'
  <2>1. LoggedIn' /\ UNCHANGED <<profile, list>>
    BY <1>8 DEF SignedUp, LoggedIn
  <2>2. options' = Upsert(t, {"owner"}) /\ created' = created \cup {t} /\ t \notin DOMAIN options
    BY <1>8 DEF SignedUp
  <2>3. member' = [member EXCEPT ![t] = {"owner"}] /\ DOMAIN member = Tenants
    BY <1>8 DEF SignedUp, TypeOK
  <2>4. member'[t] = {"owner"} /\ \A u \in Tenants \ {t} : member'[u] = member[u]
    BY <2>3
  <2>5. DOMAIN options \subseteq Tenants
    BY DEF TypeOK
  <2>6. ASSUME NEW u \in DOMAIN options'
        PROVE  \/ options'[u] \subseteq member'[u]
               \/ /\ u = profile.tenant
                  /\ list # "answered" \/ \A v \in Tenants \ created : member[v] = {}
    <3>1. CASE u = t
      BY <2>2, <2>4, <3>1 DEF Upsert
    <3>2. CASE u # t
      <4>1. u \in DOMAIN options /\ options'[u] = options[u]
        BY <2>2, <2>6, <3>2 DEF Upsert
      <4>2. member'[u] = member[u]
        BY <2>4, <2>5, <3>2, <4>1
      <4>. QED
        BY <4>1, <4>2 DEF EarnedInv
    <3>. QED
      BY <3>1, <3>2
  <2>7. (\A v \in Tenants \ created : member[v] = {}) =>
            \A v \in Tenants \ created' : member'[v] = {}
    BY <2>2, <2>4
  <2>. QED
    BY <2>1, <2>6, <2>7 DEF EarnedInv
<1>. QED
  BY <1>1, <1>2, <1>3, <1>4, <1>5, <1>6, <1>7, <1>8, StepKinds

(* The list is asked for once, and what it brought stays. *)
LEMMA ListStep ==
    ASSUME TypeOK, EarnedInv, ListInv, [Next]_vars
    PROVE  ListInv'
<1>. USE DEF userVars, sessionVars, tenantVars
<1>1. CASE Forgets
  BY <1>1 DEF Forgets, ListInv, LoggedIn
<1>2. CASE Moves
  BY <1>2 DEF Moves, ListInv, LoggedIn
<1>3. CASE EntersHere
  <2>1. PICK t \in Tenants : Enters(t)
    BY <1>3 DEF EntersHere
  <2>2. UNCHANGED <<member, status, mfa, list, created>>
    BY <2>1 DEF Enters
  <2>3. DOMAIN options \subseteq DOMAIN options'
    BY <2>1 DEF Enters, Upsert
  <2>. QED
    BY <2>2, <2>3 DEF ListInv, LoggedIn
<1>4. CASE Idles
  BY <1>4 DEF Idles, ListInv, LoggedIn, TypeOK
<1>5. CASE SessionFound
  <2>1. status' = "in" /\ list' \in {"none", "pending"} /\ (mfa' = "none" => list' = "pending")
    BY <1>5 DEF SessionFound, ListInv
  <2>. QED
    BY <2>1 DEF ListInv
<1>6. CASE NoSession
  BY <1>6 DEF NoSession, ListInv, LoggedIn
<1>7. ASSUME NEW seen \in SUBSET Tenants, ListAnswers(seen)
      PROVE  ListInv'
  <2>1. status' = "in" /\ list' = "answered" /\ UNCHANGED <<member, created>>
    BY <1>7 DEF ListAnswers, LoggedIn
  <2>2. {t \in Tenants \ created : member[t] # {}} \subseteq seen
    BY <1>7 DEF ListAnswers
  <2>3. seen # {} => DOMAIN options' = seen
    BY <1>7 DEF ListAnswers
  <2>. QED
    BY <2>1, <2>2, <2>3 DEF ListInv
<1>8. ASSUME NEW c \in signups, NEW t \in Tenants, LoggedIn, SignedUp(c, t)
      PROVE  ListInv'
  <2>1. UNCHANGED <<status, mfa, list>> /\ created' = created \cup {t}
    BY <1>8 DEF SignedUp
  <2>2. DOMAIN options \subseteq DOMAIN options'
    BY <1>8 DEF SignedUp, Upsert
  <2>3. \A u \in Tenants \ {t} : member'[u] = member[u]
    BY <1>8 DEF SignedUp, TypeOK
  <2>. QED
    BY <2>1, <2>2, <2>3 DEF ListInv, LoggedIn
<1>. QED
  BY <1>1, <1>2, <1>3, <1>4, <1>5, <1>6, <1>7, <1>8, StepKinds

(* A redirect from where redirects have led leads on, and only so far.     *)
LEMMA RedirectLands ==
    ASSUME TypeOK, EarnedInv, LandInv, Redirect
    PROVE  LandInv'
<1>1. PICK q \in Redirects : Go(q)
  BY DEF Redirect
<1>2. /\ path' = q /\ hops' = hops + 1
      /\ UNCHANGED <<status, list, options, profile>>
  BY <1>1 DEF Redirect, Go, GoWith, sessionVars, tenantVars
<1>3. path \in Paths /\ hops \in Nat
  BY DEF TypeOK
<1>4. status # "loading" /\ ((q = At("root") /\ SentBack) \/ SentOn(q))
  BY <1>1, <1>3, RedirectsAre
<1>5. DOMAIN options # {} => LoggedIn
  BY DEF EarnedInv
<1>6. ASSUME hops > 0
      PROVE  /\ path.at = "root" => hops <= 1
             /\ path.at = "no-tenant" => LoggedIn /\ DOMAIN options = {}
             /\ path.at = "account" => LoggedIn /\ path.module # Index
             /\ path.at = "platform" => LoggedIn /\ (path.module = Index => hops <= 2)
             /\ path.at = "tenant" => path.tenant \in DOMAIN options /\ path.module # Index
             /\ path.at \notin {"login", "onboarding"}
  BY <1>6, Fields DEF LandInv
<1>7. CASE q = At("root") /\ SentBack
  <2>1. hops = 0
    BY <1>3, <1>6, <1>7 DEF SentBack
  <2>2. hops' = 1
    BY <1>2, <2>1
  <2>. QED
    BY <1>2, <1>4, <1>7, <2>2 DEF LandInv
<1>8. CASE SentOn(q)
  <2>1. OfThePlatform' = OfThePlatform /\ LoggedIn' = LoggedIn
    BY <1>2 DEF OfThePlatform, GlobalRoles, LoggedIn
  <2>2. CASE path.at = "root"
    <3>1. hops' <= 2
      BY <1>2, <1>3, <1>6, <2>2
    <3>2. hops' <= 3
      BY <1>2, <1>3, <3>1
    <3>. QED
      BY <1>2, <1>4, <1>8, <2>1, <2>2, <3>1, <3>2 DEF SentOn, LandInv, TenantAt
  <2>3. CASE path.at = "account"
    <3>1. hops = 0
      BY <1>3, <1>6, <1>8, <2>3 DEF SentOn
    <3>2. hops' = 1
      BY <1>2, <3>1
    <3>. QED
      BY <1>2, <1>4, <1>8, <2>1, <2>3, <3>2 DEF SentOn, LandInv
  <2>4. CASE path.at = "platform"
    <3>1. hops <= 2
      BY <1>3, <1>6, <1>8, <2>4 DEF SentOn
    <3>2. hops' <= 3
      BY <1>2, <1>3, <3>1
    <3>. QED
      BY <1>2, <1>4, <1>8, <2>1, <2>4, <3>2 DEF SentOn, LandInv
  <2>5. CASE path.at = "tenant"
    <3>1. hops = 0
      BY <1>3, <1>6, <1>8, <2>5 DEF SentOn
    <3>2. hops' <= 2
      BY <1>2, <3>1
    <3>. QED
      BY <1>2, <1>4, <1>5, <1>8, <2>1, <2>5, <3>2 DEF SentOn, LandInv, TenantAt
  <2>. QED
    BY <1>8, <2>2, <2>3, <2>4, <2>5 DEF SentOn
<1>. QED
  BY <1>4, <1>7, <1>8

(* Where redirects have led stays a place to be. *)
LEMMA LandStep ==
    ASSUME TypeOK, EarnedInv, LandInv, [Next]_vars
    PROVE  LandInv'
<1>. USE DEF userVars, sessionVars, tenantVars
<1>1. ASSUME hops' = 0
      PROVE  LandInv'
  BY <1>1 DEF LandInv
<1>2. CASE Forgets \/ EntersHere
  BY <1>1, <1>2 DEF Forgets, EntersHere, Enters
<1>3. CASE Moves
  BY <1>1, <1>3, RedirectLands DEF Moves
<1>4. CASE Idles
  <2>1. UNCHANGED <<status, profile, options, path, hops>> /\ (list # "pending" => list' # "pending")
    BY <1>4 DEF Idles
  <2>2. OfThePlatform' = OfThePlatform /\ LoggedIn' = LoggedIn
    BY <2>1 DEF OfThePlatform, GlobalRoles, LoggedIn
  <2>. QED
    BY <2>1, <2>2 DEF LandInv
<1>5. CASE SessionFound \/ NoSession
  <2>1. hops' = hops /\ status = "loading"
    BY <1>5 DEF SessionFound, NoSession, routeVars
  <2>. QED
    BY <2>1 DEF LandInv
<1>6. ASSUME NEW seen \in SUBSET Tenants, ListAnswers(seen)
      PROVE  LandInv'
  <2>1. /\ list = "pending" /\ path' = path
        /\ UNCHANGED <<status, hops>>
    BY <1>6 DEF ListAnswers
  <2>2. LoggedIn' = LoggedIn
    BY <2>1 DEF LoggedIn
  <2>. QED
    BY <2>1, <2>2 DEF LandInv
<1>7. ASSUME NEW c \in signups, NEW t \in Tenants, LoggedIn, SignedUp(c, t)
      PROVE  LandInv'
  BY <1>1, <1>7 DEF SignedUp
<1>. QED
  BY <1>2, <1>3, <1>4, <1>5, <1>6, <1>7, StepKinds

-----------------------------------------------------------------------------
(* The invariant holds when the document is first loaded. *)
LEMMA ShellInit == Init => ShellInv
<1>. SUFFICES ASSUME Init
              PROVE  ShellInv
  OBVIOUS
<1>1. sent = 0 /\ hops = 0 /\ loads = 1 /\ options = <<>>
  BY DEF Init
<1>2. MaxSent \in Nat
  BY ShellAssumption
<1>3. sent \in 0 .. MaxSent /\ hops \in Nat /\ loads \in Nat /\ ~(hops > 0)
      /\ DOMAIN options \subseteq Tenants
  BY <1>1, <1>2
<1>4. TypeOK
  BY <1>3 DEF Init, TypeOK
<1>5. /\ status = "loading" /\ profile = NoProfile /\ list = "none"
      /\ acts = {} /\ signups = {}
  BY Zenon DEF Init
<1>6. EarnedInv /\ ListInv
  BY <1>1, <1>5 DEF EarnedInv, ListInv, LoggedIn
<1>7. LandInv
  BY <1>3 DEF LandInv
<1>. QED
  BY <1>4, <1>6, <1>7 DEF ShellInv

(* What the panel shows of a user, what its list of tenants holds and how  *)
(* far its redirects have led fit together whatever he does and whenever   *)
(* the session, the tenants and support mode are answered.                 *)
THEOREM ShellInvariant == Spec => []ShellInv
<1>1. ShellInv /\ [Next]_vars => ShellInv'
  BY TypeStep, EarnedStep, ListStep, LandStep DEF ShellInv
<1>. QED
  BY ShellInit, <1>1, PTL DEF Spec

(* Every variable of the shell has its type: among them, every address and *)
(* every redirect is one of the routes.                                    *)
THEOREM ShellTypeCorrect == Spec => []TypeOK
<1>1. ShellInv => TypeOK
  BY DEF ShellInv
<1>. QED
  BY <1>1, ShellInvariant, PTL

(* Nobody is shown roles that he does not have (resolveActiveRoles,        *)
(* TenantProvider).                                                        *)
THEOREM RolesAreEarnedHolds == Spec => []RolesAreEarned
<1>1. ASSUME ShellInv
      PROVE  RolesAreEarned
  <2>1. ASSUME NEW t \in DOMAIN options, ~profile.claim, override # t
        PROVE  ActiveRoles(t) = options[t]
    <3>1. t # NoTenant
      BY <1>1, ShellAssumption DEF ShellInv, TypeOK
    <3>. QED
      BY <2>1, <3>1 DEF ActiveRoles, SupportMode
  <2>2. LoggedIn \/ (options = <<>> /\ ActiveRoles(NoTenant) = {})
    BY <1>1 DEF ShellInv, EarnedInv, NoProfile, ActiveRoles, GlobalRoles
  <2>. QED
    BY <1>1, <2>1, <2>2 DEF ShellInv, EarnedInv, RolesAreEarned
<1>. QED
  BY <1>1, ShellInvariant, PTL

(* A chain of redirects is at most three long and ends on a screen that    *)
(* exists and that the user may see (router.jsx, resolveSafeHomeModule.js).*)
THEOREM RedirectsLandHolds == Spec => []RedirectsLand
<1>1. ASSUME ShellInv
      PROVE  hops <= 3
  <2>1. hops \in Nat /\ (hops > 0 => hops <= 1 \/ hops <= 2 \/ hops <= 3)
    BY <1>1 DEF ShellInv, TypeOK, LandInv
  <2>. QED
    BY <2>1
<1>2. ASSUME ShellInv, hops > 0, Redirects = {}
      PROVE  Screen \notin {"notFound", "denied"}
  <2>1. status # "loading" /\ path \in Paths /\ mfa \in {"none", "leaving", "stuck"}
    BY <1>2 DEF ShellInv, LandInv, TypeOK
  <2>2. CASE mfa # "none"
    BY <2>1, <2>2 DEF Screen
  <2>3. CASE path.at \in {"root", "no-tenant", "account"}
    <3>1. Screen \in {"loading", "stuck", path.at}
      BY <2>3 DEF Screen
    <3>. QED
      BY <2>3, <3>1
  <2>4. CASE mfa = "none" /\ path.at = "platform"
    <3>1. /\ path = Platform(Index) \/ path = Platform("platform-fleet")
          /\ LoggedIn /\ list # "pending" /\ OfThePlatform
      BY <1>2, <2>4, Fields DEF ShellInv, LandInv
    <3>2. ActiveRoles(NoTenant) = GlobalRoles /\ ActiveTenant = NoTenant
      BY <2>4 DEF ActiveRoles, ActiveTenant
    <3>3. path.module # ""
      BY <1>2, <2>1, <2>4, <3>1, <3>2 DEF Redirects, PlatformRoute, OfThePlatform
    <3>4. path.module = "platform-fleet"
      BY <3>1, <3>3, Fields DEF Index
    <3>5. ModuleScreen = "module"
      BY <3>1, <3>2, <3>4, FleetIsOpen DEF ModuleScreen, OfThePlatform
    <3>. QED
      BY <2>1, <2>4, <3>1, <3>2, <3>5 DEF Screen, OfThePlatform
  <2>5. CASE mfa = "none" /\ path.at = "tenant"
    <3>1. /\ path.module = "tenant-setup" /\ path.tenant \in DOMAIN options
          /\ list # "pending"
      BY <1>2, <2>5, Fields DEF ShellInv, LandInv
    <3>2. ActiveTenant = path.tenant /\ path.tenant \in Tenants
      BY <2>1, <2>5, <3>1, Addresses DEF ActiveTenant
    <3>3. ActiveTenant # NoTenant
      BY <3>2, ShellAssumption
    <3>4. ModuleScreen = "module"
      BY <3>1, Navigations DEF ModuleScreen
    <3>. QED
      BY <2>1, <2>5, <3>1, <3>3, <3>4, Navigations DEF Screen
  <2>6. path.at \in {"root", "no-tenant", "account", "platform", "tenant"}
    BY <1>2, Fields DEF ShellInv, LandInv
  <2>. QED
    BY <2>1, <2>2, <2>3, <2>4, <2>5, <2>6
<1>3. ShellInv => RedirectsLand
  BY <1>1, <1>2 DEF RedirectsLand
<1>. QED
  BY <1>3, ShellInvariant, PTL

(* A link into the panel survives the loading: whoever is signed in is     *)
(* sent back to "/" only from a tenant he does not belong to, or when his  *)
(* tenants could not be read (BUG-185).                                    *)
THEOREM DeepLinkSurvivesHolds == Spec => DeepLinkSurvives
<1>1. ASSUME ShellInv, Redirect, path' = At("root")
      PROVE  ~Welcome(path)
  <2>1. PICK q \in Redirects : Go(q)
    BY <1>1 DEF Redirect
  <2>2. path' = q
    BY <2>1 DEF Go, GoWith
  <2>3. path \in Paths /\ status \in {"loading", "in", "anonymous"}
    BY <1>1 DEF ShellInv, TypeOK
  <2>4. status # "loading" /\ mfa = "none"
    BY <2>1, <2>3, RedirectsAre
  <2>5. ~SentOn(q)
    BY <1>1, <2>2, Fields DEF SentOn
  <2>6. SentBack
    BY <2>1, <2>3, <2>5, RedirectsAre
  <2>7. ASSUME LoggedIn, path.at = "tenant", list # "failed", path.tenant \notin created
        PROVE  member[path.tenant] = {}
    <3>1. path.tenant \in Tenants
      BY <2>3, <2>7, Addresses
    <3>2. list # "pending" /\ path.tenant \notin DOMAIN options
      BY <2>6, <2>7 DEF SentBack
    <3>3. list = "answered"
      BY <1>1, <2>4, <2>7, <3>2 DEF ShellInv, ListInv, TypeOK
    <3>. QED
      BY <1>1, <2>7, <3>1, <3>2, <3>3 DEF ShellInv, ListInv
  <2>8. ASSUME LoggedIn
        PROVE  path.at \notin {"platform", "account"}
    BY <2>6, <2>8 DEF SentBack
  <2>. QED
    BY <2>3, <2>4, <2>7, <2>8 DEF Welcome, LoggedIn
<1>2. ShellInv /\ [Next]_vars => [Redirect /\ path' = At("root") => ~Welcome(path)]_vars
  BY <1>1
<1>. QED
  BY <1>2, ShellInvariant, PTL DEF Spec, DeepLinkSurvives

(* What a shell offers can be opened where it leads, for any roles: the    *)
(* navigation and the guards are two tables (modules.js,                   *)
(* moduleRegistry.js) that must not disagree.                              *)
THEOREM NavIsHonestHolds == Spec => []NavIsHonest
<1>1. NavIsHonest
  BY OfferedOpens DEF NavIsHonest, Offered, ShellOrder
<1>. QED
  BY <1>1, PTL

-----------------------------------------------------------------------------
(* The rail of small screens. *)

(* The order of the sidebar names each module once, and none that comes    *)
(* first on a small screen.                                                *)
LEMMA NavIsAnOrder ==
    /\ DOMAIN ShellOrder = 1 .. Len(ShellOrder) /\ Len(ShellOrder) \in Nat
    /\ \A i, j \in DOMAIN ShellOrder : ShellOrder[i] = ShellOrder[j] => i = j
    /\ Range(ShellOrder) \cap Range(MOBILE_PRIMARY_PRIORITY) = {}
<1>1. \A i, j \in DOMAIN ShellOrder : ShellOrder[i] = ShellOrder[j] => i = j
  BY DEF ShellOrder, TENANT_NAV, PLATFORM_NAV
<1>2. ASSUME NEW i \in DOMAIN ShellOrder, NEW j \in DOMAIN MOBILE_PRIMARY_PRIORITY
      PROVE  ShellOrder[i] # MOBILE_PRIMARY_PRIORITY[j]
  BY <1>2 DEF ShellOrder, TENANT_NAV, PLATFORM_NAV, MOBILE_PRIMARY_PRIORITY
<1>3. DOMAIN ShellOrder = 1 .. Len(ShellOrder) /\ Len(ShellOrder) \in Nat
  <2>1. CASE path.at = "platform"
    <3>1. ShellOrder = PLATFORM_NAV
      BY <2>1 DEF ShellOrder
    <3>2. Len(PLATFORM_NAV) = 10 /\ DOMAIN PLATFORM_NAV = 1 .. 10
      BY DEF PLATFORM_NAV
    <3>. QED
      BY <3>1, <3>2
  <2>2. CASE path.at # "platform"
    <3>1. ShellOrder = TENANT_NAV
      BY <2>2 DEF ShellOrder
    <3>2. Len(TENANT_NAV) = 2 /\ DOMAIN TENANT_NAV = 1 .. 2
      BY DEF TENANT_NAV
    <3>. QED
      BY <3>1, <3>2
  <2>. QED
    BY <2>1, <2>2
<1>. QED
  BY <1>1, <1>2, <1>3 DEF Range

(* There is one order on what is offered: each item has one place. *)
LEMMA BeforeIsAnOrder ==
    ASSUME NEW items, items \subseteq Range(ShellOrder)
    PROVE  /\ \A a \in items : ~Before(a, a)
           /\ \A a, b \in items : a # b => Before(a, b) \/ Before(b, a)
           /\ \A a, b, c \in items : Before(a, b) /\ Before(b, c) => Before(a, c)
<1>1. \A a, b \in items : Before(a, b) <=> Precedes(ShellOrder, a, b)
  <2>1. \A a \in items : a \notin PriorityItems
    BY NavIsAnOrder DEF PriorityItems
  <2>. QED
    BY <2>1 DEF Before
<1>2. \A a \in items : \E i \in DOMAIN ShellOrder : ShellOrder[i] = a
  BY DEF Range
<1>3. DOMAIN ShellOrder \subseteq Nat
  BY NavIsAnOrder
<1>4. \A a \in items : ~Precedes(ShellOrder, a, a)
  BY <1>3, NavIsAnOrder DEF Precedes
<1>5. \A a, b \in items : a # b => Precedes(ShellOrder, a, b) \/ Precedes(ShellOrder, b, a)
  BY <1>2, NavIsAnOrder DEF Precedes
<1>6. \A a, b, c \in items :
          Precedes(ShellOrder, a, b) /\ Precedes(ShellOrder, b, c) => Precedes(ShellOrder, a, c)
  BY <1>3, NavIsAnOrder DEF Precedes
<1>. QED
  BY <1>1, <1>4, <1>5, <1>6

(* What is picked for the rail is not more than was asked for, and all     *)
(* there is when there is no more: the number of items before one tells    *)
(* the picked ones apart, so the pigeonholes are as many.                  *)
LEMMA PickedFit ==
    ASSUME NEW items, items \subseteq Range(ShellOrder), IsFiniteSet(items), NEW count \in Nat
    PROVE  /\ PickMobilePrimary(items, count) \subseteq items
           /\ IsFiniteSet(PickMobilePrimary(items, count))
           /\ Cardinality(PickMobilePrimary(items, count)) <= count
           /\ Cardinality(items) <= count => PickMobilePrimary(items, count) = items
<1>. DEFINE ahead(id) == {other \in items : Before(other, id)}
            picked    == PickMobilePrimary(items, count)
            place     == [id \in picked |-> Cardinality(ahead(id))]
<1>1. picked = {id \in items : Cardinality(ahead(id)) < count}
  BY DEF PickMobilePrimary
<1>2. IsFiniteSet(picked) /\ Cardinality(items) \in Nat
  BY <1>1, FS_Subset, FS_CardinalityType
<1>3. \A id \in items : IsFiniteSet(ahead(id)) /\ Cardinality(ahead(id)) \in Nat
  BY FS_Subset, FS_CardinalityType
<1>4. \A a, b \in items : Before(a, b) => Cardinality(ahead(a)) < Cardinality(ahead(b))
  <2>. SUFFICES ASSUME NEW a \in items, NEW b \in items, Before(a, b)
                PROVE  Cardinality(ahead(a)) < Cardinality(ahead(b))
    OBVIOUS
  <2>1. ahead(a) \subseteq ahead(b)
    BY BeforeIsAnOrder
  <2>2. a \in ahead(b) /\ a \notin ahead(a)
    BY BeforeIsAnOrder
  <2>3. Cardinality(ahead(a)) <= Cardinality(ahead(b)) /\ Cardinality(ahead(a)) # Cardinality(ahead(b))
    BY <1>3, <2>1, <2>2, FS_Subset
  <2>. QED
    BY <1>3, <2>3
<1>5. Cardinality(picked) <= count
  <2>1. \A a, b \in picked : place[a] = place[b] => a = b
    <3>. SUFFICES ASSUME NEW a \in picked, NEW b \in picked, place[a] = place[b], a # b
                  PROVE  FALSE
      OBVIOUS
    <3>1. a \in items /\ b \in items
      BY <1>1
    <3>2. Before(a, b) \/ Before(b, a)
      BY <3>1, BeforeIsAnOrder
    <3>3. Cardinality(ahead(a)) # Cardinality(ahead(b))
      BY <1>3, <1>4, <3>1, <3>2
    <3>. QED
      BY <3>3
  <2>2. place \in [picked -> 0 .. count - 1]
    <3>1. ASSUME NEW a \in picked
          PROVE  Cardinality(ahead(a)) \in 0 .. count - 1
      <4>1. Cardinality(ahead(a)) \in Nat /\ Cardinality(ahead(a)) < count
        BY <1>1, <1>3
      <4>. QED
        BY <4>1
    <3>. QED
      BY <3>1
  <2>3. place \in Injection(picked, 0 .. count - 1)
    <3>. HIDE DEF place
    <3>. QED
      BY <2>1, <2>2, Fun_IsInj
  <2>4. IsFiniteSet(0 .. count - 1) /\ Cardinality(0 .. count - 1) = count
    BY FS_Interval
  <2>5. Cardinality(picked) <= Cardinality(0 .. count - 1)
    BY <2>3, <2>4, FS_Injection
  <2>. QED
    BY <2>4, <2>5
<1>6. ASSUME Cardinality(items) <= count
      PROVE  picked = items
  <2>1. ASSUME NEW id \in items
        PROVE  Cardinality(ahead(id)) < count
    <3>1. ahead(id) \subseteq items /\ ahead(id) # items
      BY BeforeIsAnOrder
    <3>2. Cardinality(ahead(id)) <= Cardinality(items) /\ Cardinality(ahead(id)) # Cardinality(items)
      BY <3>1, FS_Subset
    <3>3. Cardinality(ahead(id)) \in Nat
      BY <1>3
    <3>. HIDE DEF ahead
    <3>. QED
      BY <1>2, <1>6, <3>2, <3>3
  <2>. QED
    BY <1>1, <2>1
<1>. QED
  BY <1>1, <1>2, <1>5, <1>6

(* A small screen offers all that the sidebar does, in five slots, for any *)
(* roles (ShellBottomNav.jsx, pickMobilePrimary; BUG-087).                 *)
THEOREM RailIsWholeHolds == Spec => []RailIsWhole
<1>1. RailIsWhole
  <2>1. Offered \subseteq Range(ShellOrder)
    BY DEF Offered, ResolveNav
  <2>2. IsFiniteSet(Offered) /\ Cardinality(Offered) \in Nat
    <3>1. IsFiniteSet(DOMAIN ShellOrder)
      BY NavIsAnOrder, FS_Interval
    <3>2. ShellOrder \in [DOMAIN ShellOrder -> Range(ShellOrder)]
      BY DEF Range, ShellOrder, TENANT_NAV, PLATFORM_NAV
    <3>3. ShellOrder \in Surjection(DOMAIN ShellOrder, Range(ShellOrder))
      BY <3>2, Fun_RangeProperties
    <3>4. IsFiniteSet(Range(ShellOrder))
      BY <3>1, <3>3, FS_Surjection
    <3>. QED
      BY <2>1, <3>4, FS_Subset, FS_CardinalityType
  <2>. DEFINE all  == PickMobilePrimary(Offered, 5)
              four == PickMobilePrimary(Offered, 4)
  <2>3. /\ all \subseteq Offered /\ IsFiniteSet(all) /\ Cardinality(all) <= 5
        /\ Cardinality(Offered) <= 5 => all = Offered
    BY <2>1, <2>2, PickedFit
  <2>4. four \subseteq Offered /\ IsFiniteSet(four) /\ Cardinality(four) <= 4
    BY <2>1, <2>2, PickedFit
  <2>5. Cardinality(all) \in Nat /\ Cardinality(four) \in Nat
    BY <2>3, <2>4, FS_CardinalityType
  <2>6. CASE Cardinality(Offered) > 5
    <3>1. BottomRail(Offered) = [rail |-> four, overflow |-> Offered \ four, more |-> TRUE]
      <4>1. MAX_PRIMARY_SLOTS = 5 /\ Cardinality(Offered) > MAX_PRIMARY_SLOTS
        BY <2>6 DEF MAX_PRIMARY_SLOTS
      <4>2. MAX_PRIMARY_SLOTS - (IF Cardinality(Offered) > MAX_PRIMARY_SLOTS THEN 1 ELSE 0) = 4
        BY <4>1
      <4>. QED
        BY <4>1, <4>2 DEF BottomRail
    <3>2. Offered \ four # {}
      <4>1. Offered # four
        BY <2>4, <2>5, <2>6
      <4>. QED
        BY <2>4, <4>1
    <3>. QED
      BY <2>4, <2>5, <3>1, <3>2 DEF RailIsWhole, MAX_PRIMARY_SLOTS
  <2>7. CASE ~(Cardinality(Offered) > 5)
    <3>1. /\ BottomRail(Offered).rail = all /\ BottomRail(Offered).overflow = {}
          /\ ~BottomRail(Offered).more
      <4>1. MAX_PRIMARY_SLOTS = 5 /\ ~(Cardinality(Offered) > MAX_PRIMARY_SLOTS)
        BY <2>7 DEF MAX_PRIMARY_SLOTS
      <4>2. MAX_PRIMARY_SLOTS - (IF Cardinality(Offered) > MAX_PRIMARY_SLOTS THEN 1 ELSE 0) = 5
        BY <4>1
      <4>. QED
        BY <4>1, <4>2 DEF BottomRail
    <3>. QED
      BY <2>2, <2>3, <2>5, <2>7, <3>1 DEF RailIsWhole, MAX_PRIMARY_SLOTS
  <2>. QED
    BY <2>6, <2>7
<1>. QED
  BY <1>1, PTL
=============================================================================

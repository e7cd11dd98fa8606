---------------------------- MODULE PanelReads ----------------------------
(***************************************************************************)
(* The platform pages of the admin panel as readers of the API.  The       *)
(* router mounts one page at a time; every page owns one list hook, and    *)
(* two own a second one: the runbook viewer reads the runbook that is      *)
(* selected, and the fleet drawer reads the modules of the tenant that is  *)
(* selected.  The forms and dialogs of the pages are in DlqRetry,          *)
(* ProviderForms and FleetDrawer, which extend this module; PanelPages     *)
(* puts them together.                                                     *)
(***************************************************************************)
EXTENDS Naturals, FiniteSets

CONSTANTS Filters,   \* what a list can be filtered by
          NoFilter,
          Items,     \* what a row stands for: a runbook, a tenant, a provider
          NoItem,
          MaxReads,    \* bound on the requests of the list hook
          MaxDetails,  \* bound on the requests of the second hook
          MaxLeft      \* bound on what is in flight when a page is left

ASSUME MaxReadsAssumption == MaxReads \in Nat \ {0}
ASSUME MaxDetailsAssumption == MaxDetails \in Nat \ {0}
ASSUME MaxLeftAssumption == MaxLeft \in Nat
ASSUME FiltersAssumption  == Filters # {}
ASSUME NoKeysAssumption   == NoFilter \notin Filters /\ NoItem \notin Items

VARIABLES page,                                          \* what the router shows
          lKey, lGen, lCalls, lData, lLoading, lFailed,  \* hook of the list
          dKey, dGen, dCalls, dData, dLoading, dFailed,  \* hook of the detail
          left                                           \* see Submission

listVars   == <<lKey, lGen, lCalls, lData, lLoading, lFailed>>
detailVars == <<dKey, dGen, dCalls, dData, dLoading, dFailed>>
readVars   == <<page, left, listVars, detailVars>>

NoPage == "none"

(* The pages of the platform shell that read from the API. *)
Pages == {"fleet", "dlq", "incidents", "runbooks", "flags", "billing",
          "health", "ai", "email"}

(* The pages that read without a hook of this kind: PanelTeam and           *)
(* PanelAccount.                                                           *)
OtherPages == {"team", "profile", "notifications", "sessions"}

(* The pages whose list has a filter bar that is sent to the server; the   *)
(* others filter what they have, or do not filter.                         *)
FilteredPages == {"fleet", "dlq", "incidents"}

(* A change that a page has asked the server for.  "create" is the row of  *)
(* the provider form that makes a new one.                                 *)
Submission == [from : Pages \cup OtherPages,
               op : {"retry", "save", "delete", "test", "toggle", "member", "tenant",
                     "invite", "row", "revoke"},
               on : Items \cup {"create", NoItem}]

Sent(op, on) == [from |-> page, op |-> op, on |-> on]

DefaultFilter == CHOOSE f \in Filters : TRUE

(* The list hook of the page on the screen. *)
List == INSTANCE FetchHook WITH
    Keys <- Filters, NoKey <- NoFilter, MaxRuns <- MaxReads,
    ClearsOnStart <- FALSE, mounted <- page \in Pages,
    key <- lKey, gen <- lGen, calls <- lCalls, data <- lData,
    loading <- lLoading, failed <- lFailed

(* The runbook viewer, mounted with its page and asking nothing until a    *)
(* runbook is selected.                                                    *)
Viewer == INSTANCE FetchHook WITH
    Keys <- Items, NoKey <- NoItem, MaxRuns <- MaxDetails,
    ClearsOnStart <- TRUE, mounted <- page = "runbooks",
    key <- dKey, gen <- dGen, calls <- dCalls, data <- dData,
    loading <- dLoading, failed <- dFailed

(* The modules panel, mounted while the fleet drawer is open. *)
Modules == INSTANCE FetchHook WITH
    Keys <- Items, NoKey <- NoItem, MaxRuns <- MaxDetails,
    ClearsOnStart <- FALSE, mounted <- page = "fleet" /\ dKey # NoItem,
    key <- dKey, gen <- dGen, calls <- dCalls, data <- dData,
    loading <- dLoading, failed <- dFailed

ReadsTypeOK ==
    /\ page \in Pages \cup OtherPages \cup {NoPage}
    /\ List!TypeOK
    /\ Viewer!TypeOK
    /\ left \subseteq Submission

ReadsInit == page = NoPage /\ List!Init /\ Viewer!Init /\ left = {}

-----------------------------------------------------------------------------
(* What each page shows in its main area: the table, the list, the cards;  *)
(* what it counts beside them comes after.  The order of the tests is the  *)
(* page's own: most let the error win, and show the table, with its own    *)
(* loading state, when there is an old answer.                             *)

HealthScreen ==
    IF lFailed THEN "error"
    ELSE IF lLoading /\ lData = List!NoData THEN "loading" ELSE "content"

BillingScreen ==
    IF lFailed THEN "error"
    ELSE IF lLoading /\ lData = List!NoData THEN "loading" ELSE "content"

(* DataTable: one row that says "Cargando..." instead of the rows. *)
TableScreen == IF lLoading THEN "loading" ELSE "content"

(* Mutant: the content is what is left when there is nothing to wait for. *)
FlagsScreenFirst == TableScreen

FlagsScreen == IF lFailed THEN "error" ELSE TableScreen

RunbooksScreen ==
    IF lFailed THEN "error"
    ELSE IF lLoading /\ lData = List!NoData THEN "loading" ELSE "content"

IncidentsScreen ==
    IF lFailed /\ lData = List!NoData THEN "error"
    ELSE IF lFailed THEN "tableError" ELSE TableScreen

(* The error of these two is inside the card of the table. *)
DlqTable   == IF lFailed THEN "error" ELSE TableScreen
FleetTable == IF lFailed THEN "error" ELSE TableScreen

(* The provider containers replace the whole page, forms included, by the  *)
(* loading screen; the error is a banner above the table.                  *)
ProvidersScreen == IF lLoading THEN "loading" ELSE "content"

Screen ==
    CASE page = "health"    -> HealthScreen
      [] page = "billing"   -> BillingScreen
      [] page = "flags"     -> FlagsScreen
      [] page = "runbooks"  -> RunbooksScreen
      [] page = "incidents" -> IncidentsScreen
      [] page = "dlq"       -> DlqTable
      [] page = "fleet"     -> FleetTable
      [] page \in {"ai", "email"} -> ProvidersScreen
      [] OTHER              -> "none"

(* What is counted on the page, in tiles, badges and descriptions: the last*)
(* answer, or, when there is none, the empty list ("data || {}").          *)
Counted == IF lData = List!NoData THEN "zeros" ELSE "read"

HealthBadge    == Counted   \* in the header: "Sin alertas"
DlqFigures     == Counted   \* DlqKpis and DlqByErrorCodePanel
FleetFigures   == Counted   \* the description of the header, and FleetKpis
FlagsKpis      == IF FlagsScreen = "error" THEN "none" ELSE Counted
IncidentsKpis  == IF IncidentsScreen = "error" THEN "none" ELSE Counted
BillingFigures == IF BillingScreen = "content" THEN Counted ELSE "none"

Figures ==
    CASE page = "health"    -> HealthBadge
      [] page = "billing"   -> BillingFigures
      [] page = "flags"     -> FlagsKpis
      [] page = "incidents" -> IncidentsKpis
      [] page = "dlq"       -> DlqFigures
      [] page = "fleet"     -> FleetFigures
      [] OTHER              -> "none"

(* RunbookViewer: an error, the spinner, or the runbook. *)
ViewerShows ==
    IF dKey = NoItem THEN NoItem
    ELSE IF dFailed \/ dLoading \/ dData = Viewer!NoData THEN NoItem
    ELSE dData.key

-----------------------------------------------------------------------------
(* A click in the navigation opens a page; its hooks mount with it. *)
OpenPage(p) ==
    /\ page = NoPage
    /\ page' = p
    /\ List!Mount(DefaultFilter)
    /\ UNCHANGED <<left, detailVars>>

(* A page goes away and aborts nothing: the changes it has sent stay in    *)
(* flight.  Of equal ones it is only remembered that there are some.  The  *)
(* bound counts them and the reads, this page's and those of earlier ones. *)
Leave(changes) ==
    /\ left' = left \cup changes
    /\ Cardinality(left') + Cardinality(lCalls) + Cardinality(dCalls) <= MaxLeft

(* The last of them is answered.  The components that sent them are gone:  *)
(* setState and refresh() of an unmounted component do nothing.            *)
LeftAnswered ==
    /\ \E s \in left : left' = left \ {s}
    /\ UNCHANGED <<page, listVars, detailVars>>

(* The router leaves the page. *)
ClosePage ==
    /\ page \in Pages
    /\ page' = NoPage
    /\ List!Unmount
    /\ CASE page = "runbooks"                     -> Viewer!Unmount
         [] page = "fleet" /\ dKey # NoItem       -> Modules!Unmount
         [] OTHER                                 -> UNCHANGED detailVars

(* The filter bar is hidden while the incidents page shows its error. *)
ChangeFilter(f) ==
    /\ page \in FilteredPages
    /\ ~(page = "incidents" /\ Screen = "error")
    /\ UNCHANGED <<page, left, detailVars>>
    /\ List!Rekey(f)

(* "Actualizar", "Reintentar".  The fleet offers it in the error only, the *)
(* provider pages do not offer it.                                         *)
Refresh ==
    /\ page \in Pages \ {"ai", "email"}
    /\ page = "fleet" => Screen = "error"
    /\ UNCHANGED <<page, left, detailVars>>
    /\ List!Reload

SelectRunbook(i) ==
    /\ page = "runbooks"
    /\ dKey = NoItem
    /\ Screen = "content"
    /\ UNCHANGED <<page, left, listVars>>
    /\ Viewer!Rekey(i)

CloseRunbook ==
    /\ page = "runbooks"
    /\ UNCHANGED <<page, left, listVars>>
    /\ Viewer!Rekey(NoItem)

(* Answers and failures, in any order, whoever is still there to see them. *)
(* (The answers for the drawer's modules panel are in FleetDrawer.)        *)
ListAnswers ==
    /\ UNCHANGED <<page, left, detailVars>>
    /\ \E c \in lCalls : List!Resolve(c) \/ List!Reject(c)

DetailAnswers ==
    /\ page # "fleet"
    /\ UNCHANGED <<page, left, listVars>>
    /\ \E c \in dCalls : Viewer!Resolve(c) \/ Viewer!Reject(c)

-----------------------------------------------------------------------------
(* The spinner of a page is on exactly while its newest request is         *)
(* unanswered: a cancelled request that ends must not stop it (the         *)
(* "if (!cancelled)" of the finally of every hook).                        *)
SpinnerHonest == List!LoadingIsLive /\ Viewer!LoadingIsLive

(* When a list has settled it answers the filters in the bar and the last  *)
(* refresh; when the viewer has settled it shows the runbook that is       *)
(* selected, whatever was clicked before.                                  *)
SettledIsSelected ==
    /\ List!SettledIsCurrent
    /\ Viewer!SettledIsCurrent

(* No table and no list is built from nothing: a page that has left its  *)
(* error and loading states shows rows that were read.  The provider pages*)
(* are left out, they show their table under the error.  Of the figures, *)
(* only those of the billing page are always read; those of the flags and*)
(* incidents pages may be zeros while an answer is awaited, never beside *)
(* an error.  For the badge of the health page, the tiles of the dead    *)
(* letters and those of the fleet nothing is claimed: see FiguresAreRead.*)
ContentIsRead ==
    /\ (Screen = "content" /\ page \notin {"ai", "email"}) => lData # List!NoData
    /\ Figures = "zeros" => page # "billing"
    /\ (Figures = "zeros" /\ page \in {"flags", "incidents"}) => lLoading

(* This does NOT hold.  The dead letters, the fleet and the health page    *)
(* count nothing as zero ("0 tenants en la flota", "Sin alertas") before   *)
(* the first answer and beside the error, although DlqKpis.jsx 10-11 drops *)
(* a tile because "showing a fabricated number would be dishonest".        *)
FiguresAreRead == Figures # "zeros"

(* The list and the detail implement the abstract reader: what is on the   *)
(* screen only changes to the answer of the newest request, however the    *)
(* answers of older requests are delayed and reordered.                    *)
ReadsImplementReader == List!ReaderSpec /\ Viewer!ReaderSpec
=============================================================================

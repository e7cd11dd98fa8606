---------------------------- MODULE FleetDrawer ---------------------------
(***************************************************************************)
(* The fleet page beyond its table: the drawer of one tenant with its      *)
(* modules panel (useTenantModules, TenantModulesPanel) and its members    *)
(* panel (TenantMembersPanel), and the dialog that creates a tenant        *)
(* (CreateTenantModal).  The selected tenant is the key of the detail      *)
(* hook.  The members panel reads without a cancelled flag; what keeps its *)
(* late answers out of the next tenant's drawer is that a drawer is closed *)
(* before another opens, and that closing it unmounts the panels.          *)
(***************************************************************************)
EXTENDS PanelReads

CONSTANTS Mods,       \* catalogue of opt-in modules
          NoMod,
          MaxDrawer   \* bound on the requests of the two panels and the dialog

ASSUME MaxDrawerAssumption == MaxDrawer \in Nat

VARIABLES patches,     \* module rows replaced by the answer of a toggle
          mutating,    \* the module whose switch is disabled, or NoMod
          toggles,     \* PATCHes of modules in flight
          members,     \* the tenant whose members are listed, NoItem if none
          adding,      \* the form that adds a member is busy
          memberCalls, \* reads and changes of members in flight
          createOpen,  \* the dialog "Crear tenant nuevo"
          creating,
          creates,     \* POSTs of tenants in flight
          used         \* requests sent so far

panelVars  == <<patches, mutating, toggles, members, adding, memberCalls>>
createVars == <<createOpen, creating, creates>>
drawerVars == <<panelVars, createVars, used>>

Numbered == 1..MaxDrawer
Toggle   == [n : Numbered, tenant : Items, mod : Mods, drawer : 1..MaxDetails]
MemberCall == [n : Numbered, step : {"change", "load"}, by : {"mount", "add", "row"},
               tenant : Items, drawer : 1..MaxDetails]

DrawerTypeOK ==
    /\ patches \subseteq [mod : Mods, tenant : Items]
    /\ mutating \in Mods \cup {NoMod}
    /\ toggles \subseteq Toggle
    /\ members \in Items \cup {NoItem}
    /\ adding \in BOOLEAN
    /\ memberCalls \subseteq MemberCall
    /\ createOpen \in BOOLEAN
    /\ creating \in BOOLEAN
    /\ creates \subseteq Numbered
    /\ used \in 0..MaxDrawer

DrawerInit ==
    /\ patches = {}
    /\ mutating = NoMod
    /\ toggles = {}
    /\ members = NoItem
    /\ adding = FALSE
    /\ memberCalls = {}
    /\ createOpen = FALSE
    /\ creating = FALSE
    /\ creates = {}
    /\ used = 0

(* A drawer is known by the run of the modules hook that it mounted with.  *)
Drawer     == dGen
DrawerOpen == page = "fleet" /\ dKey # NoItem

Use == used < MaxDrawer /\ used' = used + 1

(* State of panels that are mounted or unmounted. *)
FreshPanels ==
    /\ patches' = {}
    /\ mutating' = NoMod
    /\ members' = NoItem
    /\ adding' = FALSE

(* A member's change counts until it is answered, not for the read after.  *)
ChangesInFlight ==
    {Sent("toggle", c.tenant) : c \in toggles}
        \cup {Sent("member", c.tenant) : c \in {m \in memberCalls : m.step = "change"}}
        \cup {Sent("tenant", NoItem) : c \in creates}

(* The page goes away, drawer and dialog included; nothing is aborted.     *)
DrawerUnmount ==
    /\ ChangesInFlight \subseteq left'
    /\ FreshPanels
    /\ toggles' = {}
    /\ memberCalls' = {}
    /\ createOpen' = FALSE
    /\ creating' = FALSE
    /\ creates' = {}
    /\ used' = 0

MemberRequest(step, by) ==
    [n |-> used', step |-> step, by |-> by, tenant |-> dKey', drawer |-> dGen']

-----------------------------------------------------------------------------
(* A click on a row of the table: the drawer and both panels mount, and    *)
(* each panel reads.  Nothing else is open: drawer and dialog are modal.   *)
OpenDrawer(t) ==
    /\ page = "fleet"
    /\ FleetTable = "content"
    /\ ~createOpen
    /\ UNCHANGED <<page, left, listVars, toggles, createVars>>
    /\ Modules!Mount(t)
    /\ Use
    /\ FreshPanels
    /\ memberCalls' = memberCalls \cup {MemberRequest("load", "mount")}

CloseDrawer ==
    /\ DrawerOpen
    /\ UNCHANGED <<page, left, listVars, toggles, memberCalls, createVars, used>>
    /\ Modules!Unmount
    /\ FreshPanels

(* The answer of the modules hook replaces the rows, patches included. *)
ModulesAnswer ==
    /\ UNCHANGED <<page, left, listVars, mutating, toggles, members, adding,
                   memberCalls, createVars, used>>
    /\ \E c \in dCalls :
         /\ Modules!Resolve(c) \/ Modules!Reject(c)
         /\ patches' = IF c.cancelled THEN patches ELSE {}

(* A switch: disabled only while it is itself the last one that was used.  *)
(* The error it clears may be the one of the read of the panel.            *)
SwitchModule(m) ==
    /\ DrawerOpen
    /\ mutating # m
    /\ Use
    /\ mutating' = m
    /\ dFailed' = FALSE
    /\ toggles' = toggles \cup {[n |-> used + 1, tenant |-> dKey, mod |-> m,
                                 drawer |-> Drawer]}
    /\ UNCHANGED <<page, left, listVars, dKey, dGen, dCalls, dData, dLoading, patches,
                   members, adding, memberCalls, createVars>>

(* The row of the module is replaced by the one the server returned. *)
ModuleSwitched(c) ==
    /\ c \in toggles
    /\ toggles' = toggles \ {c}
    /\ IF DrawerOpen /\ c.drawer = Drawer
       THEN /\ patches' = {p \in patches : p.mod # c.mod}
                            \cup {[mod |-> c.mod, tenant |-> c.tenant]}
            /\ mutating' = NoMod
       ELSE UNCHANGED <<patches, mutating>>
    /\ UNCHANGED <<readVars, members, adding, memberCalls, createVars, used>>

ModuleRefused(c) ==
    /\ c \in toggles
    /\ toggles' = toggles \ {c}
    /\ IF DrawerOpen /\ c.drawer = Drawer
       THEN dFailed' = TRUE /\ mutating' = NoMod
       ELSE UNCHANGED <<dFailed, mutating>>
    /\ UNCHANGED <<page, left, listVars, dKey, dGen, dCalls, dData, dLoading, patches,
                   members, adding, memberCalls, createVars, used>>

(* "+ Agregar miembro": the button is disabled while one is being added.   *)
(* Changes of role and removals are not guarded at all.                    *)
ChangeMembers(by) ==
    /\ DrawerOpen
    /\ by = "add" => ~adding
    /\ by = "row" => members # NoItem
    /\ Use
    /\ UNCHANGED <<readVars, patches, mutating, toggles, members, createVars>>
    /\ adding' = (adding \/ by = "add")
    /\ memberCalls' = memberCalls \cup {MemberRequest("change", by)}

(* A change succeeded: await load().  handleAdd stays busy until it ends;  *)
(* the read it starts takes the place of the call.                         *)
MembersChanged(c) ==
    /\ c \in memberCalls
    /\ c.step = "change"
    /\ memberCalls' = (memberCalls \ {c}) \cup {[c EXCEPT !.step = "load"]}
    /\ UNCHANGED <<readVars, patches, mutating, toggles, members, adding,
                   createVars, used>>

(* Mutant: one panel for every drawer, kept when the drawer closes. *)
MembersLoadedAnywhere(c) ==
    /\ c \in memberCalls
    /\ c.step = "load"
    /\ memberCalls' = memberCalls \ {c}
    /\ IF DrawerOpen
       THEN members' = c.tenant /\ adding' = (adding /\ c.by # "add")
       ELSE UNCHANGED <<members, adding>>
    /\ UNCHANGED <<readVars, patches, mutating, toggles, createVars, used>>

(* load() puts the rows on the screen of whoever called it. *)
MembersLoaded(c) ==
    /\ c \in memberCalls
    /\ c.step = "load"
    /\ memberCalls' = memberCalls \ {c}
    /\ IF DrawerOpen /\ c.drawer = Drawer
       THEN members' = c.tenant /\ adding' = (adding /\ c.by # "add")
       ELSE UNCHANGED <<members, adding>>
    /\ UNCHANGED <<readVars, patches, mutating, toggles, createVars, used>>

(* A read or a change failed: the error is shown, the list stays. *)
MembersFailed(c) ==
    /\ c \in memberCalls
    /\ memberCalls' = memberCalls \ {c}
    /\ IF DrawerOpen /\ c.drawer = Drawer
       THEN adding' = (adding /\ c.by # "add")
       ELSE UNCHANGED adding
    /\ UNCHANGED <<readVars, patches, mutating, toggles, members, createVars, used>>

(* "+ Nuevo tenant" and the two ways out of its dialog; closing it does    *)
(* not wait for the request.                                               *)
OpenCreate ==
    /\ page = "fleet"
    /\ ~DrawerOpen
    /\ ~createOpen
    /\ createOpen' = TRUE
    /\ UNCHANGED <<readVars, panelVars, creating, creates, used>>

CloseCreate ==
    /\ createOpen
    /\ createOpen' = FALSE
    /\ UNCHANGED <<readVars, panelVars, creating, creates, used>>

SubmitCreate ==
    /\ createOpen
    /\ ~creating
    /\ Use
    /\ creating' = TRUE
    /\ creates' = creates \cup {used + 1}
    /\ UNCHANGED <<readVars, panelVars, createOpen>>

(* onCreated reads the list again, onClose closes whatever dialog is open. *)
TenantCreated(c) ==
    /\ c \in creates
    /\ creates' = creates \ {c}
    /\ UNCHANGED <<page, left, detailVars, panelVars, used>>
    /\ List!Reload
    /\ createOpen' = FALSE
    /\ creating' = FALSE

CreateFailed(c) ==
    /\ c \in creates
    /\ creates' = creates \ {c}
    /\ creating' = FALSE
    /\ UNCHANGED <<readVars, panelVars, createOpen, used>>

DrawerNext ==
    \/ \E t \in Items : OpenDrawer(t)
    \/ CloseDrawer
    \/ ModulesAnswer
    \/ \E m \in Mods : SwitchModule(m)
    \/ \E c \in toggles : ModuleSwitched(c) \/ ModuleRefused(c)
    \/ \E by \in {"add", "row"} : ChangeMembers(by)
    \/ \E c \in memberCalls : MembersChanged(c) \/ MembersLoaded(c) \/ MembersFailed(c)
    \/ OpenCreate
    \/ CloseCreate
    \/ SubmitCreate
    \/ \E c \in creates : TenantCreated(c) \/ CreateFailed(c)

-----------------------------------------------------------------------------
(* The drawer of a tenant never lists the members of another tenant, nor   *)
(* the module rows of another: an operator who revokes "the member in the  *)
(* second row" acts on the tenant in the title.                            *)
DrawerOfOneTenant ==
    DrawerOpen =>
        /\ members \in {dKey, NoItem}
        /\ \A p \in patches : p.tenant = dKey
        /\ dData = Modules!NoData \/ dData.key = dKey

(* One tenant is created at a time, however often the dialog is closed and *)
(* opened while the request is in flight.                                  *)
OneCreate == Cardinality(creates) <= 1 /\ (creating <=> creates # {})
=============================================================================

----------------------------- MODULE PanelTeam -----------------------------
(***************************************************************************)
(* The team page of a tenant: useTeamData, TeamModule, InviteMemberForm    *)
(* and TeamTable.  Its reads have no cancelled flag, and the page stays    *)
(* mounted when the browser jumps through its history to the team page of  *)
(* another tenant.  A change of the team is a chain of two requests, the   *)
(* change and the read of the list after it; the page is busy until the    *)
(* chain has ended.  The handlers close over the tenant they were drawn    *)
(* with: a dialog that is answered after a jump acts on the tenant it was  *)
(* opened for.                                                             *)
(***************************************************************************)
EXTENDS PanelReads

CONSTANTS MaxTeam   \* bound on the requests of the page

ASSUME MaxTeamAssumption == MaxTeam \in Nat

VARIABLES teamTenant,   \* the tenant in the URL
          teamRows,     \* the tenant whose members are listed, NoItem if none
          teamLoading,
          teamNotice,   \* the banner
          teamBusy,
          inviteOpen,
          confirmFor,   \* the tenant of the confirmation dialog, NoItem if none
          teamCalls,    \* requests in flight
          teamSent

teamVars == <<teamTenant, teamRows, teamLoading, teamNotice, teamBusy,
              inviteOpen, confirmFor, teamCalls, teamSent>>

TeamCall == [n : 1..MaxTeam, step : {"change", "load"}, by : {"effect", "invite", "row"},
             tenant : Items]

TeamTypeOK ==
    /\ teamTenant \in Items \cup {NoItem}
    /\ teamRows \in Items \cup {NoItem}
    /\ teamLoading \in BOOLEAN
    /\ teamNotice \in {"none", "error", "success"}
    /\ teamBusy \in BOOLEAN
    /\ inviteOpen \in BOOLEAN
    /\ confirmFor \in Items \cup {NoItem}
    /\ teamCalls \subseteq TeamCall
    /\ teamSent \in 0..MaxTeam

TeamInit ==
    /\ teamTenant = NoItem
    /\ teamRows = NoItem
    /\ teamLoading = FALSE
    /\ teamNotice = "none"
    /\ teamBusy = FALSE
    /\ inviteOpen = FALSE
    /\ confirmFor = NoItem
    /\ teamCalls = {}
    /\ teamSent = 0

(* refresh() up to its await: the banner goes, whatever it said. *)
StartLoad(t, by, others) ==
    /\ teamSent < MaxTeam
    /\ teamSent' = teamSent + 1
    /\ teamLoading' = TRUE
    /\ teamNotice' = "none"
    /\ teamCalls' = others \cup {[n |-> teamSent + 1, step |-> "load", by |-> by,
                                  tenant |-> t]}

(* The lock, the banner and the request of a change. *)
StartChange(t, by) ==
    /\ teamSent < MaxTeam
    /\ teamSent' = teamSent + 1
    /\ teamBusy' = TRUE
    /\ teamNotice' = "none"
    /\ teamCalls' = teamCalls \cup {[n |-> teamSent + 1, step |-> "change",
                                     by |-> by, tenant |-> t]}

-----------------------------------------------------------------------------
OpenTeam(t) ==
    /\ page = NoPage
    /\ page' = "team"
    /\ teamTenant' = t
    /\ StartLoad(t, "effect", {})
    /\ UNCHANGED <<left, listVars, detailVars, teamRows, teamBusy, inviteOpen, confirmFor>>

TeamChangesInFlight ==
    {Sent(c.by, c.tenant) : c \in {d \in teamCalls : d.step = "change"}}

(* The page goes away; its changes are not aborted.                        *)
CloseTeam ==
    /\ page = "team"
    /\ page' = NoPage
    /\ Leave(TeamChangesInFlight)
    /\ teamTenant' = NoItem
    /\ teamRows' = NoItem
    /\ teamLoading' = FALSE
    /\ teamNotice' = "none"
    /\ teamBusy' = FALSE
    /\ inviteOpen' = FALSE
    /\ confirmFor' = NoItem
    /\ teamCalls' = {}
    /\ teamSent' = 0
    /\ UNCHANGED <<listVars, detailVars>>

(* Back or forward to the team page of another tenant: refresh is another  *)
(* function now, so its effect runs; everything else stays.                *)
JumpTeam(t) ==
    /\ page = "team"
    /\ t # teamTenant
    /\ teamTenant' = t
    /\ StartLoad(t, "effect", teamCalls)
    /\ UNCHANGED <<readVars, teamRows, teamBusy, inviteOpen, confirmFor>>

(* "Invitar miembro" and the ways out of the form, busy or not. *)
OpenInvite ==
    /\ page = "team"
    /\ ~inviteOpen
    /\ confirmFor = NoItem
    /\ inviteOpen' = TRUE
    /\ UNCHANGED <<readVars, teamTenant, teamRows, teamLoading, teamNotice,
                   teamBusy, confirmFor, teamCalls, teamSent>>

CloseInvite ==
    /\ inviteOpen
    /\ inviteOpen' = FALSE
    /\ UNCHANGED <<readVars, teamTenant, teamRows, teamLoading, teamNotice,
                   teamBusy, confirmFor, teamCalls, teamSent>>

(* The submit button is disabled while the page is busy. *)
SubmitInvite ==
    /\ inviteOpen
    /\ ~teamBusy
    /\ StartChange(teamTenant, "invite")
    /\ UNCHANGED <<readVars, teamTenant, teamRows, teamLoading, inviteOpen, confirmFor>>

(* What is refused before anything is sent: an empty email, the role of    *)
(* owner given by who is not one.                                          *)
RefuseHere ==
    /\ page = "team"
    /\ ~teamBusy
    /\ confirmFor = NoItem
    /\ inviteOpen \/ (teamRows # NoItem /\ ~teamLoading)
    /\ teamNotice' = "error"
    /\ UNCHANGED <<readVars, teamTenant, teamRows, teamLoading, teamBusy,
                   inviteOpen, confirmFor, teamCalls, teamSent>>

DismissNotice ==
    /\ page = "team"
    /\ teamNotice # "none"
    /\ teamNotice' = "none"
    /\ UNCHANGED <<readVars, teamTenant, teamRows, teamLoading, teamBusy,
                   inviteOpen, confirmFor, teamCalls, teamSent>>

(* The select and the button of a row, drawn when the list is not loading  *)
(* and disabled while the page is busy; both ask for confirmation.         *)
AskConfirm ==
    /\ page = "team"
    /\ teamRows # NoItem
    /\ ~teamLoading
    /\ ~teamBusy
    /\ ~inviteOpen
    /\ confirmFor = NoItem
    /\ confirmFor' = teamTenant
    /\ UNCHANGED <<readVars, teamTenant, teamRows, teamLoading, teamNotice,
                   teamBusy, inviteOpen, teamCalls, teamSent>>

CancelConfirm ==
    /\ confirmFor # NoItem
    /\ confirmFor' = NoItem
    /\ UNCHANGED <<readVars, teamTenant, teamRows, teamLoading, teamNotice,
                   teamBusy, inviteOpen, teamCalls, teamSent>>

(* changeRole and removeMember after the dialog.  They do not look at the  *)
(* lock again.                                                             *)
AcceptConfirm ==
    /\ confirmFor # NoItem
    /\ confirmFor' = NoItem
    /\ StartChange(confirmFor, "row")
    /\ UNCHANGED <<readVars, teamTenant, teamRows, teamLoading, inviteOpen>>

(* The change succeeded.  The success banner is set and, before React has  *)
(* drawn it, cleared by the refresh() of the handler.  An invitation closes *)
(* the form that is open now, its own or the next one.                     *)
TeamChanged(c) ==
    /\ c \in teamCalls
    /\ c.step = "change"
    /\ StartLoad(c.tenant, c.by, teamCalls \ {c})
    /\ inviteOpen' = (inviteOpen /\ c.by # "invite")
    /\ UNCHANGED <<readVars, teamTenant, teamRows, teamBusy, confirmFor>>

(* The change failed: banner, and the lock is released. *)
TeamRefused(c) ==
    /\ c \in teamCalls
    /\ c.step = "change"
    /\ teamCalls' = teamCalls \ {c}
    /\ teamNotice' = "error"
    /\ teamBusy' = FALSE
    /\ UNCHANGED <<readVars, teamTenant, teamRows, teamLoading, inviteOpen,
                   confirmFor, teamSent>>

(* A list arrives, or does not; the read after a change releases the lock  *)
(* either way.                                                             *)
TeamLoaded(c) ==
    /\ c \in teamCalls
    /\ c.step = "load"
    /\ teamCalls' = teamCalls \ {c}
    /\ teamLoading' = FALSE
    /\ teamBusy' = (teamBusy /\ c.by = "effect")
    /\ \/ teamRows' = c.tenant /\ UNCHANGED teamNotice
       \/ teamNotice' = "error" /\ UNCHANGED teamRows
    /\ UNCHANGED <<readVars, teamTenant, inviteOpen, confirmFor, teamSent>>

TeamNext ==
    \/ \E t \in Items : OpenTeam(t) \/ JumpTeam(t)
    \/ CloseTeam
    \/ OpenInvite
    \/ CloseInvite
    \/ SubmitInvite
    \/ RefuseHere
    \/ DismissNotice
    \/ AskConfirm
    \/ CancelConfirm
    \/ AcceptConfirm
    \/ \E c \in teamCalls : TeamChanged(c) \/ TeamRefused(c) \/ TeamLoaded(c)

-----------------------------------------------------------------------------
(* The page changes its team one request at a time, and the lock is the    *)
(* change: nothing can be submitted before the list has been read again,   *)
(* and the lock does not outlive the chain.  The handlers never test the   *)
(* lock; only the disabled buttons do, and a dialog keeps the others away. *)
TeamOneChange ==
    /\ Cardinality({c \in teamCalls : c.by # "effect"}) <= 1
    /\ teamBusy <=> \E c \in teamCalls : c.by # "effect"

(* useTeamData.js:96-100: after an invitation the page shows a message     *)
(* that says whether an email was sent, so that nobody waits for one.      *)
SuccessIsShown ==
    [][\A c \in teamCalls : TeamChanged(c) => teamNotice' = "success"]_<<readVars, teamVars>>
=============================================================================

-------------------------- MODULE PanelPagesProofs -------------------------
(***************************************************************************)
(* Proofs about the reads of PanelPages, for any filters, rows, modules    *)
(* and fields, and any bounds.  The list hook of the page on the screen is *)
(* a FetchHook at every step; the detail hook is one too, of two kinds,    *)
(* except that the modules panel of the fleet drawer changes its error     *)
(* from outside.  So the lemmas of FetchHookProofs carry over, and what is *)
(* left is to say which step of the pages is which step of a hook.  The    *)
(* second half is about the forms and the dialogs.                         *)
(***************************************************************************)
EXTENDS PanelPages, FiniteSetTheorems, TLAPS

(* The detail hook is mounted: with the page of the runbooks, or with the  *)
(* drawer of the fleet.                                                    *)
Detailed == page = "runbooks" \/ (page = "fleet" /\ dKey # NoItem)

(* The facts about a hook, for the list of a page, *)
L == INSTANCE FetchHookProofs WITH
    Keys <- Filters, NoKey <- NoFilter, MaxRuns <- MaxReads,
    ClearsOnStart <- FALSE, mounted <- page \in Pages,
    key <- lKey, gen <- lGen, calls <- lCalls, data <- lData,
    loading <- lLoading, failed <- lFailed

(* for the viewer of the runbooks, *)
V == INSTANCE FetchHookProofs WITH
    Keys <- Items, NoKey <- NoItem, MaxRuns <- MaxDetails,
    ClearsOnStart <- TRUE, mounted <- Detailed,
    key <- dKey, gen <- dGen, calls <- dCalls, data <- dData,
    loading <- dLoading, failed <- dFailed

(* and for the panel of the modules. *)
M == INSTANCE FetchHookProofs WITH
    Keys <- Items, NoKey <- NoItem, MaxRuns <- MaxDetails,
    ClearsOnStart <- FALSE, mounted <- Detailed,
    key <- dKey, gen <- dGen, calls <- dCalls, data <- dData,
    loading <- dLoading, failed <- dFailed

(* The list is a FetchHook; the detail has the invariant of one, whatever  *)
(* its error says, and in the page of the runbooks it shows the runbook    *)
(* that is selected.                                                       *)
ReadsInv ==
    /\ page \in Pages \cup OtherPages \cup {NoPage}
    /\ L!CallsInv
    /\ L!SettledIsCurrent
    /\ V!CallsInv
    /\ Viewer!SettledIsCurrent

(* A step of the detail hook, or one that it does not notice: the modules  *)
(* panel sets its error from outside, only while its drawer is open.       *)
DetailStep ==
    \/ [V!Next]_(V!vars) /\ (page' = "runbooks" => page = "runbooks")
    \/ M!Next /\ page' # "runbooks"
    \/ /\ UNCHANGED <<dKey, dGen, dCalls, dData, dLoading, page>>
       /\ dFailed' \in BOOLEAN
       /\ page = "runbooks" => UNCHANGED dFailed
    \/ /\ UNCHANGED detailVars
       /\ page = NoPage
       /\ dKey = NoItem

-----------------------------------------------------------------------------
(* Which step of the pages is which step of the list hook. *)
LEMMA ListHookSteps ==
    /\ \A f \in Filters : List!Mount(f) => L!Next
    /\ \A f \in Filters : List!Rekey(f) => L!Next
    /\ List!Reload => L!Next
    /\ List!Unmount => L!Next
    /\ \A c \in lCalls : List!Resolve(c) \/ List!Reject(c) => L!Next
BY DEF L!Next, List!Mount, L!Mount, List!Rekey, L!Rekey, List!Reload, L!Reload,
       List!Unmount, L!Unmount, List!Resolve, L!Resolve, List!Reject, L!Reject,
       List!Ask, L!Ask, List!Reset, L!Reset, List!Cancelled, L!Cancelled,
       List!NoData, L!NoData

(* Every step of the pages is, for the list, a step of its hook or none.   *)
LEMMA ListStep ==
    ASSUME Next
    PROVE  [L!Next]_(L!vars)
<1>. USE ListHookSteps
<1>1. DefaultFilter \in Filters
  BY FiltersAssumption DEF DefaultFilter
<1>2. ASSUME page' = page, UNCHANGED listVars
      PROVE  [L!Next]_(L!vars)
  BY <1>2 DEF L!vars, listVars
<1>3. ASSUME page \notin Pages, page' \notin Pages, UNCHANGED listVars
      PROVE  [L!Next]_(L!vars)
  BY <1>3 DEF L!vars, listVars
<1>4. CASE Browse
  BY <1>1, <1>2, <1>4 DEF Browse, OpenPage, ChangeFilter, Refresh, SelectRunbook,
                          CloseRunbook, ListAnswers, DetailAnswers, LeftAnswered
<1>5. CASE LeavePage
  BY <1>5 DEF LeavePage, ClosePage
<1>6. CASE RetryNext
  BY <1>2, <1>6 DEF RetryNext, OpenRetry, CloseRetry, ConfirmRetry, RetryDone,
                    RetryFailed, readVars
<1>7. CASE ProvidersNext
  BY <1>2, <1>7 DEF ProvidersNext, StartEdit, DeleteRow, OpenTest, StartCreate,
                    CloseForm, SubmitInvalid, SubmitForm, CloseTest, RunTest,
                    WriteDone, WriteFailed, TestDone, ReloadChild, readVars
<1>8. CASE DrawerNext
  BY <1>2, <1>8 DEF DrawerNext, OpenDrawer, CloseDrawer, ModulesAnswer, SwitchModule,
                    ModuleSwitched, ModuleRefused, ChangeMembers, MembersChanged,
                    MembersLoaded, MembersFailed, OpenCreate, CloseCreate,
                    SubmitCreate, TenantCreated, CreateFailed, readVars
<1>9. CASE TeamNext
  <2>1. NoPage \notin Pages /\ "team" \notin Pages
    BY DEF NoPage, Pages
  <2>. QED
    BY <1>2, <1>3, <1>9, <2>1
    DEF TeamNext, OpenTeam, JumpTeam, CloseTeam, OpenInvite, CloseInvite, SubmitInvite,
        RefuseHere, DismissNotice, AskConfirm, CancelConfirm, AcceptConfirm,
        TeamChanged, TeamRefused, TeamLoaded, readVars
<1>10. CASE AccountNext
  <2>1. NoPage \notin Pages /\ (FormPages \cup {"sessions"}) \cap Pages = {}
    BY DEF NoPage, Pages, FormPages
  <2>. QED
    BY <1>2, <1>3, <1>10, <2>1
    DEF AccountNext, OpenAccount, CloseAccount, Hydrate, HydrateFails, EditForm,
        SubmitAccount, AccountSaved, RevokeSession, SessionRevoked, RevokeFailed,
        SessionsRead, readVars
<1>. QED
  BY <1>4, <1>5, <1>6, <1>7, <1>8, <1>9, <1>10 DEF Next

-----------------------------------------------------------------------------
(* Which step of the pages is which step of the detail hook. *)
LEMMA ViewerSteps ==
    ASSUME page = "runbooks"
    PROVE  /\ \A i \in Items \cup {NoItem} :
                 page' = page /\ Viewer!Rekey(i) => V!Next
           /\ page' = NoPage /\ Viewer!Unmount => V!Next
<1>1. Detailed /\ (page' = page => Detailed') /\ (page' = NoPage => ~Detailed')
  BY DEF Detailed, NoPage
<1>2. ASSUME NEW i \in Items \cup {NoItem}, page' = page, Viewer!Rekey(i)
      PROVE  V!Rekey(i)
  BY <1>1, <1>2 DEF Viewer!Rekey, V!Rekey, Viewer!Ask, V!Ask, Viewer!Reset, V!Reset,
                    Viewer!Cancelled, V!Cancelled, Viewer!NoData, V!NoData
<1>3. ASSUME page' = NoPage, Viewer!Unmount
      PROVE  V!Unmount
  BY <1>1, <1>3 DEF Viewer!Unmount, V!Unmount, Viewer!Reset, V!Reset,
                    Viewer!Cancelled, V!Cancelled, Viewer!NoData, V!NoData
<1>. QED
  BY <1>2, <1>3 DEF V!Next

(* Mounting and unmounting the modules panel are steps of its hook.        *)
LEMMA ModulesSteps ==
    ASSUME page = "fleet", NoItem \notin Items
    PROVE  /\ \A i \in Items : page' = page /\ Modules!Mount(i) => M!Next
           /\ page' \in {page, NoPage} /\ Modules!Unmount => M!Next
<1>1. ASSUME NEW i \in Items, page' = page, Modules!Mount(i)
      PROVE  M!Next
  <2>1. ~Detailed /\ Detailed' = TRUE
    BY <1>1 DEF Detailed, Modules!Mount
  <2>. QED
    BY <1>1, <2>1 DEF M!Next, Modules!Mount, M!Mount, Modules!Ask, M!Ask,
                      Modules!Cancelled, M!Cancelled, Modules!NoData, M!NoData
<1>2. ASSUME page' \in {page, NoPage}, Modules!Unmount
      PROVE  M!Next
  <2>1. Detailed /\ Detailed' = FALSE
    BY <1>2 DEF Detailed, Modules!Unmount, NoPage
  <2>. QED
    BY <1>2, <2>1 DEF M!Next, Modules!Unmount, M!Unmount, Modules!Reset, M!Reset,
                      Modules!Cancelled, M!Cancelled, Modules!NoData, M!NoData
<1>. QED
  BY <1>1, <1>2

(* An answer or a failure that the pages take in is one of the hook. *)
LEMMA AnswerSteps ==
    ASSUME NEW c \in dCalls, page' = page,
           \/ Viewer!Resolve(c) \/ Viewer!Reject(c)
           \/ Modules!Resolve(c) \/ Modules!Reject(c)
    PROVE  V!Next
<1>1. dKey' = dKey
  BY DEF Viewer!Resolve, Viewer!Reject, Modules!Resolve, Modules!Reject
<1>2. Detailed' = Detailed
  BY <1>1 DEF Detailed
<1>. QED
  BY <1>2 DEF V!Next, Viewer!Resolve, V!Resolve, Viewer!Reject, V!Reject,
              Modules!Resolve, Modules!Reject, V!NoData, Viewer!NoData, Modules!NoData

(* Nothing else touches the detail hook. *)
LEMMA DetailSteps ==
    ASSUME ReadsInv, Next
    PROVE  DetailStep
<1>. USE NoKeysAssumption
<1>1. dFailed \in BOOLEAN
  BY DEF ReadsInv, V!CallsInv, V!TypeOK
<1>2. ASSUME UNCHANGED detailVars, page' = page
      PROVE  DetailStep
  BY <1>1, <1>2 DEF DetailStep, detailVars
<1>3. ASSUME UNCHANGED detailVars, page = NoPage
      PROVE  DetailStep
  <2>1. dKey = NoItem
    BY <1>3 DEF ReadsInv, V!CallsInv, Detailed, NoPage
  <2>. QED
    BY <1>3, <2>1 DEF DetailStep
<1>4. ASSUME UNCHANGED detailVars, ~Detailed, ~Detailed', page' = NoPage
      PROVE  DetailStep
  <2>1. Detailed' = Detailed
    BY <1>4 DEF Detailed
  <2>. QED
    BY <1>4, <2>1 DEF DetailStep, V!vars, detailVars, NoPage
<1>5. CASE Browse
  <2>1. ASSUME NEW i \in Items, SelectRunbook(i)
        PROVE  DetailStep
    BY <2>1, ViewerSteps DEF SelectRunbook, DetailStep
  <2>2. CASE CloseRunbook
    BY <2>2, ViewerSteps DEF CloseRunbook, DetailStep
  <2>3. CASE DetailAnswers
    BY <2>3, AnswerSteps DEF DetailAnswers, DetailStep
  <2>4. ASSUME NEW p \in Pages, OpenPage(p)
        PROVE  DetailStep
    BY <1>3, <2>4 DEF OpenPage
  <2>5. CASE Refresh \/ ListAnswers \/ LeftAnswered \/ \E f \in Filters : ChangeFilter(f)
    BY <1>2, <2>5 DEF Refresh, ListAnswers, LeftAnswered, ChangeFilter
  <2>. QED
    BY <1>5, <2>1, <2>2, <2>3, <2>4, <2>5 DEF Browse
<1>6. CASE LeavePage
  <2>1. CASE page = "runbooks"
    BY <1>6, <2>1, ViewerSteps DEF LeavePage, ClosePage, DetailStep, NoPage
  <2>2. CASE page = "fleet" /\ dKey # NoItem
    BY <1>6, <2>2, ModulesSteps DEF LeavePage, ClosePage, DetailStep, NoPage
  <2>3. CASE ~(page = "runbooks") /\ ~(page = "fleet" /\ dKey # NoItem)
    <3>1. UNCHANGED detailVars /\ page' = NoPage
      BY <1>6, <2>3 DEF LeavePage, ClosePage
    <3>2. ~Detailed /\ ~Detailed'
      BY <2>3, <3>1 DEF Detailed, NoPage
    <3>. QED
      BY <1>4, <3>1, <3>2
  <2>. QED
    BY <2>1, <2>2, <2>3
<1>7. CASE RetryNext
  BY <1>2, <1>7 DEF RetryNext, OpenRetry, CloseRetry, ConfirmRetry, RetryDone,
                    RetryFailed, readVars
<1>8. CASE ProvidersNext
  BY <1>2, <1>8 DEF ProvidersNext, StartEdit, DeleteRow, OpenTest, StartCreate,
                    CloseForm, SubmitInvalid, SubmitForm, CloseTest, RunTest,
                    WriteDone, WriteFailed, TestDone, ReloadChild, readVars
<1>9. CASE DrawerNext
  <2>1. ASSUME NEW t \in Items, OpenDrawer(t)
        PROVE  DetailStep
    BY <2>1, ModulesSteps DEF OpenDrawer, DetailStep
  <2>2. CASE CloseDrawer
    BY <2>2, ModulesSteps DEF CloseDrawer, DrawerOpen, DetailStep
  <2>3. CASE ModulesAnswer
    BY <2>3, AnswerSteps DEF ModulesAnswer, DetailStep
  <2>4. ASSUME NEW m \in Mods, SwitchModule(m)
        PROVE  DetailStep
    BY <2>4 DEF SwitchModule, DrawerOpen, DetailStep
  <2>5. ASSUME NEW c \in toggles, ModuleRefused(c)
        PROVE  DetailStep
    BY <1>1, <2>5 DEF ModuleRefused, DrawerOpen, DetailStep
  <2>6. CASE \/ \E c \in toggles : ModuleSwitched(c)
             \/ \E by \in {"add", "row"} : ChangeMembers(by)
             \/ \E c \in memberCalls : MembersChanged(c) \/ MembersLoaded(c) \/ MembersFailed(c)
             \/ OpenCreate \/ CloseCreate \/ SubmitCreate
             \/ \E c \in creates : TenantCreated(c) \/ CreateFailed(c)
    BY <1>2, <2>6 DEF ModuleSwitched, ChangeMembers, MembersChanged, MembersLoaded,
                      MembersFailed, OpenCreate, CloseCreate, SubmitCreate,
                      TenantCreated, CreateFailed, readVars
  <2>. QED
    BY <1>9, <2>1, <2>2, <2>3, <2>4, <2>5, <2>6 DEF DrawerNext
<1>10. CASE TeamNext
  <2>1. CASE CloseTeam
    <3>1. UNCHANGED detailVars /\ ~Detailed /\ ~Detailed' /\ page' = NoPage
      BY <2>1 DEF CloseTeam, Detailed, NoPage
    <3>. QED
      BY <1>4, <3>1
  <2>2. CASE ~CloseTeam
    BY <1>2, <1>3, <1>10, <2>2
    DEF TeamNext, OpenTeam, JumpTeam, OpenInvite, CloseInvite, SubmitInvite,
        RefuseHere, DismissNotice, AskConfirm, CancelConfirm, AcceptConfirm,
        TeamChanged, TeamRefused, TeamLoaded, readVars
  <2>. QED
    BY <2>1, <2>2
<1>11. CASE AccountNext
  <2>1. CASE CloseAccount
    <3>1. UNCHANGED detailVars /\ ~Detailed /\ ~Detailed' /\ page' = NoPage
      BY <2>1 DEF CloseAccount, FormPages, Detailed, NoPage
    <3>. QED
      BY <1>4, <3>1
  <2>2. CASE ~CloseAccount
    BY <1>2, <1>3, <1>11, <2>2
    DEF AccountNext, OpenAccount, Hydrate, HydrateFails, EditForm, SubmitAccount,
        AccountSaved, RevokeSession, SessionRevoked, RevokeFailed, SessionsRead, readVars
  <2>. QED
    BY <2>1, <2>2
<1>. QED
  BY <1>5, <1>6, <1>7, <1>8, <1>9, <1>10, <1>11 DEF Next

-----------------------------------------------------------------------------
(* The two kinds of detail hook share the invariant. *)
LEMMA SameInv == (V!CallsInv <=> M!CallsInv) /\ (V!CallsInv' <=> M!CallsInv')
BY DEF V!CallsInv, M!CallsInv, V!TypeOK, M!TypeOK, V!Call, M!Call, V!Answer, M!Answer,
       V!NoData, M!NoData, V!LoadingIsLive, M!LoadingIsLive, V!LiveIsNewest,
       M!LiveIsNewest, V!CallsAreRuns, M!CallsAreRuns

(* A step of the detail preserves what is known of its calls.              *)
LEMMA DetailKeepsCalls ==
    ASSUME ReadsInv, DetailStep
    PROVE  V!CallsInv'
<1>. USE MaxDetailsAssumption, NoKeysAssumption
<1>1. V!CallsInv /\ M!CallsInv
  BY SameInv DEF ReadsInv
<1>2. CASE [V!Next]_(V!vars)
  BY <1>1, <1>2, V!CallsStep
<1>3. CASE M!Next
  BY <1>1, <1>3, M!CallsStep, SameInv
<1>4. CASE UNCHANGED <<dKey, dGen, dCalls, dData, dLoading, page>> /\ dFailed' \in BOOLEAN
  BY <1>1, <1>4 DEF V!CallsInv, V!TypeOK, V!LoadingIsLive, V!LiveIsNewest,
                    V!CallsAreRuns, Detailed
<1>5. CASE UNCHANGED detailVars /\ page = NoPage /\ dKey = NoItem
  <2>1. \A c \in dCalls : c.cancelled
    BY <1>1, <1>5 DEF V!CallsInv, V!LiveIsNewest, Detailed, NoPage
  <2>2. V!TypeOK'
    BY <1>1, <1>5 DEF V!CallsInv, V!TypeOK, detailVars, Detailed
  <2>. QED
    BY <1>1, <1>5, <2>1, <2>2 DEF V!CallsInv, V!LoadingIsLive, V!LiveIsNewest,
                                  V!CallsAreRuns, detailVars
<1>. QED
  BY <1>2, <1>3, <1>4, <1>5 DEF DetailStep

(* In the page of the runbooks, a step keeps a settled detail current.     *)
LEMMA DetailKeepsSettled ==
    ASSUME ReadsInv, DetailStep
    PROVE  Viewer!SettledIsCurrent'
<1>. USE MaxDetailsAssumption, NoKeysAssumption
<1>. SUFFICES ASSUME page' = "runbooks"
              PROVE  Viewer!SettledIsCurrent'
  BY DEF Viewer!SettledIsCurrent
<1>1. CASE [V!Next]_(V!vars) /\ page = "runbooks"
  <2>1. V!SettledIsCurrent
    BY <1>1 DEF ReadsInv, Viewer!SettledIsCurrent, V!SettledIsCurrent, Detailed
  <2>2. V!SettledIsCurrent'
    BY <1>1, <2>1, V!SettledStep DEF ReadsInv
  <2>. QED
    BY <2>2 DEF Viewer!SettledIsCurrent, V!SettledIsCurrent, Detailed
<1>2. CASE UNCHANGED <<dKey, dGen, dCalls, dData, dLoading, dFailed, page>>
  BY <1>2 DEF ReadsInv, Viewer!SettledIsCurrent
<1>3. CASE UNCHANGED detailVars /\ dKey = NoItem
  BY <1>3 DEF Viewer!SettledIsCurrent, detailVars
<1>. QED
  BY <1>1, <1>2, <1>3 DEF DetailStep

(* The page is always one of the pages. *)
LEMMA PageStep ==
    ASSUME page \in Pages \cup OtherPages \cup {NoPage}, Next
    PROVE  page' \in Pages \cup OtherPages \cup {NoPage}
<1>1. CASE Browse \/ LeavePage
  BY <1>1 DEF Browse, OpenPage, ChangeFilter, Refresh, SelectRunbook, CloseRunbook,
              ListAnswers, DetailAnswers, LeftAnswered, LeavePage, ClosePage
<1>2. CASE RetryNext
  BY <1>2 DEF RetryNext, OpenRetry, CloseRetry, ConfirmRetry, RetryDone, RetryFailed,
              readVars
<1>3. CASE ProvidersNext
  BY <1>3 DEF ProvidersNext, StartEdit, DeleteRow, OpenTest, StartCreate, CloseForm,
              SubmitInvalid, SubmitForm, CloseTest, RunTest, WriteDone, WriteFailed,
              TestDone, ReloadChild, readVars
<1>4. CASE DrawerNext
  BY <1>4 DEF DrawerNext, OpenDrawer, CloseDrawer, ModulesAnswer, SwitchModule,
              ModuleSwitched, ModuleRefused, ChangeMembers, MembersChanged,
              MembersLoaded, MembersFailed, OpenCreate, CloseCreate, SubmitCreate,
              TenantCreated, CreateFailed, readVars
<1>5. CASE TeamNext
  BY <1>5 DEF TeamNext, OpenTeam, JumpTeam, CloseTeam, OpenInvite, CloseInvite,
              SubmitInvite, RefuseHere, DismissNotice, AskConfirm, CancelConfirm,
              AcceptConfirm, TeamChanged, TeamRefused, TeamLoaded, readVars, OtherPages
<1>6. CASE AccountNext
  BY <1>6 DEF AccountNext, OpenAccount, CloseAccount, Hydrate, HydrateFails, EditForm,
              SubmitAccount, AccountSaved, RevokeSession, SessionRevoked,
              RevokeFailed, SessionsRead, readVars, OtherPages, FormPages
<1>. QED
  BY <1>1, <1>2, <1>3, <1>4, <1>5, <1>6 DEF Next

-----------------------------------------------------------------------------
(* The invariant of the reads is inductive. *)
LEMMA ReadsStep ==
    ASSUME ReadsInv, [Next]_vars
    PROVE  ReadsInv'
<1>. USE MaxReadsAssumption, MaxDetailsAssumption, NoKeysAssumption
<1>1. CASE Next
  <2>1. L!CallsInv' /\ L!SettledIsCurrent'
    BY <1>1, ListStep, L!CallsStep, L!SettledStep DEF ReadsInv
  <2>2. V!CallsInv' /\ Viewer!SettledIsCurrent'
    BY <1>1, DetailSteps, DetailKeepsCalls, DetailKeepsSettled
  <2>. QED
    BY <1>1, <2>1, <2>2, PageStep DEF ReadsInv
<1>2. CASE UNCHANGED vars
  <2>1. UNCHANGED <<page, lKey, lGen, lCalls, lData, lLoading, lFailed,
                    dKey, dGen, dCalls, dData, dLoading, dFailed>>
    BY <1>2 DEF vars, readVars, listVars, detailVars
  <2>2. L!CallsInv' /\ L!SettledIsCurrent'
    BY <2>1, L!CallsStep, L!SettledStep DEF ReadsInv, L!vars
  <2>3. V!CallsInv' /\ Viewer!SettledIsCurrent'
    BY <2>1, V!CallsStep DEF ReadsInv, V!vars, Viewer!SettledIsCurrent, Detailed
  <2>. QED
    BY <2>1, <2>2, <2>3 DEF ReadsInv
<1>. QED
  BY <1>1, <1>2

(* The pages start with both hooks unmounted.                            *)
LEMMA ReadsStart ==
    ASSUME Init
    PROVE  ReadsInv
<1>. USE MaxReadsAssumption, MaxDetailsAssumption
<1>1. page = NoPage /\ ~Detailed /\ page \notin Pages /\ List!Init /\ Viewer!Init
  BY DEF Init, ReadsInit, Detailed, NoPage, Pages
<1>2. L!Init
  BY <1>1 DEF L!Init, List!Init, L!NoData, List!NoData
<1>3. V!Init
  BY <1>1 DEF V!Init, Viewer!Init, V!NoData, Viewer!NoData
<1>4. L!HookInv /\ V!HookInv
  BY <1>2, <1>3, L!HookStart, V!HookStart
<1>5. Viewer!SettledIsCurrent
  BY <1>1 DEF Viewer!SettledIsCurrent, NoPage
<1>. QED
  BY <1>1, <1>4, <1>5 DEF ReadsInv, L!HookInv, V!HookInv

(* In every state of the pages the list is a hook with all its facts, and *)
(* the detail, whose error the modules panel sets too, keeps those of them *)
(* that do not look at the error.                                          *)
THEOREM ReadsInvariant == Spec => []ReadsInv
<1>1. Init => ReadsInv
  BY ReadsStart
<1>2. ReadsInv /\ [Next]_vars => ReadsInv'
  BY ReadsStep
<1>. QED
  BY <1>1, <1>2, PTL DEF Spec

(* A spinner is on exactly while the newest request of its hook is         *)
(* unanswered (the finally of the hooks).                                  *)
THEOREM SpinnerHonestHolds == Spec => []SpinnerHonest
<1>1. ReadsInv => SpinnerHonest
  BY DEF ReadsInv, SpinnerHonest, L!CallsInv, V!CallsInv, L!LoadingIsLive,
         V!LoadingIsLive, List!LoadingIsLive, Viewer!LoadingIsLive
<1>. QED
  BY <1>1, ReadsInvariant, PTL

(* A screen that has settled answers what is selected (the cancelled flag  *)
(* of the hooks), whatever was asked before and however late it is         *)
(* answered.                                                               *)
THEOREM SettledIsSelectedHolds == Spec => []SettledIsSelected
<1>1. ReadsInv => SettledIsSelected
  BY DEF ReadsInv, SettledIsSelected, L!SettledIsCurrent, List!SettledIsCurrent
<1>. QED
  BY <1>1, ReadsInvariant, PTL

-----------------------------------------------------------------------------
(* Every step of the pages is a step of the abstract reader, or none, for  *)
(* the list and for the detail.                                            *)
LEMMA ListReads ==
    ASSUME ReadsInv, [Next]_vars
    PROVE  [List!Reader!Next]_(List!Reader!vars)
<1>1. [L!Next]_(L!vars)
  BY ListStep DEF vars, readVars, listVars, L!vars
<1>2. [L!Reader!Next]_(L!Reader!vars)
  BY <1>1, L!HookImplementsReader, MaxReadsAssumption DEF ReadsInv
<1>. QED
  BY <1>2 DEF L!Reader!Next, L!Reader!Ask, L!Reader!Show, L!Reader!Clear, L!Reader!vars,
              List!Reader!Next, List!Reader!Ask, List!Reader!Show, List!Reader!Clear,
              List!Reader!vars

(* Every step of the pages is, for the detail, one of the reader or none. *)
LEMMA DetailReads ==
    ASSUME ReadsInv, [Next]_vars
    PROVE  [Viewer!Reader!Next]_(Viewer!Reader!vars)
<1>. USE MaxDetailsAssumption DEF Viewer!Reader!Next, Viewer!Reader!Ask, Viewer!Reader!Show,
         Viewer!Reader!Clear, Viewer!Reader!vars
<1>1. V!CallsInv /\ M!CallsInv
  BY SameInv DEF ReadsInv
<1>2. CASE [V!Next]_(V!vars)
  <2>1. [V!Reader!Next]_(V!Reader!vars)
    BY <1>1, <1>2, V!HookImplementsReader
  <2>. QED
    BY <2>1 DEF V!Reader!Next, V!Reader!Ask, V!Reader!Show, V!Reader!Clear, V!Reader!vars
<1>3. CASE M!Next
  <2>1. [M!Reader!Next]_(M!Reader!vars)
    BY <1>1, <1>3, M!HookImplementsReader
  <2>. QED
    BY <2>1 DEF M!Reader!Next, M!Reader!Ask, M!Reader!Show, M!Reader!Clear, M!Reader!vars
<1>4. CASE UNCHANGED <<dGen, dData>>
  BY <1>4
<1>5. CASE UNCHANGED vars
  BY <1>4, <1>5 DEF vars, readVars, detailVars
<1>6. CASE Next
  BY <1>2, <1>3, <1>4, <1>6, DetailSteps DEF DetailStep, detailVars
<1>. QED
  BY <1>5, <1>6

(* The list and the detail of the pages implement LatestRead: a late       *)
(* answer never replaces the answer of a newer request.                    *)
THEOREM ReadsRefineReader == Spec => ReadsImplementReader
<1>1. Init => List!Reader!Init /\ Viewer!Reader!Init
  BY DEF Init, ReadsInit, List!Init, Viewer!Init, List!Reader!Init, Viewer!Reader!Init,
         List!NoData, Viewer!NoData
<1>2. ReadsInv /\ [Next]_vars => [List!Reader!Next]_(List!Reader!vars)
  BY ListReads
<1>3. ReadsInv /\ [Next]_vars => [Viewer!Reader!Next]_(Viewer!Reader!vars)
  BY DetailReads
<1>4. Spec => []ReadsInv
  BY ReadsInvariant
<1>. QED
  BY <1>1, <1>2, <1>3, <1>4, PTL
  DEF Spec, ReadsImplementReader, List!ReaderSpec, Viewer!ReaderSpec,
      List!Reader!Spec, Viewer!Reader!Spec

-----------------------------------------------------------------------------
(***************************************************************************)
(* The forms and dialogs of PanelPages, for any filters, rows and modules, *)
(* and any bounds: nothing is submitted twice, a result is shown in the    *)
(* dialog it belongs to, a drawer holds the rows of its tenant, and what a *)
(* page draws was read.                                                    *)
(*                                                                         *)
(* Each form has an invariant of its own, preserved by its own actions and *)
(* by what the others do to the page and to the hooks.  They need one      *)
(* another in one place only: a page reads its list again when one of its  *)
(* own requests ends, so the forms of the other pages must be known to be  *)
(* closed then.                                                            *)
(***************************************************************************)

(* The pages with rows to edit and test, and the ones of the account. *)
ProviderPages == {"ai", "email"}
AccountPages  == FormPages \cup {"sessions"}

(* A set that holds one request while the flag is set, and none otherwise. *)
Guarded(flag, S) ==
    /\ flag => \E c \in S : S = {c}
    /\ ~flag => S = {}

(* A page that is on the screen has asked for its list. *)
ListAsked == page \in Pages => lKey # NoFilter /\ lGen # 0

(* The dialog of the dead letters lives and dies with its page. *)
RetryInv ==
    /\ RetryTypeOK
    /\ (retryTenant # NoItem \/ retryCalls # {}) => page = "dlq"
    /\ Guarded(retrying, retryCalls)

(* The saves and the tests that the child on the screen has sent. *)
MySaves == {w \in writes : w.op = "save" /\ w.child = Child}
MyTests == {w \in writes : w.op = "test" /\ w.child = Child}

(* Forms and test dialogs are of the child on the screen; a child has no   *)
(* requests before it is mounted, and none outlives its page.              *)
ProvidersInv ==
    /\ ProvidersTypeOK
    /\ page \notin ProviderPages =>
          writes = {} /\ ~saving /\ ~testing /\ editing = NoItem /\ testRow = NoItem
    /\ \A w \in writes : w.child <= Child
    /\ Guarded(saving, MySaves)
    /\ Guarded(testing, MyTests)
    /\ testing => testRow # NoItem /\ \A w \in MyTests : w.row = testRow
    /\ ResultOfTheRow

(* On the AI page nothing is deleted, so the only request that brings a    *)
(* new child is the save of the form that is open.                         *)
AiInv ==
    page = "ai" =>
        /\ \A w \in writes : w.op # "delete" /\ (w.op = "save" => w \in MySaves /\ w.row = editing)
        /\ saving => editing # NoItem

(* What is in flight for the drawer that is open was asked for its tenant; *)
(* a modules hook without a tenant has no rows.                            *)
DrawerHolds ==
    /\ DrawerOpen => dGen # 0
    /\ \A c \in toggles \cup memberCalls :
          c.drawer <= dGen /\ (DrawerOpen /\ c.drawer = dGen => c.tenant = dKey)
    /\ dKey = NoItem => dData = Modules!NoData
    /\ DrawerOfOneTenant

(* The dialog that creates a tenant is of the fleet, and sends once. *)
DialogHolds ==
    /\ (createOpen \/ creates # {}) => page = "fleet"
    /\ Guarded(creating, creates)

(* The fleet page: its drawer and its dialog. *)
DrawerInv == DrawerTypeOK /\ DrawerHolds /\ DialogHolds

(* The requests of a change of the team: the change and the read after it. *)
Chain == {c \in teamCalls : c.by # "effect"}

(* While a confirmation is open nothing is being changed, and nothing else *)
(* can be submitted.                                                       *)
TeamInv ==
    /\ TeamTypeOK
    /\ page = "team" => teamTenant \in Items
    /\ page # "team" => teamCalls = {} /\ ~teamBusy /\ ~inviteOpen /\ confirmFor = NoItem
    /\ \A c \in teamCalls : c.step = "change" => c \in Chain
    /\ Guarded(teamBusy, Chain)
    /\ confirmFor # NoItem => ~teamBusy /\ ~inviteOpen

(* A form of the account has one save out while it says so; the spinner of *)
(* the sessions stands for a read.                                         *)
AccountInv ==
    /\ AccountTypeOK
    /\ Guarded(accSaving, saves)
    /\ sessLoading => \E c \in sessCalls : c.op = "read"

(* The inductive invariant: the hooks, and one part for each form. *)
PagesInv ==
    /\ ReadsInv
    /\ ListAsked
    /\ RetryInv
    /\ ProvidersInv
    /\ AiInv
    /\ DrawerInv
    /\ TeamInv
    /\ AccountInv
    /\ left \subseteq Submission

-----------------------------------------------------------------------------
(* What a step does to the page, seen from the forms.                      *)

(* The blank page is left for a page of the platform, which the browsing   *)
(* opens, or for one of the others.                                        *)
LEMMA LeavesPages ==
    ASSUME Next, page' # page
    PROVE  /\ TeamNext => {page, page'} = {NoPage, "team"}
           /\ AccountNext => NoPage \in {page, page'} /\ {page, page'} \subseteq AccountPages \cup {NoPage}
           /\ Browse => page = NoPage /\ page' \in Pages
           /\ LeavePage => page \in Pages /\ page' = NoPage
           /\ RetryNext \/ ProvidersNext \/ DrawerNext => FALSE
<1>1. TeamNext => {page, page'} = {NoPage, "team"}
  BY DEF TeamNext, OpenTeam, JumpTeam, CloseTeam, OpenInvite, CloseInvite,
         SubmitInvite, RefuseHere, DismissNotice, AskConfirm, CancelConfirm,
         AcceptConfirm, TeamChanged, TeamRefused, TeamLoaded, readVars
<1>2. AccountNext => NoPage \in {page, page'} /\ {page, page'} \subseteq AccountPages \cup {NoPage}
  BY DEF AccountNext, OpenAccount, CloseAccount, Hydrate, HydrateFails, EditForm,
         SubmitAccount, AccountSaved, RevokeSession, SessionRevoked, RevokeFailed,
         SessionsRead, readVars, AccountPages
<1>3. Browse => page = NoPage /\ page' \in Pages
  BY DEF Browse, OpenPage, ChangeFilter, Refresh, SelectRunbook, CloseRunbook,
         ListAnswers, DetailAnswers, LeftAnswered
<1>4. LeavePage => page \in Pages /\ page' = NoPage
  BY DEF LeavePage, ClosePage
<1>5. RetryNext => FALSE
  BY DEF RetryNext, OpenRetry, CloseRetry, ConfirmRetry, RetryDone, RetryFailed, readVars
<1>6. ProvidersNext => FALSE
  BY DEF ProvidersNext, StartEdit, DeleteRow, OpenTest, StartCreate, CloseForm,
         SubmitInvalid, SubmitForm, CloseTest, RunTest, WriteDone, WriteFailed,
         TestDone, ReloadChild, readVars
<1>7. DrawerNext => FALSE
  BY DEF DrawerNext, OpenDrawer, CloseDrawer, ModulesAnswer, SwitchModule,
         ModuleSwitched, ModuleRefused, ChangeMembers, MembersChanged, MembersLoaded,
         MembersFailed, OpenCreate, CloseCreate, SubmitCreate, TenantCreated,
         CreateFailed, readVars
<1>. QED
  BY <1>1, <1>2, <1>3, <1>4, <1>5, <1>6, <1>7

(* The list of a page on the screen has been asked for. *)
LEMMA ListAskedStep ==
    ASSUME ReadsInv, ListAsked, Next
    PROVE  ListAsked'
<1>. USE FiltersAssumption, NoKeysAssumption, MaxReadsAssumption
<1>1. lGen \in Nat
  BY DEF ReadsInv, L!CallsInv, L!TypeOK
<1>2. DefaultFilter \in Filters
  BY DEF DefaultFilter
<1>3. ASSUME UNCHANGED <<page, lKey, lGen>> \/ page' \notin Pages
      PROVE  ListAsked'
  BY <1>3 DEF ListAsked
<1>4. ASSUME List!Reload, page' = page, page \in Pages
      PROVE  ListAsked'
  BY <1>1, <1>4 DEF ListAsked, List!Reload, List!Ask
<1>5. CASE Browse
  <2>1. ASSUME NEW p \in Pages, OpenPage(p)
        PROVE  ListAsked'
    BY <1>1, <1>2, <2>1 DEF ListAsked, OpenPage, List!Mount, List!Ask
  <2>2. ASSUME NEW f \in Filters, ChangeFilter(f)
        PROVE  ListAsked'
    BY <1>1, <2>2 DEF ListAsked, ChangeFilter, List!Rekey, List!Ask
  <2>3. CASE Refresh
    BY <1>4, <2>3 DEF Refresh
  <2>4. CASE (\E i \in Items : SelectRunbook(i)) \/ CloseRunbook \/ ListAnswers
             \/ DetailAnswers \/ LeftAnswered
    BY <1>3, <2>4 DEF SelectRunbook, CloseRunbook, ListAnswers, DetailAnswers, LeftAnswered,
                      listVars, List!Resolve, List!Reject
  <2>. QED
    BY <1>5, <2>1, <2>2, <2>3, <2>4 DEF Browse
<1>6. CASE LeavePage
  BY <1>3, <1>6 DEF LeavePage, ClosePage, NoPage, Pages
<1>7. CASE RetryNext
  BY <1>3, <1>4, <1>7 DEF RetryNext, OpenRetry, CloseRetry, ConfirmRetry, RetryDone,
                          RetryFailed, readVars, listVars, List!Reload
<1>8. CASE ProvidersNext
  BY <1>3, <1>4, <1>8 DEF ProvidersNext, StartEdit, DeleteRow, OpenTest, StartCreate,
                    CloseForm, SubmitInvalid, SubmitForm, CloseTest, RunTest,
                    WriteDone, WriteFailed, TestDone, ReloadChild, readVars, listVars,
                    List!Reload
<1>9. CASE DrawerNext
  BY <1>3, <1>4, <1>9 DEF DrawerNext, OpenDrawer, CloseDrawer, ModulesAnswer,
                    SwitchModule, ModuleSwitched, ModuleRefused, ChangeMembers,
                    MembersChanged, MembersLoaded, MembersFailed, OpenCreate,
                    CloseCreate, SubmitCreate, TenantCreated, CreateFailed, readVars,
                    listVars, List!Reload
<1>10. CASE TeamNext
  BY <1>3, <1>10 DEF TeamNext, OpenTeam, JumpTeam, CloseTeam, OpenInvite, CloseInvite,
              SubmitInvite, RefuseHere, DismissNotice, AskConfirm, CancelConfirm,
              AcceptConfirm, TeamChanged, TeamRefused, TeamLoaded, readVars, listVars,
              NoPage, Pages
<1>11. CASE AccountNext
  BY <1>3, <1>11 DEF AccountNext, OpenAccount, CloseAccount, Hydrate, HydrateFails,
              EditForm, SubmitAccount, AccountSaved, RevokeSession, SessionRevoked,
              RevokeFailed, SessionsRead, readVars, listVars, FormPages, NoPage, Pages
<1>. QED
  BY <1>5, <1>6, <1>7, <1>8, <1>9, <1>10, <1>11 DEF Next

-----------------------------------------------------------------------------
(* The bulk retry of the dead letters. *)

(* The dialog of the dead letters, and what becomes of its request. *)
LEMMA RetryKeeps ==
    ASSUME RetryInv, RetryNext
    PROVE  RetryInv'
<1>. USE MaxRetriesAssumption
<1>1. RetryTypeOK /\ Guarded(retrying, retryCalls)
  BY DEF RetryInv
<1>2. ASSUME NEW t \in Items, OpenRetry(t)
      PROVE  RetryInv'
  BY <1>1, <1>2 DEF RetryInv, RetryTypeOK, OpenRetry, readVars, Guarded
<1>3. CASE CloseRetry
  BY <1>1, <1>3 DEF RetryInv, RetryTypeOK, CloseRetry, readVars, Guarded
<1>4. CASE ConfirmRetry
  <2>. DEFINE new == [n |-> retries + 1, tenant |-> retryTenant]
  <2>1. retryCalls' = {new}
    BY <1>1, <1>4 DEF ConfirmRetry, Guarded
  <2>2. retries + 1 \in 1..MaxRetries /\ retryTenant \in Items
    BY <1>1, <1>4 DEF ConfirmRetry, RetryTypeOK
  <2>3. new \in [n : 1..MaxRetries, tenant : Items]
    BY <2>2
  <2>. HIDE DEF new
  <2>4. retryCalls' \subseteq [n : 1..MaxRetries, tenant : Items] /\ retries' \in 0..MaxRetries
    BY <1>4, <2>1, <2>2, <2>3 DEF ConfirmRetry
  <2>5. RetryTypeOK'
    BY <1>1, <1>4, <2>4 DEF RetryTypeOK, ConfirmRetry
  <2>. QED
    BY <1>4, <2>1, <2>5 DEF RetryInv, ConfirmRetry, readVars, Guarded
<1>5. ASSUME NEW c \in retryCalls, RetryDone(c) \/ RetryFailed(c)
      PROVE  RetryInv'
  <2>1. retryCalls' = {}
    BY <1>1, <1>5 DEF RetryDone, RetryFailed, Guarded
  <2>2. c.tenant \in Items
    BY <1>1 DEF RetryTypeOK
  <2>3. page = "dlq" /\ page' = page /\ retryTenant' = retryTenant /\ ~retrying'
    BY <1>5 DEF RetryInv, RetryDone, RetryFailed, readVars
  <2>4. RetryTypeOK'
    BY <1>1, <1>5, <2>1, <2>2, <2>3 DEF RetryTypeOK, RetryDone, RetryFailed, readVars
  <2>. QED
    BY <2>1, <2>3, <2>4 DEF RetryInv, Guarded
<1>. QED
  BY <1>2, <1>3, <1>4, <1>5 DEF RetryNext

(* Nothing else touches it, and a page that is left takes it away. *)
LEMMA RetryStep ==
    ASSUME RetryInv, Next
    PROVE  RetryInv'
<1>1. CASE LeavePage
  <2>1. 0 \in 0..MaxRetries
    BY MaxRetriesAssumption
  <2>. QED
    BY <1>1, <2>1 DEF LeavePage, RetryUnmount, RetryInv, RetryTypeOK, Guarded
<1>2. ASSUME UNCHANGED retryVars, page' = page \/ page # "dlq"
      PROVE  RetryInv'
  BY <1>2 DEF RetryInv, RetryTypeOK, retryVars, Guarded
<1>3. CASE Browse
  BY <1>2, <1>3, LeavesPages DEF Browse, NoPage
<1>4. CASE (ProvidersNext \/ DrawerNext \/ TeamNext \/ AccountNext) /\ UNCHANGED retryVars
  <2>1. page' = page \/ page # "dlq"
    BY <1>4, LeavesPages DEF NoPage, AccountPages, FormPages
  <2>. QED
    BY <1>2, <1>4, <2>1
<1>. QED
  BY <1>1, <1>3, <1>4, RetryKeeps DEF Next

-----------------------------------------------------------------------------
(* The team of a tenant. *)

(* A request that starts is one of the requests of the page. *)
LEMMA NewTeamCall ==
    ASSUME TeamTypeOK, teamSent < MaxTeam,
           NEW step \in {"change", "load"}, NEW by \in {"effect", "invite", "row"},
           NEW t \in Items
    PROVE  /\ [n |-> teamSent + 1, step |-> step, by |-> by, tenant |-> t] \in TeamCall
           /\ teamSent + 1 \in 0..MaxTeam
<1>1. teamSent + 1 \in 1..MaxTeam
  BY MaxTeamAssumption DEF TeamTypeOK
<1>. QED
  BY <1>1, MaxTeamAssumption DEF TeamCall

(* A change that starts is alone: the lock was free.  *)
LEMMA ChangeStarts ==
    ASSUME TeamInv, page = "team", ~teamBusy,
           NEW t \in Items, NEW by \in {"invite", "row"}, StartChange(t, by),
           UNCHANGED <<page, teamTenant, teamRows, teamLoading>>,
           inviteOpen' \in BOOLEAN, confirmFor' = NoItem
    PROVE  TeamInv'
<1>. DEFINE new == [n |-> teamSent + 1, step |-> "change", by |-> by, tenant |-> t]
<1>1. teamCalls' = teamCalls \cup {new} /\ teamSent' = teamSent + 1 /\ teamBusy' = TRUE
      /\ teamNotice' = "none" /\ teamSent < MaxTeam
  BY DEF StartChange
<1>2. TeamTypeOK /\ Chain = {}
  BY DEF TeamInv, Guarded
<1>3. new \in TeamCall /\ teamSent' \in 0..MaxTeam
  BY <1>1, <1>2, NewTeamCall
<1>4. new.by # "effect"
  OBVIOUS
<1>. HIDE DEF new
<1>5. Chain' = {new}
  BY <1>1, <1>2, <1>4 DEF Chain
<1>6. teamCalls' \subseteq TeamCall
  BY <1>1, <1>2, <1>3 DEF TeamTypeOK
<1>7. TeamTypeOK'
  BY <1>1, <1>2, <1>3, <1>6 DEF TeamTypeOK
<1>8. \A c \in teamCalls' : c.step = "change" => c \in Chain'
  BY <1>1, <1>4, <1>5 DEF TeamInv, Chain
<1>. QED
  BY <1>1, <1>5, <1>7, <1>8 DEF TeamInv, Guarded

(* Nothing is sent and the lock stays. *)
LEMMA TeamIdles ==
    ASSUME TeamInv, UNCHANGED <<page, teamTenant, teamRows, teamLoading, teamBusy, teamCalls, teamSent>>,
           teamNotice' \in {"none", "error", "success"}, inviteOpen' \in BOOLEAN,
           confirmFor' \in Items \cup {NoItem},
           page # "team" => ~inviteOpen' /\ confirmFor' = NoItem,
           confirmFor' # NoItem => ~teamBusy /\ ~inviteOpen'
    PROVE  TeamInv'
<1>1. Chain' = Chain
  BY DEF Chain
<1>2. TeamTypeOK'
  BY DEF TeamInv, TeamTypeOK
<1>. QED
  BY <1>1, <1>2 DEF TeamInv, Guarded

(* What the effect of the page asks for is no change. *)
LEMMA EffectStarts ==
    ASSUME TeamInv, NEW t \in Items, NEW others \in SUBSET teamCalls,
           StartLoad(t, "effect", others), page' = "team", teamTenant' = t,
           Chain \subseteq others,
           UNCHANGED <<teamRows, teamBusy, inviteOpen, confirmFor>>
    PROVE  TeamInv'
<1>. DEFINE new == [n |-> teamSent + 1, step |-> "load", by |-> "effect", tenant |-> t]
<1>1. teamCalls' = others \cup {new} /\ teamSent' = teamSent + 1 /\ teamLoading' = TRUE
      /\ teamNotice' = "none" /\ teamSent < MaxTeam
  BY DEF StartLoad
<1>2. TeamTypeOK
  BY DEF TeamInv
<1>3. new \in TeamCall /\ teamSent' \in 0..MaxTeam
  BY <1>1, <1>2, NewTeamCall
<1>4. new.by = "effect" /\ new.step = "load"
  OBVIOUS
<1>. HIDE DEF new
<1>5. Chain' = Chain
  BY <1>1, <1>4 DEF Chain
<1>6. teamCalls' \subseteq TeamCall
  BY <1>1, <1>2, <1>3 DEF TeamTypeOK
<1>7. TeamTypeOK'
  BY <1>1, <1>2, <1>3, <1>6 DEF TeamTypeOK
<1>8. \A c \in teamCalls' : c.step = "change" => c \in Chain'
  BY <1>1, <1>4, <1>5 DEF TeamInv
<1>. QED
  BY <1>5, <1>7, <1>8 DEF TeamInv, Guarded

(* The page of the team, action by action. *)
LEMMA TeamKeeps ==
    ASSUME TeamInv, TeamNext
    PROVE  TeamInv'
<1>. USE NoKeysAssumption
<1>1. TeamTypeOK /\ Guarded(teamBusy, Chain)
  BY DEF TeamInv
<1>2. page # "team" => Chain = {} /\ teamCalls = {}
  BY DEF TeamInv, Chain
<1>3. ASSUME NEW t \in Items, OpenTeam(t)
      PROVE  TeamInv'
  <2>1. Chain = {}
    BY <1>2, <1>3 DEF OpenTeam, NoPage
  <2>. QED
    BY <1>3, <2>1, EffectStarts DEF OpenTeam
<1>4. ASSUME NEW t \in Items, JumpTeam(t)
      PROVE  TeamInv'
  <2>1. Chain \subseteq teamCalls
    BY DEF Chain
  <2>. QED
    BY <1>4, <2>1, EffectStarts DEF JumpTeam, readVars
<1>5. CASE CloseTeam
  <2>1. 0 \in 0..MaxTeam
    BY MaxTeamAssumption
  <2>2. Chain' = {}
    BY <1>5 DEF CloseTeam, Chain
  <2>. QED
    BY <1>5, <2>1, <2>2 DEF CloseTeam, TeamInv, TeamTypeOK, NoPage, Guarded
<1>6. CASE OpenInvite \/ CloseInvite
  BY <1>1, <1>6, TeamIdles DEF OpenInvite, CloseInvite, readVars, TeamInv, TeamTypeOK
<1>7. CASE RefuseHere \/ DismissNotice
  BY <1>1, <1>7, TeamIdles DEF RefuseHere, DismissNotice, readVars, TeamInv, TeamTypeOK
<1>8. CASE AskConfirm \/ CancelConfirm
  BY <1>1, <1>8, TeamIdles DEF AskConfirm, CancelConfirm, readVars, TeamInv, TeamTypeOK
<1>9. CASE SubmitInvite
  <2>1. page = "team" /\ teamTenant \in Items /\ confirmFor = NoItem
    BY <1>9 DEF SubmitInvite, TeamInv
  <2>. QED
    BY <1>1, <1>9, <2>1, ChangeStarts DEF SubmitInvite, readVars, TeamTypeOK
<1>10. CASE AcceptConfirm
  <2>1. page = "team" /\ confirmFor \in Items /\ ~teamBusy
    BY <1>1, <1>10 DEF AcceptConfirm, TeamInv, TeamTypeOK
  <2>. QED
    BY <1>1, <1>10, <2>1, ChangeStarts DEF AcceptConfirm, readVars, TeamTypeOK
<1>11. ASSUME NEW c \in teamCalls, TeamChanged(c)
       PROVE  TeamInv'
  <2>. DEFINE new == [n |-> teamSent + 1, step |-> "load", by |-> c.by, tenant |-> c.tenant]
  <2>1. c \in TeamCall /\ c \in Chain /\ teamBusy
    BY <1>1, <1>11 DEF TeamChanged, TeamInv, TeamTypeOK, Guarded
  <2>2. c.by \in {"invite", "row"} /\ c.tenant \in Items
    BY <2>1 DEF TeamCall, Chain
  <2>3. Chain = {c} /\ confirmFor = NoItem /\ page = "team"
    BY <1>1, <1>2, <2>1 DEF Guarded, TeamInv
  <2>4. teamCalls' = (teamCalls \ {c}) \cup {new} /\ teamSent' = teamSent + 1
        /\ teamLoading' = TRUE /\ teamNotice' = "none" /\ teamSent < MaxTeam
        /\ UNCHANGED <<page, teamTenant, teamRows, teamBusy, confirmFor>>
        /\ inviteOpen' \in BOOLEAN
    BY <1>11 DEF TeamChanged, StartLoad, readVars
  <2>5. new \in TeamCall /\ teamSent' \in 0..MaxTeam
    BY <1>1, <2>2, <2>4, NewTeamCall
  <2>6. new.by # "effect" /\ new.step = "load"
    BY <2>2
  <2>. HIDE DEF new
  <2>7. Chain' = {new}
    BY <2>3, <2>4, <2>6 DEF Chain
  <2>8. teamCalls' \subseteq TeamCall
    BY <1>1, <2>4, <2>5 DEF TeamTypeOK
  <2>9. TeamTypeOK'
    BY <1>1, <2>4, <2>5, <2>8 DEF TeamTypeOK
  <2>10. \A d \in teamCalls' : d.step = "change" => d \in Chain'
    BY <2>3, <2>4, <2>6 DEF TeamInv
  <2>. QED
    BY <2>1, <2>3, <2>4, <2>7, <2>9, <2>10 DEF TeamInv, Guarded
<1>12. ASSUME NEW c \in teamCalls, TeamRefused(c)
       PROVE  TeamInv'
  <2>1. c \in Chain /\ Chain = {c}
    BY <1>1, <1>12 DEF TeamRefused, TeamInv, Guarded
  <2>2. teamCalls' = teamCalls \ {c} /\ teamBusy' = FALSE /\ teamNotice' = "error"
        /\ UNCHANGED <<page, teamTenant, teamRows, teamLoading, inviteOpen, confirmFor, teamSent>>
    BY <1>12 DEF TeamRefused, readVars
  <2>3. Chain' = {}
    BY <2>1, <2>2 DEF Chain
  <2>4. TeamTypeOK'
    BY <1>1, <2>2 DEF TeamTypeOK
  <2>5. \A d \in teamCalls' : d.step = "change" => d \in Chain'
    BY <2>1, <2>2 DEF TeamInv
  <2>. QED
    BY <1>2, <2>1, <2>2, <2>3, <2>4, <2>5 DEF TeamInv, Guarded
<1>13. ASSUME NEW c \in teamCalls, TeamLoaded(c)
       PROVE  TeamInv'
  <2>1. teamCalls' = teamCalls \ {c} /\ teamLoading' = FALSE
        /\ teamBusy' = (teamBusy /\ c.by = "effect")
        /\ UNCHANGED <<page, teamTenant, inviteOpen, confirmFor, teamSent>>
        /\ teamRows' \in {c.tenant, teamRows} /\ teamNotice' \in {"error", teamNotice}
        /\ c.step = "load"
    BY <1>13 DEF TeamLoaded, readVars
  <2>2. c \in TeamCall /\ page = "team"
    BY <1>1, <1>2 DEF TeamTypeOK
  <2>3. c.tenant \in Items
    BY <2>2 DEF TeamCall
  <2>4. TeamTypeOK'
    BY <1>1, <2>1, <2>3 DEF TeamTypeOK
  <2>5. Guarded(teamBusy', Chain')
    <3>1. CASE c.by = "effect"
      <4>1. Chain' = Chain
        BY <2>1, <3>1 DEF Chain
      <4>2. teamBusy' = teamBusy
        BY <1>1, <2>1, <3>1 DEF TeamTypeOK
      <4>. QED
        BY <1>1, <4>1, <4>2
    <3>2. CASE c.by # "effect"
      <4>1. Chain = {c}
        BY <1>1, <3>2 DEF Chain, Guarded
      <4>2. Chain' = {}
        BY <2>1, <4>1 DEF Chain
      <4>. QED
        BY <2>1, <3>2, <4>2 DEF Guarded
    <3>. QED
      BY <3>1, <3>2
  <2>6. \A d \in teamCalls' : d.step = "change" => d \in Chain'
    BY <2>1 DEF TeamInv, Chain
  <2>. QED
    BY <2>1, <2>2, <2>4, <2>5, <2>6 DEF TeamInv
<1>. QED
  BY <1>3, <1>4, <1>5, <1>6, <1>7, <1>8, <1>9, <1>10, <1>11, <1>12, <1>13 DEF TeamNext

(* No other page touches the team. *)
LEMMA TeamStep ==
    ASSUME TeamInv, Next
    PROVE  TeamInv'
<1>1. CASE ~TeamNext
  <2>1. UNCHANGED teamVars
    BY <1>1 DEF Next, Browse, LeavePage
  <2>2. page' = page \/ (page # "team" /\ page' # "team")
    BY <1>1, LeavesPages DEF Next, NoPage, AccountPages, FormPages, Pages
  <2>3. Chain' = Chain
    BY <2>1 DEF teamVars, Chain
  <2>. QED
    BY <2>1, <2>2, <2>3 DEF TeamInv, TeamTypeOK, teamVars, Guarded
<1>. QED
  BY <1>1, TeamKeeps

-----------------------------------------------------------------------------
(* The account pages. *)

(* What happens to the form leaves the sessions alone. *)
LEMMA FormKeeps ==
    ASSUME AccountInv, UNCHANGED sessVars, form' \in Forms, hydrating' \in BOOLEAN,
           saves' \subseteq Forms, accSaving' \in BOOLEAN, accError' \in BOOLEAN,
           accSent' \in 0..MaxAccount, Guarded(accSaving', saves')
    PROVE  AccountInv'
BY DEF AccountInv, AccountTypeOK, sessVars

(* What happens to the sessions leaves the form alone. *)
LEMMA SessionsKeep ==
    ASSUME AccountInv, UNCHANGED accFormVars, sessRows' \in 0..MaxAccount,
           sessLoading' \in BOOLEAN, sessCalls' \subseteq SessCall,
           accSent' \in 0..MaxAccount,
           sessLoading' => \E c \in sessCalls' : c.op = "read"
    PROVE  AccountInv'
BY DEF AccountInv, AccountTypeOK, accFormVars, Guarded

(* The account pages, action by action. *)
LEMMA AccountKeeps ==
    ASSUME AccountInv, AccountNext
    PROVE  AccountInv'
<1>. USE MaxAccountAssumption
<1>1. AccountTypeOK /\ Guarded(accSaving, saves)
  BY DEF AccountInv
<1>2. 0 \in 0..MaxAccount /\ 1 \in 0..MaxAccount /\ 1 \in 1..MaxAccount
  OBVIOUS
<1>3. ASSUME NEW p \in AccountPages, OpenAccount(p)
      PROVE  AccountInv'
  <2>1. CASE p = "sessions"
    <3>1. sessCalls' = {[n |-> 1, op |-> "read"]} /\ sessLoading' = TRUE
          /\ UNCHANGED <<form, hydrating, saves, accSaving, accError, sessRows>> /\ accSent' = 1
      BY <1>3, <2>1 DEF OpenAccount
    <3>2. [n |-> 1, op |-> "read"] \in SessCall
      BY <1>2 DEF SessCall
    <3>3. sessCalls' \subseteq SessCall /\ \E c \in sessCalls' : c.op = "read"
      BY <3>1, <3>2
    <3>4. UNCHANGED accFormVars /\ sessRows' \in 0..MaxAccount /\ sessLoading' \in BOOLEAN
          /\ accSent' \in 0..MaxAccount
      BY <1>1, <1>2, <3>1 DEF accFormVars, AccountTypeOK
    <3>. QED
      BY <3>3, <3>4, SessionsKeep
  <2>2. CASE p # "sessions"
    <3>1. hydrating' = TRUE /\ accSent' = 1
          /\ UNCHANGED <<form, saves, accSaving, accError, sessRows, sessLoading, sessCalls>>
      BY <1>3, <2>2 DEF OpenAccount
    <3>. QED
      BY <1>1, <1>2, <3>1, FormKeeps DEF sessVars, AccountTypeOK
  <2>. QED
    BY <2>1, <2>2
<1>4. CASE CloseAccount
  <2>1. Initial \in Forms
    BY DEF Initial, Forms
  <2>. QED
    BY <1>2, <1>4, <2>1 DEF CloseAccount, AccountInv, AccountTypeOK, Guarded
<1>5. ASSUME NEW stored \in SUBSET Fields, Hydrate(stored)
      PROVE  AccountInv'
  <2>1. form' = [f \in Fields |-> IF f \in stored THEN "server" ELSE form[f]]
        /\ hydrating' = FALSE /\ UNCHANGED <<saves, accSaving, accError, sessVars, accSent>>
    BY <1>5 DEF Hydrate
  <2>2. form' \in Forms
    BY <1>1, <2>1 DEF AccountTypeOK, Forms
  <2>. QED
    BY <1>1, <2>1, <2>2, FormKeeps DEF AccountTypeOK
<1>6. CASE HydrateFails
  BY <1>5, <1>6 DEF HydrateFails
<1>7. ASSUME NEW f \in Fields, EditForm(f)
      PROVE  AccountInv'
  <2>1. form' \in Forms
    BY <1>1, <1>7 DEF AccountTypeOK, Forms, EditForm
  <2>. QED
    BY <1>1, <1>7, <2>1, FormKeeps DEF EditForm, AccountTypeOK
<1>8. CASE SubmitAccount
  <2>1. saves' = {form} /\ accSaving' = TRUE
    BY <1>1, <1>8 DEF SubmitAccount, Guarded
  <2>2. accSent' \in 0..MaxAccount
    BY <1>1, <1>8 DEF SubmitAccount, AccountTypeOK
  <2>3. Guarded(accSaving', saves')
    BY <2>1 DEF Guarded
  <2>4. saves' \subseteq Forms
    BY <1>1, <2>1 DEF AccountTypeOK
  <2>. QED
    BY <1>1, <1>8, <2>1, <2>2, <2>3, <2>4, FormKeeps DEF SubmitAccount, AccountTypeOK
<1>9. ASSUME NEW s \in saves, AccountSaved(s)
      PROVE  AccountInv'
  <2>1. saves' = {} /\ accSaving' = FALSE
    BY <1>1, <1>9 DEF AccountSaved, Guarded
  <2>2. Guarded(accSaving', saves')
    BY <2>1 DEF Guarded
  <2>. QED
    BY <1>1, <1>9, <2>1, <2>2, FormKeeps DEF AccountSaved, AccountTypeOK
<1>10. CASE RevokeSession
  <2>1. accSent + 1 \in 1..MaxAccount
    BY <1>1, <1>10 DEF RevokeSession, AccountTypeOK
  <2>2. [n |-> accSent + 1, op |-> "revoke"] \in SessCall /\ accSent + 1 \in 0..MaxAccount
    BY <2>1 DEF SessCall
  <2>3. sessCalls' \subseteq SessCall /\ sessCalls \subseteq sessCalls'
    BY <1>1, <1>10, <2>2 DEF RevokeSession, AccountTypeOK
  <2>4. sessLoading' => \E c \in sessCalls' : c.op = "read"
    BY <1>10, <2>3 DEF RevokeSession, AccountInv
  <2>5. UNCHANGED <<accFormVars, sessRows, sessLoading>> /\ accSent' \in 0..MaxAccount
    BY <1>10, <2>2 DEF RevokeSession
  <2>. QED
    BY <1>1, <2>3, <2>4, <2>5, SessionsKeep DEF AccountTypeOK
<1>11. ASSUME NEW c \in sessCalls, SessionRevoked(c)
       PROVE  AccountInv'
  <2>. DEFINE read == [c EXCEPT !.op = "read"]
  <2>1. read \in SessCall /\ read.op = "read"
    BY <1>1 DEF AccountTypeOK, SessCall
  <2>2. sessCalls' = (sessCalls \ {c}) \cup {read} /\ sessLoading' = TRUE
        /\ UNCHANGED <<accFormVars, sessRows, accSent>>
    BY <1>11 DEF SessionRevoked
  <2>. HIDE DEF read
  <2>3. sessCalls' \subseteq SessCall /\ \E d \in sessCalls' : d.op = "read"
    BY <1>1, <2>1, <2>2 DEF AccountTypeOK
  <2>. QED
    BY <1>1, <2>2, <2>3, SessionsKeep DEF AccountTypeOK
<1>12. ASSUME NEW c \in sessCalls, RevokeFailed(c)
       PROVE  AccountInv'
  <2>1. c.op = "revoke" /\ sessCalls' = sessCalls \ {c}
        /\ UNCHANGED <<accFormVars, sessRows, sessLoading, accSent>>
    BY <1>12 DEF RevokeFailed
  <2>2. sessLoading' => \E d \in sessCalls' : d.op = "read"
    BY <2>1 DEF AccountInv
  <2>. QED
    BY <1>1, <2>1, <2>2, SessionsKeep DEF AccountTypeOK
<1>13. ASSUME NEW c \in sessCalls, SessionsRead(c)
       PROVE  AccountInv'
  <2>1. sessCalls' = sessCalls \ {c} /\ sessLoading' = FALSE /\ sessRows' \in {c.n, 0}
        /\ UNCHANGED <<accFormVars, accSent>>
    BY <1>13 DEF SessionsRead
  <2>2. c.n \in 1..MaxAccount
    BY <1>1 DEF AccountTypeOK, SessCall
  <2>3. sessRows' \in 0..MaxAccount
    BY <1>2, <2>1, <2>2
  <2>. QED
    BY <1>1, <2>1, <2>3, SessionsKeep DEF AccountTypeOK
<1>. QED
  BY <1>3, <1>4, <1>5, <1>6, <1>7, <1>8, <1>9, <1>10, <1>11, <1>12, <1>13
  DEF AccountNext, AccountPages

(* No other page touches the account. *)
LEMMA AccountStep ==
    ASSUME AccountInv, Next
    PROVE  AccountInv'
<1>1. CASE ~AccountNext
  <2>1. UNCHANGED accountVars
    BY <1>1 DEF Next, Browse, LeavePage
  <2>. QED
    BY <2>1 DEF AccountInv, AccountTypeOK, accountVars, accFormVars, sessVars, Guarded
<1>. QED
  BY <1>1, AccountKeeps

-----------------------------------------------------------------------------
(* The provider pages. *)

(* A request that is sent joins those of its kind. *)
LEMMA WriteIsMine ==
    ASSUME NEW new, writes' = writes \cup {new}, lGen' = lGen, new.child = lGen
    PROVE  /\ MySaves' = IF new.op = "save" THEN MySaves \cup {new} ELSE MySaves
           /\ MyTests' = IF new.op = "test" THEN MyTests \cup {new} ELSE MyTests
BY DEF MySaves, MyTests, Child

(* A request that is answered leaves them. *)
LEMMA Answered ==
    ASSUME NEW w, writes' = writes \ {w}, lGen' = lGen
    PROVE  MySaves' = MySaves \ {w} /\ MyTests' = MyTests \ {w}
BY DEF MySaves, MyTests, Child

(* What can be sent is a request, of the child on the screen. *)
LEMMA NewWrite ==
    ASSUME ReadsInv, ListAsked, ProvidersTypeOK, page \in ProviderPages, sent < MaxWrites,
           NEW op \in {"save", "delete", "test"}, NEW row \in Items \cup {Create}
    PROVE  /\ [n |-> sent + 1, op |-> op, row |-> row, child |-> Child] \in Write
           /\ sent + 1 \in 0..MaxWrites
<1>1. sent + 1 \in 1..MaxWrites
  BY MaxWritesAssumption DEF ProvidersTypeOK
<1>2. lGen \in 1..MaxReads
  BY MaxReadsAssumption DEF ReadsInv, L!CallsInv, L!TypeOK, ListAsked, ProviderPages, Pages
<1>. QED
  BY <1>1, <1>2, MaxWritesAssumption DEF Write, Child

(* Opening and closing forms and dialogs sends nothing. *)
LEMMA FormsMove ==
    ASSUME ProvidersInv, UNCHANGED <<page, lGen, saving, testing, writes, sent>>,
           editing' \in Items \cup {Create, NoItem}, formError' \in BOOLEAN,
           testRow' \in Items \cup {NoItem}, testResult' \in Items \cup {NoItem},
           banner' \in BOOLEAN,
           page \notin ProviderPages => editing' = NoItem /\ testRow' = NoItem,
           testing => testRow' = testRow,
           testResult' # NoItem => testRow' = testResult'
    PROVE  ProvidersInv'
<1>1. MySaves' = MySaves /\ MyTests' = MyTests
  BY DEF MySaves, MyTests, Child
<1>2. ProvidersTypeOK'
  BY DEF ProvidersInv, ProvidersTypeOK
<1>. QED
  BY <1>1, <1>2 DEF ProvidersInv, Guarded, ResultOfTheRow, Child

(* A child that replaces another has no requests yet. *)
LEMMA ChildIsFresh ==
    ASSUME ProvidersInv, lGen \in Nat, lGen' = lGen + 1, page' = page, FreshChild,
           writes' \subseteq writes, UNCHANGED sent, banner' = FALSE
    PROVE  ProvidersInv'
<1>1. \A w \in writes' : w.child \in Nat /\ w.child < lGen'
  BY MaxReadsAssumption DEF ProvidersInv, ProvidersTypeOK, Write, Child
<1>2. MySaves' = {} /\ MyTests' = {}
  BY <1>1 DEF MySaves, MyTests, Child
<1>3. ProvidersTypeOK'
  BY DEF ProvidersInv, ProvidersTypeOK, FreshChild
<1>4. \A w \in writes' : w.child <= Child'
  BY <1>1 DEF Child
<1>5. page' \notin ProviderPages => writes' = {}
  BY DEF ProvidersInv
<1>. QED
  BY <1>2, <1>3, <1>4, <1>5 DEF ProvidersInv, Guarded, ResultOfTheRow, FreshChild

(* The form of the child is sent, or the test of its dialog, or a deletion. *)
LEMMA WriteSent ==
    ASSUME ReadsInv, ListAsked, ProvidersInv, page \in ProviderPages,
           NEW op \in {"save", "delete", "test"}, NEW row \in Items \cup {Create},
           Send(op, row), UNCHANGED <<page, lGen, editing, testRow, banner>>,
           formError' \in BOOLEAN,
           \/ op = "save" /\ ~saving /\ saving' = TRUE /\ UNCHANGED <<testing, testResult>>
           \/ op = "delete" /\ UNCHANGED <<saving, testing, testResult>>
           \/ /\ op = "test" /\ ~testing /\ testing' = TRUE /\ UNCHANGED saving
              /\ testResult' = NoItem /\ row = testRow /\ testRow # NoItem
    PROVE  ProvidersInv'
<1>. DEFINE new == [n |-> sent + 1, op |-> op, row |-> row, child |-> Child]
<1>1. writes' = writes \cup {new} /\ sent' = sent + 1 /\ sent < MaxWrites
  BY DEF Send
<1>2. ProvidersTypeOK /\ Guarded(saving, MySaves) /\ Guarded(testing, MyTests)
  BY DEF ProvidersInv
<1>3. new \in Write /\ sent' \in 0..MaxWrites
  BY <1>1, <1>2, NewWrite
<1>4. new.child = lGen /\ new.op = op /\ new.row = row
  BY DEF Child
<1>. HIDE DEF new
<1>5. /\ MySaves' = IF op = "save" THEN MySaves \cup {new} ELSE MySaves
      /\ MyTests' = IF op = "test" THEN MyTests \cup {new} ELSE MyTests
  BY <1>1, <1>4, WriteIsMine
<1>6. writes' \subseteq Write
  BY <1>1, <1>2, <1>3 DEF ProvidersTypeOK
<1>7. ProvidersTypeOK'
  BY <1>2, <1>3, <1>6 DEF ProvidersTypeOK
<1>8. lGen \in Nat
  BY DEF ReadsInv, L!CallsInv, L!TypeOK
<1>9. \A w \in writes' : w.child <= Child'
  BY <1>1, <1>4, <1>8 DEF ProvidersInv, Child
<1>10. Guarded(saving, MySaves)' /\ Guarded(testing, MyTests)'
  <2>1. CASE op = "save"
    <3>1. MySaves = {} /\ MySaves' = {new} /\ MyTests' = MyTests
      BY <1>2, <1>5, <2>1 DEF Guarded
    <3>. QED
      BY <1>2, <2>1, <3>1 DEF Guarded
  <2>2. CASE op = "delete"
    <3>1. MySaves' = MySaves /\ MyTests' = MyTests
      BY <1>5, <2>2
    <3>. QED
      BY <1>2, <2>2, <3>1 DEF Guarded
  <2>3. CASE op = "test"
    <3>1. MyTests = {} /\ MyTests' = {new} /\ MySaves' = MySaves
      BY <1>2, <1>5, <2>3 DEF Guarded
    <3>. QED
      BY <1>2, <2>3, <3>1 DEF Guarded
  <2>. QED
    BY <2>1, <2>2, <2>3
<1>11. testing' => testRow' # NoItem /\ \A w \in MyTests' : w.row = testRow'
  BY <1>2, <1>4, <1>5 DEF ProvidersInv, Guarded
<1>12. ResultOfTheRow'
  BY DEF ProvidersInv, ResultOfTheRow
<1>. QED
  BY <1>7, <1>9, <1>10, <1>11, <1>12 DEF ProvidersInv

(* What the answers bring. *)
LEMMA WriteAnswered ==
    ASSUME ReadsInv, ProvidersInv, NEW w \in writes, WriteFailed(w) \/ TestDone(w)
    PROVE  ProvidersInv'
<1>1. ProvidersTypeOK /\ Guarded(saving, MySaves) /\ Guarded(testing, MyTests)
  BY DEF ProvidersInv
<1>2. writes' = writes \ {w} /\ UNCHANGED <<page, lGen, editing, testRow, sent>>
  BY DEF WriteFailed, TestDone, readVars, listVars
<1>3. MySaves' = MySaves \ {w} /\ MyTests' = MyTests \ {w}
  BY <1>2, Answered
<1>4. \A u \in writes' : u.child <= Child'
  BY <1>2 DEF ProvidersInv, Child
<1>5. page' \in ProviderPages
  BY <1>2 DEF ProvidersInv
<1>6. CASE WriteFailed(w) /\ w \in MySaves
  <2>1. saving' = FALSE /\ formError' = TRUE /\ banner' = TRUE /\ UNCHANGED <<testing, testResult>>
    BY <1>6 DEF WriteFailed, MySaves
  <2>2. MySaves = {w} /\ w \notin MyTests
    BY <1>1, <1>6 DEF Guarded, MySaves, MyTests
  <2>3. MySaves' = {} /\ MyTests' = MyTests
    BY <1>3, <2>2
  <2>4. ProvidersTypeOK'
    BY <1>1, <1>2, <2>1 DEF ProvidersTypeOK
  <2>. QED
    BY <1>2, <1>4, <1>5, <2>1, <2>3, <2>4 DEF ProvidersInv, Guarded, ResultOfTheRow
<1>7. CASE WriteFailed(w) /\ w \notin MySaves
  <2>1. UNCHANGED <<saving, formError, testing, testResult>> /\ banner' = TRUE
    BY <1>7 DEF WriteFailed, MySaves
  <2>2. w \notin MyTests
    BY <1>7 DEF WriteFailed, MyTests
  <2>3. MySaves' = MySaves /\ MyTests' = MyTests
    BY <1>3, <1>7, <2>2
  <2>4. ProvidersTypeOK'
    BY <1>1, <1>2, <2>1 DEF ProvidersTypeOK
  <2>. QED
    BY <1>2, <1>4, <1>5, <2>1, <2>3, <2>4 DEF ProvidersInv, Guarded, ResultOfTheRow
<1>8. CASE TestDone(w) /\ w \in MyTests
  <2>1. testResult' = w.row /\ testing' = FALSE /\ UNCHANGED <<saving, formError, banner>>
    BY <1>8 DEF TestDone, MyTests
  <2>2. MyTests = {w} /\ w \notin MySaves /\ w.row = testRow
    BY <1>1, <1>8 DEF ProvidersInv, Guarded, MySaves, MyTests
  <2>3. MyTests' = {} /\ MySaves' = MySaves
    BY <1>3, <2>2
  <2>4. ProvidersTypeOK'
    BY <1>1, <1>2, <2>1, <2>2 DEF ProvidersTypeOK
  <2>. QED
    BY <1>1, <1>2, <1>4, <1>5, <2>1, <2>2, <2>3, <2>4 DEF ProvidersInv, Guarded, ResultOfTheRow
<1>9. CASE TestDone(w) /\ w \notin MyTests
  <2>1. UNCHANGED <<saving, formError, testing, testResult, banner>>
    BY <1>9 DEF TestDone, MyTests
  <2>2. w \notin MySaves
    BY <1>9 DEF TestDone, MySaves
  <2>3. MySaves' = MySaves /\ MyTests' = MyTests
    BY <1>3, <1>9, <2>2
  <2>4. ProvidersTypeOK'
    BY <1>1, <1>2, <2>1 DEF ProvidersTypeOK
  <2>. QED
    BY <1>2, <1>4, <1>5, <2>1, <2>3, <2>4 DEF ProvidersInv, Guarded, ResultOfTheRow
<1>. QED
  BY <1>6, <1>7, <1>8, <1>9

(* The provider pages, action by action. *)
LEMMA ProvidersKeep ==
    ASSUME ReadsInv, ListAsked, ProvidersInv, ProvidersNext
    PROVE  ProvidersInv'
<1>. USE NoKeysAssumption
<1>1. ProvidersTypeOK /\ ResultOfTheRow
  BY DEF ProvidersInv
<1>2. lGen \in Nat
  BY DEF ReadsInv, L!CallsInv, L!TypeOK
<1>3. editing # NoItem \/ testRow # NoItem \/ ChildShown => page \in ProviderPages
  BY DEF ProvidersInv, ChildShown, ProviderPages
<1>4. CASE (\E r \in Items : StartEdit(r)) \/ StartCreate
  BY <1>1, <1>3, <1>4, FormsMove
  DEF StartEdit, StartCreate, NoModal, readVars, listVars, ProvidersTypeOK, ResultOfTheRow
<1>5. CASE CloseForm \/ SubmitInvalid
  BY <1>1, <1>3, <1>5, FormsMove
  DEF CloseForm, SubmitInvalid, readVars, listVars, ProvidersTypeOK, ResultOfTheRow
<1>6. ASSUME NEW r \in Items, OpenTest(r)
      PROVE  ProvidersInv'
  <2>1. ~testing /\ testResult = NoItem
    BY <1>1, <1>6 DEF OpenTest, NoModal, ProvidersInv, ResultOfTheRow
  <2>2. testResult' = NoItem /\ testRow' = r
        /\ UNCHANGED <<page, lGen, saving, testing, writes, sent, editing, formError, banner>>
    BY <1>6, <2>1 DEF OpenTest, readVars, listVars
  <2>. QED
    BY <1>1, <1>3, <1>6, <2>1, <2>2, FormsMove DEF OpenTest, ProvidersTypeOK
<1>7. CASE CloseTest
  BY <1>1, <1>3, <1>7, FormsMove DEF CloseTest, readVars, listVars, ProvidersTypeOK
<1>8. CASE SubmitForm
  <2>1. editing \in Items \cup {Create}
    BY <1>1, <1>8 DEF SubmitForm, ProvidersTypeOK
  <2>2. /\ Send("save", editing) /\ ~saving /\ saving' = TRUE /\ formError' = FALSE
        /\ UNCHANGED <<page, lGen, editing, testRow, testing, testResult, banner>>
    BY <1>8 DEF SubmitForm, readVars, listVars
  <2>. QED
    BY <1>3, <1>8, <2>1, <2>2, WriteSent DEF SubmitForm
<1>9. ASSUME NEW r \in Items, DeleteRow(r)
      PROVE  ProvidersInv'
  <2>1. /\ Send("delete", r)
        /\ UNCHANGED <<page, lGen, editing, saving, formError, testRow, testing, testResult, banner>>
    BY <1>9 DEF DeleteRow, readVars, listVars, formVars
  <2>2. formError' \in BOOLEAN
    BY <1>1, <2>1 DEF ProvidersTypeOK
  <2>3. page \in ProviderPages
    BY <1>3, <1>9 DEF DeleteRow
  <2>. QED
    BY <2>1, <2>2, <2>3, WriteSent
<1>10. CASE RunTest
  <2>1. testRow \in Items
    BY <1>1, <1>10 DEF RunTest, ProvidersTypeOK
  <2>2. /\ Send("test", testRow) /\ ~testing /\ testing' = TRUE /\ testResult' = NoItem
        /\ UNCHANGED <<page, lGen, editing, saving, formError, testRow, banner>>
    BY <1>10 DEF RunTest, readVars, listVars
  <2>3. formError' \in BOOLEAN
    BY <1>1, <2>2 DEF ProvidersTypeOK
  <2>. QED
    BY <1>3, <1>10, <2>1, <2>2, <2>3, WriteSent DEF RunTest
<1>11. ASSUME NEW w \in writes, WriteDone(w)
       PROVE  ProvidersInv'
  <2>1. lGen' = lGen + 1 /\ page' = page /\ FreshChild /\ banner' = FALSE
        /\ writes' \subseteq writes /\ UNCHANGED sent
    BY <1>11 DEF WriteDone, ReloadChild, List!Reload, List!Ask
  <2>. QED
    BY <1>2, <2>1, ChildIsFresh
<1>12. ASSUME NEW w \in writes, WriteFailed(w) \/ TestDone(w)
       PROVE  ProvidersInv'
  BY <1>12, WriteAnswered
<1>. QED
  BY <1>4, <1>5, <1>6, <1>7, <1>8, <1>9, <1>10, <1>11, <1>12 DEF ProvidersNext

(* Nobody else touches the providers, nor reads the list of theirs again:  *)
(* the requests that read a list when they end are of other pages.         *)
LEMMA OthersStayAway ==
    ASSUME RetryInv, DrawerInv, Next, ~ProvidersNext, ~LeavePage
    PROVE  UNCHANGED providerVars /\ (UNCHANGED <<page, lGen>> \/ page \notin ProviderPages)
<1>1. UNCHANGED providerVars
  BY DEF Next, Browse
<1>2. CASE Browse
  BY <1>2 DEF Browse, OpenPage, ChangeFilter, FilteredPages, Refresh, SelectRunbook,
              CloseRunbook, ListAnswers, DetailAnswers, LeftAnswered, listVars,
              List!Resolve, List!Reject, ProviderPages, NoPage
<1>3. CASE RetryNext
  BY <1>1, <1>3 DEF RetryNext, OpenRetry, CloseRetry, ConfirmRetry, RetryDone, RetryFailed,
              readVars, listVars, RetryInv, ProviderPages
<1>4. CASE DrawerNext
  BY <1>1, <1>4 DEF DrawerNext, OpenDrawer, CloseDrawer, ModulesAnswer, SwitchModule,
              ModuleSwitched, ModuleRefused, ChangeMembers, MembersChanged,
              MembersLoaded, MembersFailed, OpenCreate, CloseCreate, SubmitCreate,
              TenantCreated, CreateFailed, readVars, listVars, DrawerInv, DialogHolds,
              ProviderPages
<1>5. CASE TeamNext
  BY <1>1, <1>5 DEF TeamNext, OpenTeam, JumpTeam, CloseTeam, OpenInvite, CloseInvite,
              SubmitInvite, RefuseHere, DismissNotice, AskConfirm, CancelConfirm,
              AcceptConfirm, TeamChanged, TeamRefused, TeamLoaded, readVars, listVars,
              ProviderPages, NoPage
<1>6. CASE AccountNext
  BY <1>1, <1>6 DEF AccountNext, OpenAccount, CloseAccount, Hydrate, HydrateFails, EditForm,
              SubmitAccount, AccountSaved, RevokeSession, SessionRevoked,
              RevokeFailed, SessionsRead, readVars, listVars, ProviderPages, NoPage,
              FormPages
<1>. QED
  BY <1>2, <1>3, <1>4, <1>5, <1>6 DEF Next

(* The forms of the providers keep their facts at every step. *)
LEMMA ProvidersStep ==
    ASSUME ReadsInv, ListAsked, RetryInv, ProvidersInv, DrawerInv, Next
    PROVE  ProvidersInv'
<1>1. CASE LeavePage
  <2>1. ProvidersUnmount /\ 0 \in 0..MaxWrites
    BY <1>1, MaxWritesAssumption DEF LeavePage
  <2>2. MySaves' = {} /\ MyTests' = {}
    BY <2>1 DEF ProvidersUnmount, MySaves, MyTests
  <2>3. ProvidersTypeOK'
    BY <2>1 DEF ProvidersUnmount, FreshChild, ProvidersTypeOK
  <2>. QED
    BY <2>1, <2>2, <2>3 DEF ProvidersUnmount, FreshChild, ProvidersInv, Guarded, ResultOfTheRow
<1>2. ASSUME UNCHANGED providerVars, page' = page, lGen' = lGen
      PROVE  ProvidersInv'
  <2>1. MySaves' = MySaves /\ MyTests' = MyTests
    BY <1>2 DEF providerVars, MySaves, MyTests, Child
  <2>. QED
    BY <1>2, <2>1 DEF ProvidersInv, ProvidersTypeOK, providerVars, formVars, Guarded,
                      ResultOfTheRow, Child
<1>3. ASSUME UNCHANGED providerVars, page \notin ProviderPages
      PROVE  ProvidersInv'
  <2>1. writes' = {} /\ ~saving' /\ ~testing' /\ editing' = NoItem /\ testRow' = NoItem
    BY <1>3 DEF ProvidersInv, providerVars, formVars
  <2>2. MySaves' = {} /\ MyTests' = {}
    BY <2>1 DEF MySaves, MyTests
  <2>. QED
    BY <1>3, <2>1, <2>2 DEF ProvidersInv, ProvidersTypeOK, providerVars, formVars, Guarded,
                            ResultOfTheRow
<1>. QED
  BY <1>1, <1>2, <1>3, OthersStayAway, ProvidersKeep

(* On the AI page the form that is open is the one that is being saved.    *)
LEMMA AiStep ==
    ASSUME RetryInv, ProvidersInv, DrawerInv, AiInv, Next
    PROVE  AiInv'
<1>. USE NoKeysAssumption
<1>. SUFFICES ASSUME page' = "ai"
              PROVE  AiInv'
  BY DEF AiInv
<1>1. Guarded(saving, MySaves)
  BY DEF ProvidersInv
<1>2. ASSUME page \notin ProviderPages, UNCHANGED providerVars
      PROVE  AiInv'
  <2>1. writes' = {} /\ ~saving'
    BY <1>2 DEF ProvidersInv, providerVars, formVars
  <2>. QED
    BY <2>1 DEF AiInv
<1>3. ASSUME UNCHANGED <<providerVars, page, lGen>>
      PROVE  AiInv'
  BY <1>3 DEF AiInv, MySaves, Child, providerVars, formVars
<1>4. CASE ProvidersNext
  <2>1. page = "ai"
    BY <1>4 DEF ProvidersNext, StartEdit, DeleteRow, OpenTest, StartCreate,
                CloseForm, SubmitInvalid, SubmitForm, CloseTest, RunTest, WriteDone,
                WriteFailed, TestDone, ReloadChild, readVars
  <2>2. \A w \in writes : w.op # "delete" /\ (w.op = "save" => w \in MySaves /\ w.row = editing)
    BY <2>1 DEF AiInv
  <2>3. saving => editing # NoItem
    BY <2>1 DEF AiInv
  <2>4. ~saving => \A w \in writes : w.op # "save"
    BY <1>1, <2>2 DEF Guarded
  <2>5. ASSUME UNCHANGED <<lGen, saving, writes>>, editing' = editing \/ ~saving
        PROVE  AiInv'
    BY <2>2, <2>3, <2>4, <2>5 DEF AiInv, MySaves, Child
  <2>6. ASSUME lGen' = lGen, writes' \subseteq writes, editing' = editing, saving' => saving
        PROVE  AiInv'
    BY <2>2, <2>3, <2>6 DEF AiInv, MySaves, Child
  <2>7. CASE \E r \in Items : StartEdit(r)
    BY <2>3, <2>5, <2>7 DEF StartEdit, NoModal, readVars, listVars
  <2>8. CASE CloseForm \/ SubmitInvalid
    BY <2>5, <2>8 DEF CloseForm, SubmitInvalid, readVars, listVars
  <2>9. CASE (\E r \in Items : OpenTest(r)) \/ CloseTest
    BY <2>5, <2>9 DEF OpenTest, CloseTest, readVars, listVars
  <2>10. CASE StartCreate \/ \E r \in Items : DeleteRow(r)
    BY <2>1, <2>10 DEF StartCreate, DeleteRow
  <2>11. CASE SubmitForm
    <3>. DEFINE new == [n |-> sent + 1, op |-> "save", row |-> editing, child |-> Child]
    <3>1. writes' = writes \cup {new} /\ UNCHANGED <<lGen, editing>> /\ editing # NoItem
          /\ ~saving /\ saving' = TRUE
      BY <2>11 DEF SubmitForm, Send, readVars, listVars
    <3>2. new.op = "save" /\ new.row = editing /\ new.child = lGen
      BY DEF Child
    <3>. HIDE DEF new
    <3>3. new \in MySaves'
      BY <3>1, <3>2 DEF MySaves, Child
    <3>. QED
      BY <2>2, <2>4, <3>1, <3>2, <3>3 DEF AiInv
  <2>12. CASE RunTest
    <3>. DEFINE new == [n |-> sent + 1, op |-> "test", row |-> testRow, child |-> Child]
    <3>1. writes' = writes \cup {new} /\ UNCHANGED <<lGen, editing, saving>>
      BY <2>12 DEF RunTest, Send, readVars, listVars
    <3>2. new.op = "test"
      OBVIOUS
    <3>. HIDE DEF new
    <3>. QED
      BY <2>2, <2>3, <3>1, <3>2 DEF AiInv, MySaves, Child
  <2>13. ASSUME NEW w \in writes, WriteDone(w)
         PROVE  AiInv'
    <3>1. w \in MySaves /\ MySaves = {w}
      BY <1>1, <2>2, <2>13, <2>4 DEF WriteDone, Guarded, ProvidersInv, ProvidersTypeOK, Write
    <3>2. writes' = writes \ {w} /\ saving' = FALSE
      BY <2>13 DEF WriteDone, ReloadChild, FreshChild
    <3>. QED
      BY <2>2, <3>1, <3>2 DEF AiInv
  <2>14. ASSUME NEW w \in writes, WriteFailed(w) \/ TestDone(w)
         PROVE  AiInv'
    <3>1. lGen' = lGen /\ writes' \subseteq writes /\ editing' = editing
      BY <2>14 DEF WriteFailed, TestDone, readVars, listVars
    <3>2. saving' => saving
      BY <2>14 DEF WriteFailed, TestDone
    <3>. QED
      BY <2>6, <3>1, <3>2
  <2>. QED
    BY <1>4, <2>7, <2>8, <2>9, <2>10, <2>11, <2>12, <2>13, <2>14 DEF ProvidersNext
<1>5. ~LeavePage
  BY DEF LeavePage, ClosePage, NoPage
<1>. QED
  BY <1>2, <1>3, <1>4, <1>5, OthersStayAway

-----------------------------------------------------------------------------
(* The drawer of the fleet. *)

(* A detail without a key has no rows, and asking again is a newer run.    *)
LEMMA DetailGrows ==
    ASSUME ReadsInv, DetailStep, dKey = NoItem => dData = Modules!NoData
    PROVE  /\ dGen' \in Nat /\ dGen <= dGen'
           /\ dKey' = NoItem => dData' = Modules!NoData
<1>. USE NoKeysAssumption, MaxDetailsAssumption DEF Modules!NoData, V!NoData, M!NoData
<1>1. dGen \in Nat
  BY DEF ReadsInv, V!CallsInv, V!TypeOK
<1>2. \A c \in dCalls : ~c.cancelled => c.key = dKey /\ c.key \in Items
  BY DEF ReadsInv, V!CallsInv, V!LiveIsNewest, V!TypeOK, V!Call
<1>3. CASE V!Next
  <2>1. ASSUME NEW k \in Items \cup {NoItem}, V!Mount(k) \/ V!Rekey(k)
        PROVE  dGen' \in {dGen, dGen + 1} /\ (dKey' = NoItem => dData' = Modules!NoData)
    BY <2>1 DEF V!Mount, V!Rekey, V!Ask, V!Reset
  <2>2. ASSUME NEW c \in dCalls, V!Resolve(c) \/ V!Reject(c)
        PROVE  dGen' = dGen /\ (dKey' = NoItem => dData' = Modules!NoData)
    BY <1>2, <2>2 DEF V!Resolve, V!Reject
  <2>3. dGen' \in {dGen, dGen + 1} /\ (dKey' = NoItem => dData' = Modules!NoData)
    BY <1>3, <2>1, <2>2 DEF V!Next, V!Reload, V!Unmount, V!Ask, V!Reset
  <2>. QED
    BY <1>1, <2>3
<1>4. CASE M!Next
  <2>1. ASSUME NEW k \in Items \cup {NoItem}, M!Mount(k) \/ M!Rekey(k)
        PROVE  dGen' \in {dGen, dGen + 1} /\ (dKey' = NoItem => dData' = Modules!NoData)
    BY <2>1 DEF M!Mount, M!Rekey, M!Ask, M!Reset
  <2>2. ASSUME NEW c \in dCalls, M!Resolve(c) \/ M!Reject(c)
        PROVE  dGen' = dGen /\ (dKey' = NoItem => dData' = Modules!NoData)
    BY <1>2, <2>2 DEF M!Resolve, M!Reject
  <2>3. dGen' \in {dGen, dGen + 1} /\ (dKey' = NoItem => dData' = Modules!NoData)
    BY <1>4, <2>1, <2>2 DEF M!Next, M!Reload, M!Unmount, M!Ask, M!Reset
  <2>. QED
    BY <1>1, <2>3
<1>5. CASE UNCHANGED <<dKey, dGen, dData>>
  BY <1>1, <1>5
<1>. QED
  BY <1>3, <1>4, <1>5 DEF DetailStep, V!vars, detailVars

(* The panels keep their facts when what they hold, and what is in flight  *)
(* for them, only shrinks, or is of the tenant of the drawer.              *)
LEMMA PanelsKeep ==
    ASSUME DrawerHolds, DrawerOpen, UNCHANGED <<page, dKey, dGen>>,
           dData' \in {dData, Modules!NoData} \/ dData'.key = dKey,
           members' \in {members, dKey, NoItem},
           \A p \in patches' : p \in patches \/ p.tenant = dKey,
           \A c \in toggles' \cup memberCalls' :
               \/ c \in toggles \cup memberCalls
               \/ dGen \in Nat /\ c.drawer = dGen /\ c.tenant = dKey
    PROVE  DrawerHolds'
<1>1. DrawerOpen'
  BY DEF DrawerOpen
<1>2. DrawerOfOneTenant'
  BY <1>1 DEF DrawerHolds, DrawerOfOneTenant
<1>3. \A c \in toggles' \cup memberCalls' : c.drawer <= dGen /\ (c.drawer = dGen => c.tenant = dKey)
  BY DEF DrawerHolds
<1>. QED
  BY <1>1, <1>2, <1>3 DEF DrawerHolds, DrawerOpen

(* Nothing is drawn while no drawer is open. *)
LEMMA NoDrawerKeeps ==
    ASSUME DrawerHolds, ~DrawerOpen', dGen \in Nat, dGen' \in Nat, dGen <= dGen',
           dKey' = NoItem => dData' = Modules!NoData,
           toggles' \cup memberCalls' \subseteq toggles \cup memberCalls,
           \A c \in toggles \cup memberCalls : c.drawer \in Nat
    PROVE  DrawerHolds'
<1>1. \A c \in toggles' \cup memberCalls' : c.drawer <= dGen'
  BY DEF DrawerHolds
<1>. QED
  BY <1>1 DEF DrawerHolds, DrawerOfOneTenant

(* A request of the panels that is sent is one of them. *)
LEMMA NewRequest ==
    ASSUME DrawerTypeOK, dGen' \in 1..MaxDetails, dKey' \in Items, Use
    PROVE  /\ used' = used + 1 /\ used' \in Numbered /\ used' \in 0..MaxDrawer
           /\ \A step \in {"change", "load"}, by \in {"mount", "add", "row"} :
                 MemberRequest(step, by) \in MemberCall
<1>1. used' = used + 1 /\ used' \in Numbered /\ used' \in 0..MaxDrawer
  BY MaxDrawerAssumption DEF Use, DrawerTypeOK, Numbered
<1>. QED
  BY <1>1 DEF MemberRequest, MemberCall

(* A drawer opens: what is in flight is of older drawers. *)
LEMMA DrawerOpens ==
    ASSUME ReadsInv, DrawerTypeOK, DrawerHolds, NEW t \in Items, OpenDrawer(t)
    PROVE  DrawerTypeOK' /\ DrawerHolds' /\ UNCHANGED <<page, createVars>>
<1>. USE NoKeysAssumption, MaxDetailsAssumption
<1>1. dGen \in Nat /\ dGen <= MaxDetails
  BY DEF ReadsInv, V!CallsInv, V!TypeOK
<1>2. dKey = NoItem /\ dKey' = t /\ dGen' = dGen + 1 /\ dGen < MaxDetails /\ dData' = dData
      /\ UNCHANGED <<page, toggles, createVars>> /\ Use /\ FreshPanels /\ page = "fleet"
  BY DEF OpenDrawer, Modules!Mount, Modules!Ask
<1>. DEFINE new == [n |-> used', step |-> "load", by |-> "mount", tenant |-> dKey', drawer |-> dGen']
<1>3. memberCalls' = memberCalls \cup {new}
  BY DEF OpenDrawer, MemberRequest
<1>4. dGen' \in 1..MaxDetails
  BY <1>1, <1>2
<1>5. new \in MemberCall /\ used' \in 0..MaxDrawer
  BY <1>2, <1>4, NewRequest DEF MemberRequest
<1>6. new.drawer = dGen' /\ new.tenant = t
  BY <1>2
<1>. HIDE DEF new
<1>7. \A c \in toggles \cup memberCalls : c.drawer <= dGen /\ c.drawer \in Nat
  BY DEF DrawerHolds, DrawerTypeOK, Toggle, MemberCall
<1>8. \A c \in toggles' \cup memberCalls' :
         c.drawer <= dGen' /\ (c.drawer = dGen' => c.tenant = dKey')
  BY <1>1, <1>2, <1>3, <1>6, <1>7
<1>9. DrawerOfOneTenant'
  BY <1>2 DEF DrawerHolds, DrawerOfOneTenant, FreshPanels
<1>10. DrawerHolds'
  BY <1>2, <1>4, <1>8, <1>9 DEF DrawerHolds
<1>11. memberCalls' \subseteq MemberCall
  BY <1>3, <1>5 DEF DrawerTypeOK
<1>12. DrawerTypeOK'
  BY <1>2, <1>5, <1>11 DEF DrawerTypeOK, FreshPanels, createVars
<1>. QED
  BY <1>2, <1>10, <1>12

(* A panel asks for something: for the tenant of its drawer. *)
LEMMA PanelAsks ==
    ASSUME ReadsInv, DrawerTypeOK, DrawerHolds,
           \/ \E m \in Mods : SwitchModule(m)
           \/ \E by \in {"add", "row"} : ChangeMembers(by)
    PROVE  DrawerTypeOK' /\ DrawerHolds' /\ UNCHANGED <<page, createVars>>
<1>1. DrawerOpen /\ Use /\ UNCHANGED <<page, dKey, dGen, dData, members, patches, createVars>>
  BY DEF SwitchModule, ChangeMembers, readVars, detailVars
<1>2. dGen \in 1..MaxDetails /\ dKey \in Items
  BY <1>1, MaxDetailsAssumption
  DEF ReadsInv, V!CallsInv, V!TypeOK, DrawerHolds, DrawerOpen
<1>3. dGen' \in 1..MaxDetails /\ dKey' \in Items
  BY <1>1, <1>2
<1>4. used' = used + 1 /\ used' \in Numbered /\ used' \in 0..MaxDrawer
  BY <1>1, <1>3, NewRequest
<1>5. ASSUME NEW m \in Mods, SwitchModule(m)
      PROVE  DrawerTypeOK' /\ DrawerHolds'
  <2>. DEFINE new == [n |-> used + 1, tenant |-> dKey, mod |-> m, drawer |-> Drawer]
  <2>1. toggles' = toggles \cup {new} /\ mutating' = m /\ UNCHANGED <<adding, memberCalls>>
    BY <1>5 DEF SwitchModule
  <2>2. new \in Toggle
    BY <1>2, <1>4 DEF Toggle, Drawer
  <2>3. new.drawer = dGen /\ new.tenant = dKey
    BY DEF Drawer
  <2>. HIDE DEF new
  <2>4. toggles' \subseteq Toggle
    BY <2>1, <2>2 DEF DrawerTypeOK
  <2>5. DrawerTypeOK'
    BY <1>1, <1>4, <2>1, <2>4 DEF DrawerTypeOK, createVars
  <2>6. DrawerHolds'
    BY <1>1, <1>2, <2>1, <2>3, PanelsKeep
  <2>. QED
    BY <2>5, <2>6
<1>6. ASSUME NEW by \in {"add", "row"}, ChangeMembers(by)
      PROVE  DrawerTypeOK' /\ DrawerHolds'
  <2>. DEFINE new == MemberRequest("change", by)
  <2>1. memberCalls' = memberCalls \cup {new} /\ adding' = (adding \/ by = "add")
        /\ UNCHANGED <<toggles, mutating>>
    BY <1>6 DEF ChangeMembers
  <2>2. new \in MemberCall
    BY <1>1, <1>3, NewRequest
  <2>3. new.drawer = dGen /\ new.tenant = dKey
    BY <1>1 DEF MemberRequest
  <2>. HIDE DEF new
  <2>4. memberCalls' \subseteq MemberCall /\ adding' \in BOOLEAN
    BY <2>1, <2>2 DEF DrawerTypeOK
  <2>5. DrawerTypeOK'
    BY <1>1, <1>4, <2>1, <2>4 DEF DrawerTypeOK, createVars
  <2>6. DrawerHolds'
    BY <1>1, <1>2, <2>1, <2>3, PanelsKeep
  <2>. QED
    BY <2>5, <2>6
<1>. QED
  BY <1>1, <1>5, <1>6

(* An answer for a panel reaches it only in the drawer it was asked from.  *)
LEMMA PanelAnswered ==
    ASSUME ReadsInv, DrawerTypeOK, DrawerHolds,
           \/ \E c \in toggles : ModuleSwitched(c) \/ ModuleRefused(c)
           \/ \E c \in memberCalls : MembersChanged(c) \/ MembersLoaded(c) \/ MembersFailed(c)
    PROVE  DrawerTypeOK' /\ DrawerHolds' /\ UNCHANGED <<page, createVars>>
<1>. USE NoKeysAssumption
<1>1. UNCHANGED <<page, dKey, dGen, dData, createVars, used>>
  BY DEF ModuleSwitched, ModuleRefused, MembersChanged, MembersLoaded, MembersFailed,
         readVars, detailVars
<1>2. DrawerOpen' = DrawerOpen
  BY <1>1 DEF DrawerOpen
<1>3. \A c \in toggles : c \in Toggle /\ (DrawerOpen /\ c.drawer = Drawer => c.tenant = dKey)
  BY DEF DrawerTypeOK, DrawerHolds, Drawer
<1>4. \A c \in memberCalls : c \in MemberCall /\ (DrawerOpen /\ c.drawer = Drawer => c.tenant = dKey)
  BY DEF DrawerTypeOK, DrawerHolds, Drawer
<1>5. dGen \in Nat /\ \A c \in toggles \cup memberCalls : c.drawer \in Nat
  BY MaxDetailsAssumption DEF ReadsInv, V!CallsInv, V!TypeOK, DrawerTypeOK, Toggle, MemberCall
<1>6. ASSUME NEW c \in toggles, ModuleSwitched(c) \/ ModuleRefused(c)
      PROVE  DrawerTypeOK' /\ DrawerHolds'
  <2>1. c.mod \in Mods /\ c.tenant \in Items
    BY <1>3 DEF Toggle
  <2>2. toggles' = toggles \ {c} /\ UNCHANGED <<members, adding, memberCalls>>
    BY <1>6 DEF ModuleSwitched, ModuleRefused
  <2>3. mutating' \in {mutating, NoMod} /\
        (patches' = patches \/ (/\ DrawerOpen /\ c.drawer = Drawer
                                /\ patches' = {p \in patches : p.mod # c.mod}
                                       \cup {[mod |-> c.mod, tenant |-> c.tenant]}))
    BY <1>6 DEF ModuleSwitched, ModuleRefused
  <2>4. [mod |-> c.mod, tenant |-> c.tenant] \in [mod : Mods, tenant : Items]
    BY <2>1
  <2>5. patches' \subseteq [mod : Mods, tenant : Items]
    BY <2>3, <2>4 DEF DrawerTypeOK
  <2>6. DrawerTypeOK'
    BY <1>1, <2>2, <2>3, <2>5 DEF DrawerTypeOK, createVars
  <2>7. DrawerOpen => \A p \in patches' : p \in patches \/ p.tenant = dKey
    BY <1>3, <2>3
  <2>8. CASE DrawerOpen
    BY <1>1, <2>2, <2>6, <2>7, <2>8, PanelsKeep
  <2>9. CASE ~DrawerOpen
    BY <1>1, <1>2, <1>5, <2>2, <2>6, <2>9, NoDrawerKeeps DEF DrawerHolds
  <2>. QED
    BY <2>6, <2>8, <2>9
<1>7. ASSUME NEW c \in memberCalls, MembersChanged(c)
      PROVE  DrawerTypeOK' /\ DrawerHolds'
  <2>. DEFINE load == [c EXCEPT !.step = "load"]
  <2>1. load \in MemberCall /\ load.drawer = c.drawer /\ load.tenant = c.tenant
    BY <1>4 DEF MemberCall
  <2>2. memberCalls' = (memberCalls \ {c}) \cup {load}
        /\ UNCHANGED <<patches, mutating, toggles, members, adding>>
    BY <1>7 DEF MembersChanged
  <2>. HIDE DEF load
  <2>3. memberCalls' \subseteq MemberCall
    BY <2>1, <2>2 DEF DrawerTypeOK
  <2>4. DrawerTypeOK'
    BY <1>1, <2>2, <2>3 DEF DrawerTypeOK, createVars
  <2>5. \A d \in toggles' \cup memberCalls' :
           d.drawer <= dGen /\ (DrawerOpen /\ d.drawer = dGen => d.tenant = dKey)
    BY <2>1, <2>2 DEF DrawerHolds
  <2>6. DrawerOfOneTenant'
    BY <1>1, <1>2, <2>2 DEF DrawerHolds, DrawerOfOneTenant
  <2>7. DrawerHolds'
    BY <1>1, <1>2, <2>5, <2>6 DEF DrawerHolds
  <2>. QED
    BY <2>4, <2>7
<1>8. ASSUME NEW c \in memberCalls, MembersLoaded(c) \/ MembersFailed(c)
      PROVE  DrawerTypeOK' /\ DrawerHolds'
  <2>1. c.tenant \in Items
    BY <1>4 DEF MemberCall
  <2>2. memberCalls' = memberCalls \ {c} /\ UNCHANGED <<patches, mutating, toggles>>
    BY <1>8 DEF MembersLoaded, MembersFailed
  <2>3. adding' \in {adding, adding /\ c.by # "add"} /\
        (members' = members \/ (DrawerOpen /\ c.drawer = Drawer /\ members' = c.tenant))
    BY <1>8 DEF MembersLoaded, MembersFailed
  <2>4. members' \in Items \cup {NoItem} /\ adding' \in BOOLEAN
    BY <2>1, <2>3 DEF DrawerTypeOK
  <2>5. DrawerTypeOK'
    BY <1>1, <2>2, <2>4 DEF DrawerTypeOK, createVars
  <2>6. members' \in {members, dKey, NoItem}
    BY <1>4, <2>3
  <2>7. CASE DrawerOpen
    BY <1>1, <2>2, <2>5, <2>6, <2>7, PanelsKeep
  <2>8. CASE ~DrawerOpen
    BY <1>1, <1>2, <1>5, <2>2, <2>5, <2>8, NoDrawerKeeps DEF DrawerHolds
  <2>. QED
    BY <2>5, <2>7, <2>8
<1>. QED
  BY <1>1, <1>6, <1>7, <1>8

(* The drawer closes, or its modules are read. *)
LEMMA DetailOfDrawer ==
    ASSUME ReadsInv, DrawerTypeOK, DrawerHolds, DetailStep, CloseDrawer \/ ModulesAnswer
    PROVE  DrawerTypeOK' /\ DrawerHolds' /\ UNCHANGED <<page, createVars>>
<1>. USE NoKeysAssumption
<1>1. dGen \in Nat /\ \A c \in toggles \cup memberCalls : c.drawer \in Nat
  BY MaxDetailsAssumption DEF ReadsInv, V!CallsInv, V!TypeOK, DrawerTypeOK, Toggle, MemberCall
<1>2. dGen' \in Nat /\ dGen <= dGen' /\ (dKey' = NoItem => dData' = Modules!NoData)
  BY DetailGrows DEF DrawerHolds
<1>3. UNCHANGED <<page, toggles, memberCalls, createVars, used>>
  BY DEF CloseDrawer, ModulesAnswer
<1>4. CASE CloseDrawer
  <2>1. ~DrawerOpen'
    BY <1>4 DEF CloseDrawer, DrawerOpen, Modules!Unmount
  <2>2. DrawerTypeOK'
    BY <1>3, <1>4 DEF CloseDrawer, DrawerTypeOK, FreshPanels, createVars
  <2>3. DrawerHolds'
    BY <1>1, <1>2, <1>3, <2>1, NoDrawerKeeps
  <2>. QED
    BY <1>3, <2>2, <2>3
<1>5. CASE ModulesAnswer
  <2>1. PICK c \in dCalls : /\ Modules!Resolve(c) \/ Modules!Reject(c)
                            /\ patches' = IF c.cancelled THEN patches ELSE {}
    BY <1>5 DEF ModulesAnswer
  <2>2. UNCHANGED <<dKey, dGen, mutating, members, adding>> /\ patches' \subseteq patches
    BY <1>5, <2>1 DEF ModulesAnswer, Modules!Resolve, Modules!Reject
  <2>3. dData' \in {dData, Modules!NoData} \/ dData'.key = dKey
    BY <2>1 DEF Modules!Resolve, Modules!Reject, ReadsInv, V!CallsInv, V!LiveIsNewest
  <2>4. DrawerTypeOK'
    BY <1>3, <2>2 DEF DrawerTypeOK, createVars
  <2>5. CASE DrawerOpen
    BY <1>3, <2>2, <2>3, <2>4, <2>5, PanelsKeep
  <2>6. CASE ~DrawerOpen
    <3>1. ~DrawerOpen'
      BY <1>3, <2>2, <2>6 DEF DrawerOpen
    <3>. QED
      BY <1>1, <1>2, <1>3, <2>4, <3>1, NoDrawerKeeps
  <2>. QED
    BY <2>5, <2>6
<1>. QED
  BY <1>4, <1>5

(* The dialog that creates a tenant, and what becomes of its request. *)
LEMMA DialogKeeps ==
    ASSUME DrawerTypeOK, DrawerHolds, DialogHolds,
           OpenCreate \/ CloseCreate \/ SubmitCreate
             \/ \E c \in creates : TenantCreated(c) \/ CreateFailed(c)
    PROVE  DrawerTypeOK' /\ DrawerHolds' /\ DialogHolds'
<1>1. UNCHANGED <<page, detailVars, panelVars>>
  BY DEF OpenCreate, CloseCreate, SubmitCreate, TenantCreated, CreateFailed, readVars
<1>2. DrawerHolds'
  BY <1>1 DEF DrawerHolds, DrawerOpen, DrawerOfOneTenant, detailVars, panelVars
<1>3. CASE OpenCreate \/ CloseCreate
  <2>1. createOpen' \in BOOLEAN /\ UNCHANGED <<creating, creates, used>>
        /\ (createOpen' => page = "fleet")
    BY <1>3 DEF OpenCreate, CloseCreate, DialogHolds
  <2>2. DrawerTypeOK'
    BY <1>1, <2>1 DEF DrawerTypeOK, panelVars
  <2>3. DialogHolds'
    BY <1>1, <2>1 DEF DialogHolds, Guarded
  <2>. QED
    BY <1>2, <2>2, <2>3
<1>4. CASE SubmitCreate
  <2>1. creates = {} /\ page = "fleet"
    BY <1>4 DEF SubmitCreate, DialogHolds, Guarded
  <2>2. creating' = TRUE /\ creates' = {used + 1} /\ createOpen' = createOpen /\ Use
    BY <1>4, <2>1 DEF SubmitCreate
  <2>3. used + 1 \in Numbered /\ used' \in 0..MaxDrawer
    BY <2>2, MaxDrawerAssumption DEF Use, DrawerTypeOK, Numbered
  <2>4. DrawerTypeOK'
    BY <1>1, <2>2, <2>3 DEF DrawerTypeOK, panelVars
  <2>5. DialogHolds'
    BY <1>1, <2>1, <2>2 DEF DialogHolds, Guarded
  <2>. QED
    BY <1>2, <2>4, <2>5
<1>5. ASSUME NEW c \in creates, TenantCreated(c) \/ CreateFailed(c)
      PROVE  DrawerTypeOK' /\ DrawerHolds' /\ DialogHolds'
  <2>1. creates' = {} /\ creating' = FALSE /\ createOpen' \in {createOpen, FALSE} /\ used' = used
    BY <1>5 DEF TenantCreated, CreateFailed, DialogHolds, Guarded
  <2>2. DrawerTypeOK'
    BY <1>1, <2>1 DEF DrawerTypeOK, panelVars
  <2>3. DialogHolds'
    BY <1>1, <2>1 DEF DialogHolds, Guarded
  <2>. QED
    BY <1>2, <2>2, <2>3
<1>. QED
  BY <1>3, <1>4, <1>5

(* The fleet page beyond its table keeps its facts at every step. *)
LEMMA DrawerStep ==
    ASSUME ReadsInv, DrawerInv, Next
    PROVE  DrawerInv'
<1>. USE NoKeysAssumption
<1>1. DrawerTypeOK /\ DrawerHolds /\ DialogHolds /\ DetailStep
  BY DetailSteps DEF DrawerInv
<1>2. dGen \in Nat /\ \A c \in toggles \cup memberCalls : c.drawer \in Nat
  BY MaxDetailsAssumption DEF ReadsInv, V!CallsInv, V!TypeOK, DrawerTypeOK, DrawerInv,
                              Toggle, MemberCall
<1>3. dGen' \in Nat /\ dGen <= dGen' /\ (dKey' = NoItem => dData' = Modules!NoData)
  BY <1>1, DetailGrows DEF DrawerHolds
<1>4. CASE LeavePage
  <2>1. DrawerUnmount /\ page' = NoPage /\ 0 \in 0..MaxDrawer
    BY <1>4, MaxDrawerAssumption DEF LeavePage, ClosePage
  <2>2. ~DrawerOpen'
    BY <2>1 DEF DrawerOpen, NoPage
  <2>3. DrawerTypeOK'
    BY <2>1 DEF DrawerUnmount, FreshPanels, DrawerTypeOK
  <2>4. DrawerHolds'
    BY <1>1, <1>2, <1>3, <2>1, <2>2, NoDrawerKeeps DEF DrawerUnmount
  <2>5. DialogHolds'
    BY <2>1 DEF DrawerUnmount, DialogHolds, Guarded
  <2>. QED
    BY <2>3, <2>4, <2>5 DEF DrawerInv
<1>5. CASE DrawerNext
  <2>1. ASSUME DrawerTypeOK', DrawerHolds', UNCHANGED <<page, createVars>>
        PROVE  DrawerInv'
    BY <1>1, <2>1 DEF DrawerInv, DialogHolds, Guarded, createVars
  <2>2. CASE \E t \in Items : OpenDrawer(t)
    BY <1>1, <2>1, <2>2, DrawerOpens
  <2>3. CASE CloseDrawer \/ ModulesAnswer
    BY <1>1, <2>1, <2>3, DetailOfDrawer
  <2>4. CASE (\E m \in Mods : SwitchModule(m)) \/ \E by \in {"add", "row"} : ChangeMembers(by)
    BY <1>1, <2>1, <2>4, PanelAsks
  <2>5. CASE \/ \E c \in toggles : ModuleSwitched(c) \/ ModuleRefused(c)
             \/ \E c \in memberCalls : MembersChanged(c) \/ MembersLoaded(c) \/ MembersFailed(c)
    BY <1>1, <2>1, <2>5, PanelAnswered
  <2>6. CASE \/ OpenCreate \/ CloseCreate \/ SubmitCreate
             \/ \E c \in creates : TenantCreated(c) \/ CreateFailed(c)
    BY <1>1, <2>6, DialogKeeps DEF DrawerInv
  <2>. QED
    BY <1>5, <2>2, <2>3, <2>4, <2>5, <2>6 DEF DrawerNext
<1>6. ASSUME UNCHANGED <<drawerVars, page, detailVars>>
      PROVE  DrawerInv'
  BY <1>1, <1>6 DEF DrawerInv, DrawerTypeOK, DrawerHolds, DialogHolds, DrawerOpen,
                    DrawerOfOneTenant, Guarded, drawerVars, panelVars, createVars, detailVars
<1>7. ASSUME UNCHANGED drawerVars, page # "fleet", ~DrawerOpen'
      PROVE  DrawerInv'
  <2>1. DrawerHolds'
    BY <1>1, <1>2, <1>3, <1>7, NoDrawerKeeps DEF drawerVars, panelVars
  <2>2. DrawerTypeOK'
    BY <1>1, <1>7 DEF DrawerTypeOK, drawerVars, panelVars, createVars
  <2>3. DialogHolds'
    BY <1>1, <1>7 DEF DialogHolds, Guarded, drawerVars, createVars
  <2>. QED
    BY <2>1, <2>2, <2>3 DEF DrawerInv
<1>8. CASE ~LeavePage /\ ~DrawerNext
  <2>1. UNCHANGED drawerVars
    BY <1>8 DEF Next, Browse
  <2>2. page # NoPage \/ dKey = NoItem
    BY DEF ReadsInv, V!CallsInv, Detailed, NoPage
  <2>3. CASE Browse
    <3>1. ASSUME NEW p \in Pages, OpenPage(p)
          PROVE  page # "fleet" /\ ~DrawerOpen'
      BY <2>2, <3>1 DEF OpenPage, detailVars, DrawerOpen, NoPage
    <3>2. UNCHANGED <<page, detailVars>> \/ (page # "fleet" /\ ~DrawerOpen')
      <4>1. CASE \E p \in Pages : OpenPage(p)
        BY <3>1, <4>1
      <4>2. CASE Refresh \/ ListAnswers \/ LeftAnswered \/ \E f \in Filters : ChangeFilter(f)
        BY <4>2 DEF Refresh, ListAnswers, LeftAnswered, ChangeFilter
      <4>3. CASE (\E i \in Items : SelectRunbook(i)) \/ CloseRunbook \/ DetailAnswers
        BY <4>3 DEF SelectRunbook, CloseRunbook, DetailAnswers, DrawerOpen
      <4>. QED
        BY <2>3, <4>1, <4>2, <4>3 DEF Browse
    <3>. QED
      BY <1>6, <1>7, <2>1, <3>2
  <2>4. CASE RetryNext \/ ProvidersNext
    <3>1. UNCHANGED <<page, detailVars>>
      BY <2>4 DEF RetryNext, OpenRetry, CloseRetry, ConfirmRetry, RetryDone, RetryFailed,
                  ProvidersNext, StartEdit, DeleteRow, OpenTest, StartCreate, CloseForm,
                  SubmitInvalid, SubmitForm, CloseTest, RunTest, WriteDone, WriteFailed,
                  TestDone, ReloadChild, readVars
    <3>. QED
      BY <1>6, <2>1, <3>1
  <2>5. CASE TeamNext \/ AccountNext
    <3>1. UNCHANGED detailVars
      BY <2>5 DEF TeamNext, OpenTeam, JumpTeam, CloseTeam, OpenInvite, CloseInvite,
              SubmitInvite, RefuseHere, DismissNotice, AskConfirm, CancelConfirm,
              AcceptConfirm, TeamChanged, TeamRefused, TeamLoaded, readVars,
              AccountNext, OpenAccount, CloseAccount, Hydrate, HydrateFails, EditForm,
              SubmitAccount, AccountSaved, RevokeSession, SessionRevoked, RevokeFailed,
              SessionsRead
    <3>2. page' = page \/ (page # "fleet" /\ page' # "fleet")
      BY <2>5, LeavesPages DEF NoPage, AccountPages, FormPages
    <3>. QED
      BY <1>6, <1>7, <2>1, <3>1, <3>2 DEF DrawerOpen
  <2>. QED
    BY <1>8, <2>3, <2>4, <2>5 DEF Next
<1>. QED
  BY <1>4, <1>5, <1>8

-----------------------------------------------------------------------------
(* The changes of the pages that were left.                                *)

(* What a page has sent is a change. *)
LEMMA SentIsSubmission ==
    ASSUME page \in Pages \cup OtherPages,
           NEW op \in {"retry", "save", "delete", "test", "toggle", "member", "tenant",
                       "invite", "row", "revoke"},
           NEW on \in Items \cup {Create, NoItem}
    PROVE  Sent(op, on) \in Submission
BY DEF Sent, Submission, Create

(* The requests of the platform pages are changes of theirs. *)
LEMMA PlatformSends ==
    ASSUME RetryTypeOK, ProvidersTypeOK, DrawerTypeOK, page \in Pages
    PROVE  RetriesInFlight \cup WritesInFlight \cup ChangesInFlight \subseteq Submission
<1>1. RetriesInFlight \subseteq Submission
  BY SentIsSubmission DEF RetriesInFlight, RetryTypeOK
<1>2. WritesInFlight \subseteq Submission
  BY SentIsSubmission DEF WritesInFlight, ProvidersTypeOK, Write
<1>3. ChangesInFlight \subseteq Submission
  BY SentIsSubmission DEF ChangesInFlight, DrawerTypeOK, Toggle, MemberCall
<1>. QED
  BY <1>1, <1>2, <1>3

(* So are those of the team and of the account; their reads are not. *)
LEMMA OthersSend ==
    ASSUME TeamInv, page \in OtherPages
    PROVE  TeamChangesInFlight \cup AccountChangesInFlight \subseteq Submission
<1>1. \A c \in teamCalls : c.step = "change" => c.by \in {"invite", "row"} /\ c.tenant \in Items
  BY DEF TeamInv, TeamTypeOK, TeamCall, Chain
<1>2. TeamChangesInFlight \subseteq Submission
  BY <1>1, SentIsSubmission DEF TeamChangesInFlight
<1>3. AccountChangesInFlight \subseteq Submission
  BY SentIsSubmission DEF AccountChangesInFlight
<1>. QED
  BY <1>2, <1>3

(* Only leaving a page adds to them, and only an answer takes one away. *)
LEMMA LeftStep ==
    ASSUME PagesInv, Next
    PROVE  left' \subseteq Submission
<1>1. left \subseteq Submission
  BY DEF PagesInv
<1>2. CASE Browse
  BY <1>1, <1>2 DEF Browse, OpenPage, ChangeFilter, Refresh, SelectRunbook, CloseRunbook,
                    ListAnswers, DetailAnswers, LeftAnswered
<1>3. CASE LeavePage
  <2>1. RetriesInFlight \cup WritesInFlight \cup ChangesInFlight \subseteq Submission
    BY <1>3, PlatformSends DEF PagesInv, RetryInv, ProvidersInv, DrawerInv, LeavePage, ClosePage
  <2>. QED
    BY <1>1, <1>3, <2>1 DEF LeavePage, Leave
<1>4. CASE RetryNext
  BY <1>1, <1>4 DEF RetryNext, OpenRetry, CloseRetry, ConfirmRetry, RetryDone, RetryFailed,
                    readVars
<1>5. CASE ProvidersNext
  BY <1>1, <1>5 DEF ProvidersNext, StartEdit, DeleteRow, OpenTest, StartCreate, CloseForm,
                    SubmitInvalid, SubmitForm, CloseTest, RunTest, WriteDone, WriteFailed,
                    TestDone, ReloadChild, readVars
<1>6. CASE DrawerNext
  BY <1>1, <1>6 DEF DrawerNext, OpenDrawer, CloseDrawer, ModulesAnswer, SwitchModule,
                    ModuleSwitched, ModuleRefused, ChangeMembers, MembersChanged,
                    MembersLoaded, MembersFailed, OpenCreate, CloseCreate, SubmitCreate,
                    TenantCreated, CreateFailed, readVars
<1>7. CASE TeamNext
  <2>1. CASE CloseTeam
    <3>1. TeamChangesInFlight \subseteq Submission
      BY <2>1, OthersSend DEF PagesInv, CloseTeam, OtherPages
    <3>. QED
      BY <1>1, <2>1, <3>1 DEF CloseTeam, Leave
  <2>. QED
    BY <1>1, <1>7, <2>1 DEF TeamNext, OpenTeam, JumpTeam, OpenInvite, CloseInvite,
       SubmitInvite, RefuseHere, DismissNotice, AskConfirm, CancelConfirm, AcceptConfirm,
       TeamChanged, TeamRefused, TeamLoaded, readVars
<1>8. CASE AccountNext
  <2>1. CASE CloseAccount
    <3>1. AccountChangesInFlight \subseteq Submission
      BY <2>1, OthersSend DEF PagesInv, CloseAccount, FormPages, OtherPages
    <3>. QED
      BY <1>1, <2>1, <3>1 DEF CloseAccount, Leave
  <2>. QED
    BY <1>1, <1>8, <2>1 DEF AccountNext, OpenAccount, Hydrate, HydrateFails, EditForm,
       SubmitAccount, AccountSaved, RevokeSession, SessionRevoked, RevokeFailed,
       SessionsRead, readVars
<1>. QED
  BY <1>2, <1>3, <1>4, <1>5, <1>6, <1>7, <1>8 DEF Next

-----------------------------------------------------------------------------
(* The pages start with nothing open and nothing in flight. *)
LEMMA PagesStart ==
    ASSUME Init
    PROVE  PagesInv
<1>. USE MaxRetriesAssumption, MaxWritesAssumption, MaxDrawerAssumption, MaxTeamAssumption,
         MaxAccountAssumption
<1>1. page = NoPage /\ NoPage \notin Pages \cup ProviderPages \cup {"dlq", "fleet", "team", "ai"}
  BY DEF Init, ReadsInit, NoPage, Pages, ProviderPages
<1>2. ReadsInv
  BY ReadsStart
<1>3. ListAsked
  BY <1>1 DEF ListAsked
<1>4. RetryInv
  <2>1. 0 \in 0..MaxRetries
    OBVIOUS
  <2>. QED
    BY <2>1 DEF Init, RetryInit, RetryInv, RetryTypeOK, Guarded
<1>5. ProvidersInv
  <2>1. 0 \in 0..MaxWrites
    OBVIOUS
  <2>2. MySaves = {} /\ MyTests = {}
    BY DEF Init, ProvidersInit, MySaves, MyTests
  <2>. QED
    BY <2>1, <2>2 DEF Init, ProvidersInit, ProvidersInv, ProvidersTypeOK, Guarded, ResultOfTheRow
<1>6. AiInv
  BY <1>1 DEF AiInv
<1>7. DrawerInv
  <2>1. 0 \in 0..MaxDrawer
    OBVIOUS
  <2>2. dData = Modules!NoData
    BY DEF Init, ReadsInit, Viewer!Init, Viewer!NoData, Modules!NoData
  <2>. QED
    BY <1>1, <2>1, <2>2 DEF Init, DrawerInit, DrawerInv, DrawerTypeOK, DrawerHolds,
                            DialogHolds, DrawerOpen, DrawerOfOneTenant, Guarded
<1>8. TeamInv
  <2>1. 0 \in 0..MaxTeam
    OBVIOUS
  <2>2. Chain = {}
    BY DEF Init, TeamInit, Chain
  <2>. QED
    BY <1>1, <2>1, <2>2 DEF Init, TeamInit, TeamInv, TeamTypeOK, Guarded
<1>9. AccountInv
  <2>1. 0 \in 0..MaxAccount /\ Initial \in Forms
    BY DEF Initial, Forms
  <2>. QED
    BY <2>1 DEF Init, AccountInit, AccountInv, AccountTypeOK, Guarded
<1>10. left = {}
  BY DEF Init, ReadsInit
<1>. QED
  BY <1>2, <1>3, <1>4, <1>5, <1>6, <1>7, <1>8, <1>9, <1>10 DEF PagesInv

(* The invariant of the pages is inductive. *)
LEMMA PagesStep ==
    ASSUME PagesInv, [Next]_vars
    PROVE  PagesInv'
<1>1. ReadsInv /\ ListAsked /\ RetryInv /\ ProvidersInv /\ AiInv /\ DrawerInv /\ TeamInv
      /\ AccountInv /\ left \subseteq Submission
  BY DEF PagesInv
<1>2. ReadsInv'
  BY <1>1, ReadsStep
<1>3. CASE Next
  <2>1. ListAsked' /\ RetryInv' /\ ProvidersInv'
    BY <1>1, <1>3, ListAskedStep, RetryStep, ProvidersStep
  <2>2. AiInv' /\ DrawerInv'
    BY <1>1, <1>3, AiStep, DrawerStep
  <2>3. TeamInv' /\ AccountInv'
    BY <1>1, <1>3, TeamStep, AccountStep
  <2>. QED
    BY <1>2, <1>3, <2>1, <2>2, <2>3, LeftStep DEF PagesInv
<1>4. CASE UNCHANGED vars
  <2>1. UNCHANGED <<page, left, listVars, detailVars, retryVars, providerVars, drawerVars,
                    teamVars, accountVars>>
    BY <1>4 DEF vars, readVars
  <2>2. ListAsked'
    BY <1>1, <2>1 DEF ListAsked, listVars
  <2>3. RetryInv'
    BY <1>1, <2>1 DEF RetryInv, RetryTypeOK, retryVars, Guarded
  <2>4. MySaves' = MySaves /\ MyTests' = MyTests /\ Child' = Child
    BY <2>1 DEF MySaves, MyTests, Child, providerVars, listVars
  <2>5. ProvidersInv'
    BY <1>1, <2>1, <2>4 DEF ProvidersInv, ProvidersTypeOK, providerVars, formVars, Guarded,
                            ResultOfTheRow
  <2>6. AiInv'
    BY <1>1, <2>1, <2>4 DEF AiInv, providerVars, formVars
  <2>7. DrawerInv'
    BY <1>1, <2>1 DEF DrawerInv, DrawerTypeOK, DrawerHolds, DialogHolds, DrawerOpen,
          DrawerOfOneTenant, Guarded, drawerVars, panelVars, createVars, detailVars
  <2>8. Chain' = Chain
    BY <2>1 DEF Chain, teamVars
  <2>9. TeamInv'
    BY <1>1, <2>1, <2>8 DEF TeamInv, TeamTypeOK, teamVars, Guarded
  <2>10. AccountInv'
    BY <1>1, <2>1 DEF AccountInv, AccountTypeOK, accountVars, accFormVars, sessVars, Guarded
  <2>. QED
    BY <1>1, <1>2, <2>1, <2>2, <2>3, <2>5, <2>6, <2>7, <2>9, <2>10 DEF PagesInv
<1>. QED
  BY <1>3, <1>4

(* In every state of the pages each form has its facts, and the requests   *)
(* in flight belong to the page, the child, or the drawer that sent them.  *)
THEOREM PagesInvariant == Spec => []PagesInv
<1>1. Init => PagesInv
  BY PagesStart
<1>2. PagesInv /\ [Next]_vars => PagesInv'
  BY PagesStep
<1>. QED
  BY <1>1, <1>2, PTL DEF Spec

(* The variables of the pages have their types: no number of a request or  *)
(* of a run passes its bound.                                              *)
THEOREM PagesTypeCorrect == Spec => []TypeOK
<1>1. PagesInv => TypeOK
  <2>1. PagesInv => ReadsTypeOK
    <3>. SUFFICES ASSUME PagesInv
                  PROVE  ReadsTypeOK
      OBVIOUS
    <3>1. L!TypeOK /\ V!TypeOK /\ page \in Pages \cup OtherPages \cup {NoPage}
          /\ left \subseteq Submission
      BY DEF PagesInv, ReadsInv, L!CallsInv, V!CallsInv
    <3>2. List!TypeOK
      BY <3>1 DEF L!TypeOK, List!TypeOK, L!Call, List!Call, L!Answer, List!Answer,
                  L!NoData, List!NoData
    <3>3. Viewer!TypeOK
      BY <3>1 DEF V!TypeOK, Viewer!TypeOK, V!Call, Viewer!Call, V!Answer, Viewer!Answer,
                  V!NoData, Viewer!NoData
    <3>. QED
      BY <3>1, <3>2, <3>3 DEF ReadsTypeOK
  <2>. QED
    BY <2>1 DEF PagesInv, TypeOK, RetryInv, ProvidersInv, DrawerInv, TeamInv, AccountInv
<1>. QED
  BY <1>1, PagesInvariant, PTL

(* A set with no request counts none, and a set with one counts one. *)
LEMMA CountOfGuarded ==
    ASSUME NEW S
    PROVE  /\ S = {} => Cardinality(S) = 0
           /\ (\E c \in S : S = {c}) => Cardinality(S) = 1 /\ S # {}
BY FS_EmptySet, FS_Singleton

(* In one mount of a page, the buttons that are disabled while a request   *)
(* is in flight, and the dialogs in front of the others, let nothing be    *)
(* submitted twice: not the retry, not the tenant, not a provider, not a   *)
(* change of the team, not a form of the account; and each lock has        *)
(* exactly one request behind it.  What an earlier mount has sent may      *)
(* still be in flight.                                                     *)
THEOREM NoDoubleSubmitHolds == Spec => []NoDoubleSubmit
<1>1. PagesInv => NoDoubleSubmit
  <2>. SUFFICES ASSUME PagesInv
                PROVE  NoDoubleSubmit
    OBVIOUS
  <2>1. OneRetry
    <3>1. Guarded(retrying, retryCalls) /\ retrying \in BOOLEAN
      BY DEF PagesInv, RetryInv, RetryTypeOK
    <3>. QED
      BY <3>1, CountOfGuarded DEF Guarded, OneRetry
  <2>2. OneCreate
    <3>1. Guarded(creating, creates) /\ creating \in BOOLEAN
      BY DEF PagesInv, DrawerInv, DialogHolds, DrawerTypeOK
    <3>2. (creating => \E c \in creates : creates = {c}) /\ (~creating => creates = {})
      BY <3>1 DEF Guarded
    <3>3. /\ creates = {} => Cardinality(creates) = 0
          /\ (\E c \in creates : creates = {c}) => Cardinality(creates) = 1 /\ creates # {}
      BY CountOfGuarded
    <3>. QED
      BY <3>1, <3>2, <3>3 DEF OneCreate
  <2>3. SavingIsOne
    <3>1. Guarded(saving, MySaves) /\ saving \in BOOLEAN
      BY DEF PagesInv, ProvidersInv, ProvidersTypeOK
    <3>2. (saving => \E c \in MySaves : MySaves = {c}) /\ (~saving => MySaves = {})
      BY <3>1 DEF Guarded
    <3>3. /\ MySaves = {} => Cardinality(MySaves) = 0
          /\ (\E c \in MySaves : MySaves = {c}) => Cardinality(MySaves) = 1
      BY CountOfGuarded
    <3>4. (saving => Cardinality(MySaves) = 1) /\ (~saving => Cardinality(MySaves) = 0)
      BY <3>2, <3>3
    <3>5. saving <=> Cardinality(MySaves) = 1
      BY <3>1, <3>4
    <3>. QED
      BY <3>5 DEF SavingIsOne, MySaves
  <2>4. TeamOneChange
    <3>1. Guarded(teamBusy, Chain) /\ teamBusy \in BOOLEAN
      BY DEF PagesInv, TeamInv, TeamTypeOK
    <3>2. (teamBusy => \E c \in Chain : Chain = {c}) /\ (~teamBusy => Chain = {})
      BY <3>1 DEF Guarded
    <3>3. /\ Chain = {} => Cardinality(Chain) = 0
          /\ (\E c \in Chain : Chain = {c}) => Cardinality(Chain) = 1 /\ Chain # {}
      BY CountOfGuarded
    <3>4. teamBusy <=> Chain # {}
      BY <3>1, <3>2, <3>3
    <3>5. Cardinality(Chain) <= 1
      BY <3>1, <3>2, <3>3
    <3>. QED
      BY <3>4, <3>5 DEF TeamOneChange, Chain
  <2>5. AccountBusyIsTrue
    <3>1. Guarded(accSaving, saves) /\ (sessLoading => \E c \in sessCalls : c.op = "read")
      BY DEF PagesInv, AccountInv
    <3>. QED
      BY <3>1, CountOfGuarded DEF Guarded, AccountBusyIsTrue
  <2>. QED
    BY <2>1, <2>2, <2>3, <2>4, <2>5 DEF NoDoubleSubmit
<1>. QED
  BY <1>1, PagesInvariant, PTL

(* The result in a test dialog is the one of the provider in its title,    *)
(* although no answer is compared with the dialog it lands in.             *)
THEOREM ResultOfTheRowHolds == Spec => []ResultOfTheRow
<1>1. PagesInv => ResultOfTheRow
  BY DEF PagesInv, ProvidersInv
<1>. QED
  BY <1>1, PagesInvariant, PTL

(* A drawer lists the members and the modules of its own tenant, whatever  *)
(* the drawers before it left in flight.                                   *)
THEOREM DrawerOfOneTenantHolds == Spec => []DrawerOfOneTenant
<1>1. PagesInv => DrawerOfOneTenant
  BY DEF PagesInv, DrawerInv, DrawerHolds
<1>. QED
  BY <1>1, PagesInvariant, PTL

(* Every page but those of the providers draws its table from rows it has  *)
(* read.  The billing page counts only what it has read; the flags and the *)
(* incidents count nothing as zero only while they wait for an answer.  Of *)
(* the tiles and badges of the other pages nothing is said.                *)
THEOREM ContentIsReadHolds == Spec => []ContentIsRead
<1>1. PagesInv => ContentIsRead
  <2>. SUFFICES ASSUME PagesInv
                PROVE  ContentIsRead
    OBVIOUS
  <2>1. page \in Pages /\ ~lFailed /\ ~lLoading => lData # List!NoData
    <3>. SUFFICES ASSUME page \in Pages, ~lFailed, ~lLoading
                  PROVE  lData # List!NoData
      OBVIOUS
    <3>1. lKey # NoFilter /\ lGen # 0
      BY DEF PagesInv, ListAsked
    <3>2. lData = [gen |-> lGen, key |-> lKey]
      BY <3>1 DEF PagesInv, ReadsInv, L!SettledIsCurrent
    <3>. QED
      BY <3>1, <3>2 DEF List!NoData
  <2>2. ASSUME Screen = "content", page \notin {"ai", "email"}
        PROVE  lData # List!NoData
    <3>1. page \in Pages
      BY <2>2 DEF Screen, Pages
    <3>2. ~lFailed /\ (lLoading => lData # List!NoData)
      BY <2>2 DEF Screen, HealthScreen, BillingScreen, FlagsScreen, RunbooksScreen,
                  IncidentsScreen, DlqTable, FleetTable, TableScreen
    <3>. QED
      BY <2>1, <3>1, <3>2
  <2>3. Figures = "zeros" => page # "billing"
    <3>. SUFFICES ASSUME page = "billing", Figures = "zeros"
                  PROVE  FALSE
      OBVIOUS
    <3>1. page \in Pages /\ Figures = BillingFigures
      BY DEF Pages, Figures
    <3>. QED
      BY <2>1, <3>1 DEF BillingFigures, BillingScreen, Counted
  <2>4. Figures = "zeros" /\ page \in {"flags", "incidents"} => lLoading
    <3>. SUFFICES ASSUME page \in {"flags", "incidents"}, Figures = "zeros", ~lLoading
                  PROVE  FALSE
      OBVIOUS
    <3>1. page \in Pages /\ Figures \in {FlagsKpis, IncidentsKpis}
      BY DEF Pages, Figures
    <3>. QED
      BY <2>1, <3>1 DEF FlagsKpis, FlagsScreen, IncidentsKpis, IncidentsScreen, TableScreen,
                        Counted
  <2>. QED
    BY <2>2, <2>3, <2>4 DEF ContentIsRead
<1>. QED
  BY <1>1, PagesInvariant, PTL

(* A form of the AI page closes because the operator cancels it or because *)
(* its own save succeeded.                                                 *)
THEOREM AiFormKeptHolds == Spec => AiFormKept
<1>. DEFINE Closed == page = "ai" /\ page' = "ai" /\ editing # NoItem /\ editing' = NoItem
            Kept   == \/ ~saving /\ writes' = writes
                      \/ \E w \in writes \ writes' : w.op = "save" /\ w.row = editing
<1>1. PagesInv /\ [Next]_vars => [Closed => Kept]_<<readVars, providerVars>>
  <2>. SUFFICES ASSUME PagesInv, [Next]_vars, Closed
                PROVE  Kept
    OBVIOUS
  <2>1. Next
    BY DEF vars, providerVars, formVars
  <2>2. ProvidersNext
    <3>1. ~LeavePage
      BY DEF LeavePage, ClosePage, NoPage
    <3>2. ~ProvidersNext => UNCHANGED providerVars
      BY <2>1, <3>1 DEF Next, Browse
    <3>. QED
      BY <3>2 DEF providerVars, formVars
  <2>3. (\E w \in writes : WriteDone(w)) \/ CloseForm
    BY <2>2, NoKeysAssumption DEF ProvidersNext, StartEdit, DeleteRow, OpenTest, StartCreate,
        SubmitInvalid, SubmitForm, CloseTest, RunTest, WriteFailed, TestDone, formVars, NoModal
  <2>4. CASE CloseForm
    BY <2>4 DEF CloseForm
  <2>5. ASSUME NEW w \in writes, WriteDone(w)
        PROVE  Kept
    <3>1. w.op = "save" /\ w.row = editing
      BY <2>5 DEF PagesInv, AiInv, ProvidersInv, ProvidersTypeOK, Write, WriteDone
    <3>2. w \in writes \ writes'
      BY <2>5 DEF WriteDone
    <3>. QED
      BY <3>1, <3>2
  <2>. QED
    BY <2>3, <2>4, <2>5
<1>. QED
  BY <1>1, PagesInvariant, PTL DEF Spec, AiFormKept
=============================================================================

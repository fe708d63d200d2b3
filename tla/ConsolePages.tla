---------------------------- MODULE ConsolePages ----------------------------
(***************************************************************************)
(* What each page of the console reads and writes: the queries a page      *)
(* observes while it is mounted and the mutations it offers, with what     *)
(* their callbacks do to the query cache and to the route.  One definition *)
(* per page, the item of the route as its parameter.                       *)
(*                                                                         *)
(* A query is watched under a set of options: "always" (refetchOnMount:    *)
(* "always"), "poll" (refetchInterval), "parts" (several requests, whose   *)
(* failures are left out of the answer) and "admin" (enabled only for      *)
(* organization admins).  Layout, labels and form fields are left out;     *)
(* a form that fails its own validation sends nothing.                     *)
(***************************************************************************)
EXTENDS ApiSurface

CONSTANTS Ids,     \* items of the collection the session is about (None stands for no item)
          MyId     \* the item that is the signed-in user, or their organization

ASSUME IdsAssumption == MyId \in Ids /\ None \notin Ids

Watch(q, how) == [q |-> q, how |-> how]

Once   == {"always"}
Live   == {"always", "poll"}
Admin  == {"always", "admin"}
AdminLive == {"always", "poll", "admin"}

(***************************************************************************)
(* A mutation: the request w and the item it is about; the flags "row" (it *)
(* acts on the row a dialog or selection names, not on the route's item),  *)
(* "settled" (invalidates after an error too), "awaits" (the callback      *)
(* waits for the refetches before it goes on), "percall" (callbacks given  *)
(* to mutate, not to the hook) and "reload" (reloads the tab); drops: the  *)
(* list it edits before the request; sets: the lists whose row it replaces *)
(* by the answer; keys: the keys it invalidates; panelKeys: those it       *)
(* invalidates only while the dialog is open; push: where it goes.         *)
(***************************************************************************)
NoPush == <<>>
Act(w, item, how) ==
  [w |-> w, item |-> item, how |-> how, drops |-> {}, sets |-> {},
   keys |-> {}, panelKeys |-> {}, push |-> NoPush]
Submit(w, item, to) == [Act(w, item, {}) EXCEPT !.push = to]
Row(w, keys) == [Act(w, w.id, {"row"}) EXCEPT !.keys = keys]
OptimisticDeleteUnsettled(w, key, keys) ==  \* mutant: no rollback and no refetch after an error
  [Act(w, w.id, {"row"}) EXCEPT !.drops = {key}, !.keys = keys]

\* lib/list-delete.ts
createOptimisticListDeleteMutation(w, key, keys) ==
  [Act(w, w.id, {"row", "settled"}) EXCEPT !.drops = {key}, !.keys = keys]

\* panel: what a page watches besides while its dialog is open on item i, as <<i, watch>>
Page(at, queries, acts) ==
  [at |-> at, queries |-> queries, acts |-> acts, panel |-> {}]

(* ------------------------------ the shell ------------------------------ *)
Elsewhere == <<"elsewhere">>
meQuery == Watch(getMeApiV1UsersMeGet(MyId), Once)
OrgSwitcher ==
  [queries |-> {Watch(listMyOrganizationsApiV1OrganizationsMeListGet, Once)},
   acts |-> {Act(createOrganizationApiV1OrganizationsPost, i, {"reload"}) : i \in Ids}
            \cup {Act(setActiveOrgApiV1OrganizationsMeActivePatch(i), i, {"row", "reload"})
                    : i \in Ids}]
useOrganizationMembership == Watch(getMyMembershipApiV1OrganizationsMeMemberGet, Once)
DashboardSidebar == Watch(healthzHealthzGet, Live)
\* DashboardShell: the profile is not watched on the onboarding page
DashboardShell(at) ==
  OrgSwitcher.queries \cup {useOrganizationMembership, DashboardSidebar}
    \cup (IF at = <<"onboarding">> THEN {} ELSE {meQuery})

(* -------------------------------- agents ------------------------------- *)
agentsKey == listAgentsApiV1AgentsGet(None).key
boardsKey == listBoardsApiV1BoardsGet(None).key
AgentsPage ==
  Page(<<"agents">>,
       {Watch(listBoardsApiV1BoardsGet(None), AdminLive),
        Watch(listAgentsApiV1AgentsGet(None), AdminLive)},
       {createOptimisticListDeleteMutation(deleteAgentApiV1AgentsAgentIdDelete(i),
          agentsKey, {agentsKey, boardsKey}) : i \in Ids})
AgentDetailPage(a) ==
  Page(<<"agents", a>>,
       {Watch(getAgentApiV1AgentsAgentIdGet(a), AdminLive),
        Watch(listActivityApiV1ActivityGet("limit200"), {"poll", "admin"}),
        Watch(listBoardsApiV1BoardsGet(None), AdminLive)},
       {Submit(deleteAgentApiV1AgentsAgentIdDelete(a), a, <<"agents">>)})
EditAgentPage(a) ==
  Page(<<"agents", a, "edit">>,
       {Watch(listBoardsApiV1BoardsGet(None), Once),
        Watch(getAgentApiV1AgentsAgentIdGet(a), Once)},
       {Submit(updateAgentApiV1AgentsAgentIdPatch(a), a, <<"agents", a>>)})
NewAgentPage ==
  Page(<<"agents", "new">>, {Watch(listBoardsApiV1BoardsGet(None), Admin)},
       {Submit(createAgentApiV1AgentsPost, i, <<"agents", i>>) : i \in Ids})

(* -------------------------------- boards ------------------------------- *)
BoardsPage ==
  Page(<<"boards">>,
       {Watch(listBoardsApiV1BoardsGet(None), Live),
        Watch(listBoardGroupsApiV1BoardGroupsGet("limit"), Live)},
       {createOptimisticListDeleteMutation(deleteBoardApiV1BoardsBoardIdDelete(i),
          boardsKey, {boardsKey}) : i \in Ids})
NewBoardPageSetup ==  \* mutant: the new board is sent to a page that does not exist
  Page(<<"boards", "new">>, {},
       {Submit(createBoardApiV1BoardsPost, i, <<"boards", i, "setup">>) : i \in Ids})

NewBoardPage ==
  Page(<<"boards", "new">>,
       {Watch(listGatewaysApiV1GatewaysGet(None), Admin),
        Watch(listBoardGroupsApiV1BoardGroupsGet(None), Admin)},
       {Submit(createBoardApiV1BoardsPost, i, <<"boards", i, "edit">>) : i \in Ids})
\* The webhooks of the board are invalidated by the key without parameters.
webhooksKey(b) == listBoardWebhooksApiV1BoardsBoardIdWebhooksGet(b, None).key
EditBoardWebhooks(b) ==
  {[Act(createBoardWebhookApiV1BoardsBoardIdWebhooksPost(b), i, {"awaits"}) EXCEPT
      !.keys = {webhooksKey(b)}] : i \in Ids}
  \cup {Row(w, {webhooksKey(b)}) : w \in
          {deleteBoardWebhookApiV1BoardsBoardIdWebhooksWebhookIdDelete(b, i) : i \in Ids}
          \cup {updateBoardWebhookApiV1BoardsBoardIdWebhooksWebhookIdPatch(b, i) : i \in Ids}}
EditBoardSubmit(b) == {Submit(updateBoardApiV1BoardsBoardIdPatch(b), b, <<"boards", b>>)}
EditBoardPage(b) ==
  Page(<<"boards", b, "edit">>,
       {Watch(listGatewaysApiV1GatewaysGet(None), Admin),
        Watch(listBoardGroupsApiV1BoardGroupsGet(None), Admin),
        Watch(getBoardApiV1BoardsBoardIdGet(b), Admin),
        Watch(listBoardWebhooksApiV1BoardsBoardIdWebhooksGet(b, "limit"), Admin),
        Watch(listAgentsApiV1AgentsGet(b), Admin)},
       EditBoardSubmit(b) \cup EditBoardWebhooks(b))
WebhookPayloadsPage(b, i) ==
  Page(<<"boards", b, "webhooks", i, "payloads">>,
       {Watch(getBoardWebhookApiV1BoardsBoardIdWebhooksWebhookIdGet(b, i), Admin),
        Watch(listBoardWebhookPayloadsApiV1BoardsBoardIdWebhooksWebhookIdPayloadsGet(b, i, "page"),
              Admin)},
       {})
\* Task execution runs, requested by hand from the board page and the dashboard.
executionRuntime == Custom("runs", None, <<"dashboard", "execution-runtime", "7d">>)
telemetryOps     == Custom("runs", None, <<"dashboard", "telemetry-ops", "7d">>)
executionRuns(b) == Custom("runs", None, <<"board", b, "task", "selected", "execution-runs">>)
dispatchRun(b) ==
  Write("POST", "runs", None, TaskPath(b, "selected") \o <<"execution-runs", "dispatch">>)
RunActions(b, i) ==
  {Write("POST", "runs", i, Append(RunPath(b, "selected", i), op)) :
     op \in {"retry-dispatch", "cancel", "acknowledge", "escalate"}}
\* The queries of the board page (its own snapshot and streams: BoardStreams).
BoardDetailQueries(b) ==
  {useOrganizationMembership, Watch(listTagsApiV1TagsGet("limit"), Once),
   Watch(listOrgCustomFieldsApiV1OrganizationsMeCustomFieldsGet, Once)}
\* While the details of a task are open.
BoardDetailPanel(b) ==
  {Watch(fetchSilos(<<"silos">>), AdminLive), Watch(executionRuns(b), Live),
   Watch(fetchSiloSpawnRequestsForBoard(b), AdminLive)}
invalidateExecutionRunViews(b) ==
  {executionRuns(b).key, listActivityApiV1ActivityGet("limit200").key, executionRuntime.key}
BoardDetailRuns(b) ==
  UNION {{[Act(dispatchRun(b), i, {"row", "awaits"}) EXCEPT !.keys = invalidateExecutionRunViews(b)]}
         \cup {[Row(w, invalidateExecutionRunViews(b)) EXCEPT !.how = {"row", "awaits"}]
                 : w \in RunActions(b, i)} : i \in Ids}
BoardDetailPage(b) ==
  [Page(<<"boards", b>>, BoardDetailQueries(b), BoardDetailRuns(b))
     EXCEPT !.panel = Ids \X BoardDetailPanel(b)]

(* ------------------------------- approvals ----------------------------- *)
\* a decision replaces the row, then invalidates; both belong to the call
Decision(b, i, key) ==
  [Act(updateApprovalApiV1BoardsBoardIdApprovalsApprovalIdPatch(b, i), i,
       {"row", "settled", "percall"}) EXCEPT !.sets = {key}, !.keys = {key}]
BoardApprovals(b) == listApprovalsApiV1BoardsBoardIdApprovalsGet(b, None)
BoardApprovalsPanel(b) ==
  Page(<<"boards", b, "approvals">>, {Watch(BoardApprovals(b), Live)},
       {Decision(b, i, BoardApprovals(b).key) : i \in Ids})
\* The global page asks each board it holds for its approvals, under a key that names
\* those boards: s stands for one set of them.  MyId is a board of every set, and the
\* collection the page is about is its approvals.
GlobalApprovals(s) == Of(MyId, Custom("approvals", None, <<"approvals", "global", s>>))
GlobalApprovalsPage(s) ==
  Page(<<"approvals", s>>, {Watch(listBoardsApiV1BoardsGet(None), Live),
                            Watch(GlobalApprovals(s), Live \cup {"parts"})},
       {Decision(MyId, i, GlobalApprovals(s).key) : i \in Ids})

(* ------------------------------ board groups --------------------------- *)
groupsKey == listBoardGroupsApiV1BoardGroupsGet(None).key
BoardGroupsPage ==
  Page(<<"board-groups">>, {Watch(listBoardGroupsApiV1BoardGroupsGet(None), Live)},
       {createOptimisticListDeleteMutation(deleteBoardGroupApiV1BoardGroupsGroupIdDelete(i),
          groupsKey, {groupsKey}) : i \in Ids})
NewBoardGroupPage ==
  Page(<<"board-groups", "new">>, {Watch(listBoardsApiV1BoardsGet("limit"), Once)},
       {Submit(createBoardGroupApiV1BoardGroupsPost, i, <<"board-groups", i>>) : i \in Ids})
BoardGroupDetailPage(g) ==
  Page(<<"board-groups", g>>,
       {Watch(getBoardGroupSnapshotApiV1BoardGroupsGroupIdSnapshotGet(g, "limits"), Live),
        useOrganizationMembership},
       {})
\* Saving an assignment refetches both lists of boards; the group's own fields
\* are saved with it and lead to the group's page.
allBoards   == listBoardsApiV1BoardsGet("limit")
groupBoards == listBoardsApiV1BoardsGet("limit+group")
EditBoardGroupPage(g) ==
  Page(<<"board-groups", g, "edit">>,
       {Watch(getBoardGroupApiV1BoardGroupsGroupIdGet(g), Once),
        Watch(allBoards, Once), Watch(groupBoards, Once)},
       {Submit(updateBoardGroupApiV1BoardGroupsGroupIdPatch(g), g, <<"board-groups", g>>)}
       \cup {[Row(updateBoardApiV1BoardsBoardIdPatch(i), {allBoards.key, groupBoards.key}) EXCEPT
                 !.how = {"row", "settled"}] : i \in Ids})

(* ------------------------------- gateways ------------------------------ *)
gatewaysKey == listGatewaysApiV1GatewaysGet(None).key
GatewaysPage ==
  Page(<<"gateways">>, {Watch(listGatewaysApiV1GatewaysGet(None), AdminLive)},
       {createOptimisticListDeleteMutation(deleteGatewayApiV1GatewaysGatewayIdDelete(i),
          gatewaysKey, {gatewaysKey}) : i \in Ids})
NewGatewayPage ==
  Page(<<"gateways", "new">>, {},
       {Submit(createGatewayApiV1GatewaysPost, i, <<"gateways", i>>) : i \in Ids})
\* None of its reads refetches on mount unless stale.
gatewayAgents(g) == listAgentsApiV1AgentsGet(g)
GatewayDetailPage(g) ==
  Page(<<"gateways", g>>,
       {Watch(getGatewayApiV1GatewaysGatewayIdGet(g), {"poll", "admin"}),
        Watch(listBoardsApiV1BoardsGet(None), {"poll", "admin"}),
        Watch(gatewayAgents(g), {"poll", "admin"}),
        Watch(gatewaysStatusApiV1GatewaysStatusGet("gateway"), {"poll", "admin"})},
       {createOptimisticListDeleteMutation(deleteAgentApiV1AgentsAgentIdDelete(i),
          gatewayAgents(g).key, {gatewayAgents(g).key}) : i \in Ids})
EditGatewayPage(g) ==
  Page(<<"gateways", g, "edit">>, {Watch(getGatewayApiV1GatewaysGatewayIdGet(g), Admin)},
       {Submit(updateGatewayApiV1GatewaysGatewayIdPatch(g), g, <<"gateways", g>>)})

(* -------------------------------- tags --------------------------------- *)
tagsKey == listTagsApiV1TagsGet(None).key
TagsPageQuiet ==  \* mutant: the delete of a tag invalidates nothing
  Page(<<"tags">>, {Watch(listTagsApiV1TagsGet(None), Live)},
       {Row(deleteTagApiV1TagsTagIdDelete(i), {}) : i \in Ids})

TagsPage ==
  Page(<<"tags">>, {Watch(listTagsApiV1TagsGet(None), Live)},
       {Row(deleteTagApiV1TagsTagIdDelete(i), {tagsKey}) : i \in Ids})
NewTagPage ==
  Page(<<"tags", "add">>, {},
       {Submit(createTagApiV1TagsPost, i, <<"tags">>) : i \in Ids})
EditTagPage(t) ==
  Page(<<"tags", t, "edit">>, {Watch(getTagApiV1TagsTagIdGet(t), Once)},
       {Submit(updateTagApiV1TagsTagIdPatch(t), t, <<"tags">>)})

(* ---------------------------- custom fields ---------------------------- *)
customFieldsKey == listOrgCustomFieldsApiV1OrganizationsMeCustomFieldsGet.key
\* await the invalidation, then leave for the list
SaveField(w, i) ==
  [Act(w, i, {"awaits"}) EXCEPT !.keys = {customFieldsKey}, !.push = <<"custom-fields">>]
CustomFieldsPage ==
  Page(<<"custom-fields">>,
       {Watch(listOrgCustomFieldsApiV1OrganizationsMeCustomFieldsGet, Live)},
       {Row(deleteOrgCustomFieldApiV1OrganizationsMeCustomFieldsTaskCustomFieldDefinitionIdDelete(i),
            {customFieldsKey}) : i \in Ids})
NewCustomFieldPage ==
  Page(<<"custom-fields", "new">>, {Watch(listBoardsApiV1BoardsGet("limit"), Once)},
       {SaveField(createOrgCustomFieldApiV1OrganizationsMeCustomFieldsPost, i) : i \in Ids})
EditCustomFieldPage(f) ==
  Page(<<"custom-fields", f, "edit">>,
       {Watch(listOrgCustomFieldsApiV1OrganizationsMeCustomFieldsGet, Once),
        Watch(listBoardsApiV1BoardsGet("limit"), Once)},
       {SaveField(
          updateOrgCustomFieldApiV1OrganizationsMeCustomFieldsTaskCustomFieldDefinitionIdPatch(f),
          f)})

(* -------------------------------- skills ------------------------------- *)
packsQueryKey == listSkillPacksApiV1SkillsPacksGet.key
SkillsPacksPage ==
  Page(<<"skills", "packs">>, {Watch(listSkillPacksApiV1SkillsPacksGet, AdminLive)},
       {Row(w, {packsQueryKey}) : w \in
          {deleteSkillPackApiV1SkillsPacksPackIdDelete(i) : i \in Ids}
          \cup {syncSkillPackApiV1SkillsPacksPackIdSyncPost(i) : i \in Ids}})
NewSkillPackPage ==
  Page(<<"skills", "packs", "new">>, {},
       {Submit(createSkillPackApiV1SkillsPacksPost, i, <<"skills", "packs">>) : i \in Ids})
EditSkillPackPage(p) ==
  Page(<<"skills", "packs", p, "edit">>, {Watch(getSkillPackApiV1SkillsPacksPackIdGet(p), Admin)},
       {Submit(updateSkillPackApiV1SkillsPacksPackIdPatch(p), p, <<"skills", "packs">>)})
\* Two reads of the skills, the page and its filter options, invalidated together.
skillsKey == listMarketplaceSkillsApiV1SkillsMarketplaceGet(None).key
MarketplaceActs ==
  {Row(w, {skillsKey}) : w \in
     {installMarketplaceSkillApiV1SkillsMarketplaceSkillIdInstallPost(i) : i \in Ids}
     \cup {uninstallMarketplaceSkillApiV1SkillsMarketplaceSkillIdUninstallPost(i) : i \in Ids}}
SkillsMarketplacePage ==
  Page(<<"skills", "marketplace">>,
       {Watch(listGatewaysApiV1GatewaysGet(None), AdminLive),
        Watch(listMarketplaceSkillsApiV1SkillsMarketplaceGet("page"), AdminLive),
        Watch(listMarketplaceSkillsApiV1SkillsMarketplaceGet("options"), AdminLive),
        Watch(listSkillPacksApiV1SkillsPacksGet, Admin)},
       MarketplaceActs)

(* ------------------------ account and organization --------------------- *)
SettingsPage ==
  Page(<<"settings">>, {meQuery},
       {[Act(updateMeApiV1UsersMePatch(MyId), MyId, {"awaits"}) EXCEPT
           !.keys = {getMeApiV1UsersMeGet(MyId).key}],
        Submit(deleteMeApiV1UsersMeDelete(MyId), MyId, <<"sign-in">>)})
OnboardingPageCached ==  \* mutant: the profile is not read again on mount
  Page(<<"onboarding">>, {Watch(getMeApiV1UsersMeGet(MyId), {})},
       {Submit(updateMeApiV1UsersMePatch(MyId), MyId, <<"dashboard">>)})

\* The answer of the update is not written to the cache, nor the key invalidated.
OnboardingPage ==
  Page(<<"onboarding">>, {meQuery},
       {Submit(updateMeApiV1UsersMePatch(MyId), MyId, <<"dashboard">>)})
membersKey == listOrgMembersApiV1OrganizationsMeMembersGet("limit").key
invitesKey == listOrgInvitesApiV1OrganizationsMeInvitesGet("limit").key
OrganizationQueries ==
  {Watch(getMyOrgApiV1OrganizationsMeGet(MyId), Once),
   Watch(listOrgMembersApiV1OrganizationsMeMembersGet("limit"), Once),
   Watch(listBoardsApiV1BoardsGet("limit"), Once), useOrganizationMembership,
   Watch(listOrgInvitesApiV1OrganizationsMeInvitesGet("limit"), Admin)}
OrganizationInvites ==
  {[Act(createOrgInviteApiV1OrganizationsMeInvitesPost, i, {}) EXCEPT !.keys = {invitesKey}]
     : i \in Ids}
  \cup {Row(revokeOrgInviteApiV1OrganizationsMeInvitesInviteIdDelete(i), {invitesKey}) : i \in Ids}
removeMember(i) ==
  Write("DELETE", "members", i, Me \o <<"members", i>>)
\* The detail of a member is invalidated only if the dialog still names one.
OrganizationMembers ==
  UNION {{[Row(updateMemberAccessApiV1OrganizationsMeMembersMemberIdAccessPut(i), {membersKey})
             EXCEPT !.panelKeys = {getOrgMemberApiV1OrganizationsMeMembersMemberIdGet(i).key}],
          Row(updateOrgMemberApiV1OrganizationsMeMembersMemberIdPatch(i), {membersKey}),
          Row(removeMember(i), {membersKey})} : i \in Ids}
DeleteOrganization ==
  [Act(Write("DELETE", "organizations", MyId, Me), MyId, {"awaits"})
     EXCEPT !.keys = {listMyOrganizationsApiV1OrganizationsMeListGet.key}, !.push = <<"dashboard">>]
OrganizationPage ==
  [Page(<<"organization">>, OrganizationQueries,
        OrganizationInvites \cup OrganizationMembers \cup {DeleteOrganization})
     EXCEPT !.panel = {<<i, Watch(getOrgMemberApiV1OrganizationsMeMembersMemberIdGet(i), {})>>
                         : i \in Ids}]
InvitePage ==
  Page(<<"invite">>, {},
       {Submit(acceptOrgInviteApiV1OrganizationsInvitesAcceptPost, i, <<"organization">>) : i \in Ids})

(* --------------------------------- silos ------------------------------- *)
SilosPage == Page(<<"silos">>, {Watch(fetchSilos(<<"silos">>), {"poll", "admin"})}, {})
NewSiloPage(r) ==
  Page(<<"silos", "new", r>>,
       {Watch(fetchSiloBlueprints, {"admin"}), Watch(listGatewaysApiV1GatewaysGet(None), Admin),
        Watch(fetchSiloSpawnRequest(r), {"admin"})},
       {Submit(createSilo, i, <<"silos", i>>) : i \in Ids})
SiloDetailPage(s) ==
  Page(<<"silos", s>>,
       {Watch(fetchSiloDetail(s), {"poll", "admin"}),
        Watch(listGatewaysApiV1GatewaysGet(None), Admin)},
       {[Act(w, s, {}) EXCEPT !.keys = {fetchSiloDetail(s).key}] : w \in
          {runSiloRuntime(s, "validate"), runSiloRuntime(s, "apply"), updateSilo(s)}})
spawnRequests == fetchSiloSpawnRequests(<<"silo-spawn-requests">>)
SiloRequestsPage ==
  Page(<<"silos", "requests">>,
       {Watch(spawnRequests, {"poll", "admin"}), Watch(fetchBoardOptions, {"poll", "admin"})},
       {[Act(createSiloSpawnRequest, i, {"awaits"}) EXCEPT !.keys = {spawnRequests.key}] : i \in Ids}
       \cup {Row(updateSiloSpawnRequest(i), {spawnRequests.key}) : i \in Ids})

(* ------------------------------ dashboard ------------------------------ *)
invalidateRuntimeViews ==
  {executionRuntime.key, telemetryOps.key, dashboardMetricsApiV1MetricsDashboardGet("range").key,
   listActivityApiV1ActivityGet("limit200").key}
gatewayStatuses ==
  [Custom("status", None, <<"dashboard", "gateway-statuses">>) EXCEPT !.signal = TRUE]
DashboardQueries ==
  {Watch(listBoardsApiV1BoardsGet("limit"), Live), Watch(listAgentsApiV1AgentsGet("limit"), Live),
   Watch(dashboardMetricsApiV1MetricsDashboardGet("range"), Live),
   Watch(executionRuntime, Live), Watch(telemetryOps, Live), Watch(gatewayStatuses, Live),
   Watch(fetchSiloSpawnRequests(<<"silo-spawn-requests", "dashboard">>), Live),
   Watch(fetchSilos(<<"silos", "dashboard">>), Live),
   Watch(listActivityApiV1ActivityGet("limit200"), Live)}
DashboardRuns ==
  UNION {{[Row(w, invalidateRuntimeViews) EXCEPT !.how = {"row", "awaits"}] : w \in RunActions(MyId, i)}
         : i \in Ids}
DashboardPage == Page(<<"dashboard">>, DashboardQueries, DashboardRuns)

\* A request written by hand that the client also has is the client's: its method
\* and path.  cancel, acknowledge, escalate and the spawn requests it does not have.
SameRequest(x, y) == x.method = y.method /\ x.path = y.path
ASSUME HandWrittenRequests ==
  \A i \in Ids :
    /\ SameRequest(removeMember(i), removeOrgMemberApiV1OrganizationsMeMembersMemberIdDelete(i))
    /\ SameRequest(DeleteOrganization.w, deleteMyOrgApiV1OrganizationsMeDelete(MyId))
    /\ SameRequest(createSilo, createSiloApiV1SilosPost)
    /\ SameRequest(updateSilo(i), updateSiloApiV1SilosSlugPatch(i))
    /\ SameRequest(runSiloRuntime(i, "apply"), applySiloRuntimeApiV1SilosSlugRuntimeApplyPost(i))
    /\ SameRequest(runSiloRuntime(i, "validate"),
                   validateSiloRuntimeApiV1SilosSlugRuntimeValidatePost(i))
    /\ SameRequest(dispatchRun(MyId),
         createAndDispatchTaskExecutionRunApiV1BoardsBoardIdTasksTaskIdExecutionRunsDispatchPost(
           MyId, "selected"))
    /\ \E w \in RunActions(MyId, i) : SameRequest(w,
         retryAndDispatchTaskExecutionRunApiV1BoardsBoardIdTasksTaskIdExecutionRunsRunIdRetryDispatchPost(
           MyId, "selected", i))

\* The pages of the site: those without a parameter in the route, and those of an item.
ListPages ==
  {AgentsPage, NewAgentPage, BoardsPage, NewBoardPage, BoardGroupsPage, NewBoardGroupPage,
   GatewaysPage, NewGatewayPage, TagsPage, NewTagPage, CustomFieldsPage, NewCustomFieldPage,
   SkillsPacksPage, NewSkillPackPage, SkillsMarketplacePage, SettingsPage, OnboardingPage,
   OrganizationPage, InvitePage, SilosPage, SiloRequestsPage, DashboardPage}
ItemPages(i) ==
  {AgentDetailPage(i), EditAgentPage(i), EditBoardPage(i), BoardDetailPage(i),
   BoardApprovalsPanel(i), GlobalApprovalsPage(i), BoardGroupDetailPage(i), EditBoardGroupPage(i),
   GatewayDetailPage(i), EditGatewayPage(i), EditTagPage(i), EditCustomFieldPage(i),
   EditSkillPackPage(i), NewSiloPage(i), SiloDetailPage(i), WebhookPayloadsPage(MyId, i)}
Site == ListPages \cup UNION {ItemPages(i) : i \in Ids}
=============================================================================

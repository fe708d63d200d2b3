------------------------------ MODULE ApiClient ------------------------------
(***************************************************************************)
(* The generated client of the Mission Control API (frontend/src/api/      *)
(* generated): one definition per operation the console uses.  A read is   *)
(* the record of its request path and of the React Query key built from    *)
(* it; a write is the record of its method and path.  Keys are what the    *)
(* cache is indexed and invalidated by: <<path>> without parameters,       *)
(* <<path, <<params>>>> with them, so that a key without parameters is a   *)
(* prefix of every parameterised key of the same path, and of nothing      *)
(* else: the key of an item is not under the key of its list.              *)
(*                                                                         *)
(* Each record also says which collection of the server it reads or        *)
(* writes (of) and which item of it (id, None for the whole collection).   *)
(***************************************************************************)
EXTENDS Naturals, Sequences

None == "none"

\* getXQueryKey: [`path`, ...(params ? [params] : [])]
KeyOf(path, params) == IF params = None THEN <<path>> ELSE <<path, <<params>>>>

Read(of, id, path, params) ==
  [of |-> <<of>>, id |-> id, path |-> path, params |-> params,
   key |-> KeyOf(path, params), signal |-> TRUE]
List(of, path, params) == Read(of, None, path, params)
Item(of, id, path)     == Read(of, id, path, None)

Write(method, of, id, path) ==
  [method |-> method, of |-> <<of>>, id |-> id, path |-> path]

\* a read or write of a collection that belongs to one board
Of(boardId, request) == [request EXCEPT !.of = Append(@, boardId)]

\* agents/agents.ts
listAgentsApiV1AgentsGet(params) == List("agents", <<"agents">>, params)
getAgentApiV1AgentsAgentIdGet(agentId) == Item("agents", agentId, <<"agents", agentId>>)
createAgentApiV1AgentsPost == Write("POST", "agents", None, <<"agents">>)
updateAgentApiV1AgentsAgentIdPatch(agentId) ==
  Write("PATCH", "agents", agentId, <<"agents", agentId>>)
deleteAgentApiV1AgentsAgentIdDelete(agentId) ==
  Write("DELETE", "agents", agentId, <<"agents", agentId>>)

\* boards/boards.ts
listBoardsApiV1BoardsGet(params) == List("boards", <<"boards">>, params)
getBoardApiV1BoardsBoardIdGet(boardId) == Item("boards", boardId, <<"boards", boardId>>)
createBoardApiV1BoardsPost == Write("POST", "boards", None, <<"boards">>)
updateBoardApiV1BoardsBoardIdPatch(boardId) ==
  Write("PATCH", "boards", boardId, <<"boards", boardId>>)
deleteBoardApiV1BoardsBoardIdDelete(boardId) ==
  Write("DELETE", "boards", boardId, <<"boards", boardId>>)

\* board-groups/board-groups.ts
listBoardGroupsApiV1BoardGroupsGet(params) == List("groups", <<"board-groups">>, params)
getBoardGroupApiV1BoardGroupsGroupIdGet(groupId) ==
  Item("groups", groupId, <<"board-groups", groupId>>)
getBoardGroupSnapshotApiV1BoardGroupsGroupIdSnapshotGet(groupId, params) ==
  Read("groups", groupId, <<"board-groups", groupId, "snapshot">>, params)
createBoardGroupApiV1BoardGroupsPost == Write("POST", "groups", None, <<"board-groups">>)
updateBoardGroupApiV1BoardGroupsGroupIdPatch(groupId) ==
  Write("PATCH", "groups", groupId, <<"board-groups", groupId>>)
deleteBoardGroupApiV1BoardGroupsGroupIdDelete(groupId) ==
  Write("DELETE", "groups", groupId, <<"board-groups", groupId>>)

\* gateways/gateways.ts
listGatewaysApiV1GatewaysGet(params) == List("gateways", <<"gateways">>, params)
getGatewayApiV1GatewaysGatewayIdGet(gatewayId) ==
  Item("gateways", gatewayId, <<"gateways", gatewayId>>)
createGatewayApiV1GatewaysPost == Write("POST", "gateways", None, <<"gateways">>)
updateGatewayApiV1GatewaysGatewayIdPatch(gatewayId) ==
  Write("PATCH", "gateways", gatewayId, <<"gateways", gatewayId>>)
deleteGatewayApiV1GatewaysGatewayIdDelete(gatewayId) ==
  Write("DELETE", "gateways", gatewayId, <<"gateways", gatewayId>>)

gatewaysStatusApiV1GatewaysStatusGet(params) ==
  List("status", <<"gateways", "status">>, params)

\* tags/tags.ts
listTagsApiV1TagsGet(params) == List("tags", <<"tags">>, params)
getTagApiV1TagsTagIdGet(tagId) == Item("tags", tagId, <<"tags", tagId>>)
createTagApiV1TagsPost == Write("POST", "tags", None, <<"tags">>)
updateTagApiV1TagsTagIdPatch(tagId) == Write("PATCH", "tags", tagId, <<"tags", tagId>>)
deleteTagApiV1TagsTagIdDelete(tagId) == Write("DELETE", "tags", tagId, <<"tags", tagId>>)

\* org-custom-fields/org-custom-fields.ts
CustomFields == <<"organizations", "me", "custom-fields">>
listOrgCustomFieldsApiV1OrganizationsMeCustomFieldsGet == List("fields", CustomFields, None)
createOrgCustomFieldApiV1OrganizationsMeCustomFieldsPost ==
  Write("POST", "fields", None, CustomFields)
updateOrgCustomFieldApiV1OrganizationsMeCustomFieldsTaskCustomFieldDefinitionIdPatch(fieldId) ==
  Write("PATCH", "fields", fieldId, Append(CustomFields, fieldId))
deleteOrgCustomFieldApiV1OrganizationsMeCustomFieldsTaskCustomFieldDefinitionIdDelete(fieldId) ==
  Write("DELETE", "fields", fieldId, Append(CustomFields, fieldId))

\* skills/skills.ts
listSkillPacksApiV1SkillsPacksGet == List("packs", <<"skills", "packs">>, None)
getSkillPackApiV1SkillsPacksPackIdGet(packId) ==
  Item("packs", packId, <<"skills", "packs", packId>>)
createSkillPackApiV1SkillsPacksPost == Write("POST", "packs", None, <<"skills", "packs">>)
updateSkillPackApiV1SkillsPacksPackIdPatch(packId) ==
  Write("PATCH", "packs", packId, <<"skills", "packs", packId>>)
deleteSkillPackApiV1SkillsPacksPackIdDelete(packId) ==
  Write("DELETE", "packs", packId, <<"skills", "packs", packId>>)
syncSkillPackApiV1SkillsPacksPackIdSyncPost(packId) ==
  Write("POST", "packs", packId, <<"skills", "packs", packId, "sync">>)
listMarketplaceSkillsApiV1SkillsMarketplaceGet(params) ==
  List("skills", <<"skills", "marketplace">>, params)
installMarketplaceSkillApiV1SkillsMarketplaceSkillIdInstallPost(skillId) ==
  Write("POST", "skills", skillId, <<"skills", "marketplace", skillId, "install">>)
uninstallMarketplaceSkillApiV1SkillsMarketplaceSkillIdUninstallPost(skillId) ==
  Write("POST", "skills", skillId, <<"skills", "marketplace", skillId, "uninstall">>)

\* organizations/organizations.ts
Me == <<"organizations", "me">>
getMyOrgApiV1OrganizationsMeGet(org) == Item("organizations", org, Me)
getMyMembershipApiV1OrganizationsMeMemberGet == List("membership", Append(Me, "member"), None)
listOrgMembersApiV1OrganizationsMeMembersGet(params) ==
  List("members", Append(Me, "members"), params)
getOrgMemberApiV1OrganizationsMeMembersMemberIdGet(memberId) ==
  Item("members", memberId, Me \o <<"members", memberId>>)
updateOrgMemberApiV1OrganizationsMeMembersMemberIdPatch(memberId) ==
  Write("PATCH", "members", memberId, Me \o <<"members", memberId>>)
updateMemberAccessApiV1OrganizationsMeMembersMemberIdAccessPut(memberId) ==
  Write("PUT", "members", memberId, Me \o <<"members", memberId, "access">>)
listOrgInvitesApiV1OrganizationsMeInvitesGet(params) ==
  List("invites", Append(Me, "invites"), params)
createOrgInviteApiV1OrganizationsMeInvitesPost ==
  Write("POST", "invites", None, Append(Me, "invites"))
revokeOrgInviteApiV1OrganizationsMeInvitesInviteIdDelete(inviteId) ==
  Write("DELETE", "invites", inviteId, Me \o <<"invites", inviteId>>)
listMyOrganizationsApiV1OrganizationsMeListGet ==
  List("organizations", Append(Me, "list"), None)
createOrganizationApiV1OrganizationsPost ==
  Write("POST", "organizations", None, <<"organizations">>)
setActiveOrgApiV1OrganizationsMeActivePatch(orgId) ==
  Write("PATCH", "organizations", orgId, Append(Me, "active"))
acceptOrgInviteApiV1OrganizationsInvitesAcceptPost ==
  Write("POST", "members", None, <<"organizations", "invites", "accept">>)

\* users/users.ts
getMeApiV1UsersMeGet(me) == Item("users", me, <<"users", "me">>)
updateMeApiV1UsersMePatch(me) == Write("PATCH", "users", me, <<"users", "me">>)
deleteMeApiV1UsersMeDelete(me) == Write("DELETE", "users", me, <<"users", "me">>)

\* board-webhooks/board-webhooks.ts
listBoardWebhookPayloadsApiV1BoardsBoardIdWebhooksWebhookIdPayloadsGet(boardId, webhookId, params) ==
  List("payloads", <<"boards", boardId, "webhooks", webhookId, "payloads">>, params)
listBoardWebhooksApiV1BoardsBoardIdWebhooksGet(boardId, params) ==
  Of(boardId, List("webhooks", <<"boards", boardId, "webhooks">>, params))
getBoardWebhookApiV1BoardsBoardIdWebhooksWebhookIdGet(boardId, webhookId) ==
  Of(boardId, Item("webhooks", webhookId, <<"boards", boardId, "webhooks", webhookId>>))
createBoardWebhookApiV1BoardsBoardIdWebhooksPost(boardId) ==
  Of(boardId, Write("POST", "webhooks", None, <<"boards", boardId, "webhooks">>))
updateBoardWebhookApiV1BoardsBoardIdWebhooksWebhookIdPatch(boardId, webhookId) ==
  Of(boardId, Write("PATCH", "webhooks", webhookId, <<"boards", boardId, "webhooks", webhookId>>))
deleteBoardWebhookApiV1BoardsBoardIdWebhooksWebhookIdDelete(boardId, webhookId) ==
  Of(boardId, Write("DELETE", "webhooks", webhookId, <<"boards", boardId, "webhooks", webhookId>>))

\* approvals/approvals.ts
listApprovalsApiV1BoardsBoardIdApprovalsGet(boardId, params) ==
  Of(boardId, List("approvals", <<"boards", boardId, "approvals">>, params))
updateApprovalApiV1BoardsBoardIdApprovalsApprovalIdPatch(boardId, approvalId) ==
  Of(boardId, Write("PATCH", "approvals", approvalId, <<"boards", boardId, "approvals", approvalId>>))

\* activity/activity.ts, metrics/metrics.ts, health/health.ts: only read
listActivityApiV1ActivityGet(params) == List("activity", <<"activity">>, params)
dashboardMetricsApiV1MetricsDashboardGet(params) ==
  List("metrics", <<"metrics", "dashboard">>, params)
healthzHealthzGet == List("health", <<"healthz">>, None)

\* lib/silos.ts, lib/silo-detail.ts and lib/silo-spawn-requests.ts: requests
\* written by hand, whose query functions do not take the abort signal
Custom(of, id, parts) ==
  [of |-> <<of>>, id |-> id, path |-> <<"own", parts[1]>>, params |-> None,
   key |-> [n \in DOMAIN parts |-> <<"own", parts[n]>>], signal |-> FALSE]
fetchSilos(parts) == Custom("silos", None, parts)
fetchSiloDetail(slug) == Custom("silos", slug, <<"silos", slug, "detail">>)
fetchSiloBlueprints == Custom("blueprints", None, <<"silo-blueprints">>)
createSilo == Write("POST", "silos", None, <<"silos">>)
updateSilo(slug) == Write("PATCH", "silos", slug, <<"silos", slug>>)
runSiloRuntime(slug, mode) == Write("POST", "silos", slug, <<"silos", slug, "runtime", mode>>)
fetchSiloSpawnRequests(parts) == Custom("requests", None, parts)
fetchSiloSpawnRequest(id) == Custom("requests", id, <<"silo-spawn-requests", id>>)
fetchSiloSpawnRequestsForBoard(boardId) ==
  Custom("requests", None, <<"board", boardId, "silo-spawn-requests">>)
createSiloSpawnRequest == Write("POST", "requests", None, <<"silos", "spawn-requests">>)
updateSiloSpawnRequest(id) == Write("PATCH", "requests", id, <<"silos", "spawn-requests", id>>)
fetchBoardOptions == Custom("boards", None, <<"boards", "silo-requests">>)
=============================================================================

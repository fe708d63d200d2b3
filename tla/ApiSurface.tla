----------------------------- MODULE ApiSurface -----------------------------
(***************************************************************************)
(* The rest of the generated client: the operations the console sends      *)
(* outside the query cache (snapshots, event streams, task and memory      *)
(* writes, onboarding), those it sends with hand-written requests (silos,  *)
(* execution runs, metrics), and those for the agents and for other        *)
(* programs, which no page sends.  What is checked of the whole client is  *)
(* that its cache keys and its requests do not collide.                    *)
(***************************************************************************)
EXTENDS ApiClient, FiniteSets

BoardPath(boardId) == <<"boards", boardId>>
TaskPath(boardId, taskId) == BoardPath(boardId) \o <<"tasks", taskId>>
RunPath(boardId, taskId, runId) == TaskPath(boardId, taskId) \o <<"execution-runs", runId>>
AgentBoard(boardId) == <<"agent", "boards", boardId>>
AgentTask(boardId, taskId) == AgentBoard(boardId) \o <<"tasks", taskId>>

\* activity/activity.ts
streamActivityApiV1ActivityStreamGet(params) ==
  Read("activity", None, <<"activity", "stream">>, params)
listTaskCommentFeedApiV1ActivityTaskCommentsGet(params) ==
  Read("comments", None, <<"activity", "task-comments">>, params)
streamTaskCommentFeedApiV1ActivityTaskCommentsStreamGet(params) ==
  Read("comments", None, <<"activity", "task-comments", "stream">>, params)

\* agent/agent.ts
listAgentsApiV1AgentAgentsGet(params) == Read("agents", None, <<"agent", "agents">>, params)
agentLeadCreateAgent == Write("POST", "agents", None, <<"agent", "agents">>)
listBoardsApiV1AgentBoardsGet(params) == Read("boards", None, <<"agent", "boards">>, params)
getBoardApiV1AgentBoardsBoardIdGet(boardId) ==
  Read("boards", boardId, AgentBoard(boardId), None)
agentLeadDeleteBoardAgent(boardId, agentId) ==
  Of(boardId, Write("DELETE", "agents", agentId, AgentBoard(boardId) \o <<"agents", agentId>>))
agentLeadNudgeAgent(boardId, agentId) ==
  Of(boardId, Write("POST", "messages", agentId, AgentBoard(boardId)
       \o <<"agents", agentId, "nudge">>))
getAgentSoulApiV1AgentBoardsBoardIdAgentsAgentIdSoulGet(boardId, agentId) ==
  Of(boardId, Read("souls", agentId, AgentBoard(boardId) \o <<"agents", agentId, "soul">>, None))
agentLeadUpdateAgentSoul(boardId, agentId) ==
  Of(boardId, Write("PUT", "souls", agentId, AgentBoard(boardId) \o <<"agents", agentId, "soul">>))
listApprovalsApiV1AgentBoardsBoardIdApprovalsGet(boardId, params) ==
  Of(boardId, Read("approvals", None, Append(AgentBoard(boardId), "approvals"), params))
createApprovalApiV1AgentBoardsBoardIdApprovalsPost(boardId) ==
  Of(boardId, Write("POST", "approvals", None, Append(AgentBoard(boardId), "approvals")))
agentLeadAskUserViaGatewayMain(boardId) ==
  Of(boardId, Write("POST", "messages", None, AgentBoard(boardId)
       \o <<"gateway", "main", "ask-user">>))
listBoardMemoryApiV1AgentBoardsBoardIdMemoryGet(boardId, params) ==
  Of(boardId, Read("memory", None, Append(AgentBoard(boardId), "memory"), params))
createBoardMemoryApiV1AgentBoardsBoardIdMemoryPost(boardId) ==
  Of(boardId, Write("POST", "memory", None, Append(AgentBoard(boardId), "memory")))
updateOnboardingApiV1AgentBoardsBoardIdOnboardingPost(boardId) ==
  Write("POST", "onboarding", boardId, Append(AgentBoard(boardId), "onboarding"))
listTagsApiV1AgentBoardsBoardIdTagsGet(boardId) ==
  Of(boardId, Read("tags", None, Append(AgentBoard(boardId), "tags"), None))
listTasksApiV1AgentBoardsBoardIdTasksGet(boardId, params) ==
  Of(boardId, Read("tasks", None, Append(AgentBoard(boardId), "tasks"), params))
agentLeadCreateTask(boardId) ==
  Of(boardId, Write("POST", "tasks", None, Append(AgentBoard(boardId), "tasks")))
deleteTaskApiV1AgentBoardsBoardIdTasksTaskIdDelete(boardId, taskId) ==
  Of(boardId, Write("DELETE", "tasks", taskId, AgentTask(boardId, taskId)))
updateTaskApiV1AgentBoardsBoardIdTasksTaskIdPatch(boardId, taskId) ==
  Of(boardId, Write("PATCH", "tasks", taskId, AgentTask(boardId, taskId)))
listTaskCommentsApiV1AgentBoardsBoardIdTasksTaskIdCommentsGet(boardId, taskId, params) ==
  Of(boardId, Read("comments", None, Append(AgentTask(boardId, taskId), "comments"), params))
createTaskCommentApiV1AgentBoardsBoardIdTasksTaskIdCommentsPost(boardId, taskId) ==
  Of(boardId, Write("POST", "comments", None, Append(AgentTask(boardId, taskId), "comments")))
getWebhookPayloadApiV1AgentBoardsBoardIdWebhooksWebhookIdPayloadsPayloadIdGet(boardId, webhookId, payloadId, params) ==
  Of(boardId, Read("payloads", payloadId, AgentBoard(boardId)
       \o <<"webhooks", webhookId, "payloads", payloadId>>, params))
agentMainMessageBoardLead(boardId) ==
  Of(boardId, Write("POST", "messages", None, <<"agent", "gateway", "boards", boardId, "lead", "message">>))
agentMainBroadcastLeadMessage ==
  Write("POST", "messages", None, <<"agent", "gateway", "leads", "broadcast">>)
agentHealthzApiV1AgentHealthzGet == Read("health", None, <<"agent", "healthz">>, None)
agentHeartbeatApiV1AgentHeartbeatPost == Write("POST", "agents", None, <<"agent", "heartbeat">>)

\* agents/agents.ts
heartbeatOrCreateAgentApiV1AgentsHeartbeatPost ==
  Write("POST", "agents", None, <<"agents", "heartbeat">>)
streamAgentsApiV1AgentsStreamGet(params) == Read("agents", None, <<"agents", "stream">>, params)
heartbeatAgentApiV1AgentsAgentIdHeartbeatPost(agentId) ==
  Write("POST", "agents", agentId, <<"agents", agentId, "heartbeat">>)

\* approvals/approvals.ts
createApprovalApiV1BoardsBoardIdApprovalsPost(boardId) ==
  Of(boardId, Write("POST", "approvals", None, Append(BoardPath(boardId), "approvals")))
streamApprovalsApiV1BoardsBoardIdApprovalsStreamGet(boardId, params) ==
  Of(boardId, Read("approvals", None, BoardPath(boardId) \o <<"approvals", "stream">>, params))

\* auth/auth.ts
bootstrapUserApiV1AuthBootstrapPost == Write("POST", "users", None, <<"auth", "bootstrap">>)

\* board-group-memory/board-group-memory.ts
listBoardGroupMemoryApiV1BoardGroupsGroupIdMemoryGet(groupId, params) ==
  Read("memory", None, <<"board-groups", groupId, "memory">>, params)
createBoardGroupMemoryApiV1BoardGroupsGroupIdMemoryPost(groupId) ==
  Write("POST", "memory", None, <<"board-groups", groupId, "memory">>)
streamBoardGroupMemoryApiV1BoardGroupsGroupIdMemoryStreamGet(groupId, params) ==
  Read("memory", None, <<"board-groups", groupId, "memory", "stream">>, params)
listBoardGroupMemoryForBoardApiV1BoardsBoardIdGroupMemoryGet(boardId, params) ==
  Of(boardId, Read("groupMemory", None, Append(BoardPath(boardId), "group-memory"), params))
createBoardGroupMemoryForBoardApiV1BoardsBoardIdGroupMemoryPost(boardId) ==
  Of(boardId, Write("POST", "groupMemory", None, Append(BoardPath(boardId), "group-memory")))
streamBoardGroupMemoryForBoardApiV1BoardsBoardIdGroupMemoryStreamGet(boardId, params) ==
  Of(boardId, Read("groupMemory", None, BoardPath(boardId) \o <<"group-memory", "stream">>, params))

\* board-groups/board-groups.ts
applyBoardGroupHeartbeatApiV1BoardGroupsGroupIdHeartbeatPost(groupId) ==
  Write("POST", "agents", None, <<"board-groups", groupId, "heartbeat">>)

\* board-memory/board-memory.ts
listBoardMemoryApiV1BoardsBoardIdMemoryGet(boardId, params) ==
  Of(boardId, Read("memory", None, Append(BoardPath(boardId), "memory"), params))
createBoardMemoryApiV1BoardsBoardIdMemoryPost(boardId) ==
  Of(boardId, Write("POST", "memory", None, Append(BoardPath(boardId), "memory")))
streamBoardMemoryApiV1BoardsBoardIdMemoryStreamGet(boardId, params) ==
  Of(boardId, Read("memory", None, BoardPath(boardId) \o <<"memory", "stream">>, params))

\* board-onboarding/board-onboarding.ts
getOnboardingApiV1BoardsBoardIdOnboardingGet(boardId) ==
  Read("onboarding", boardId, Append(BoardPath(boardId), "onboarding"), None)
agentOnboardingUpdateApiV1BoardsBoardIdOnboardingAgentPost(boardId) ==
  Write("POST", "onboarding", boardId, BoardPath(boardId) \o <<"onboarding", "agent">>)
answerOnboardingApiV1BoardsBoardIdOnboardingAnswerPost(boardId) ==
  Write("POST", "onboarding", boardId, BoardPath(boardId) \o <<"onboarding", "answer">>)
confirmOnboardingApiV1BoardsBoardIdOnboardingConfirmPost(boardId) ==
  Write("POST", "onboarding", boardId, BoardPath(boardId) \o <<"onboarding", "confirm">>)
startOnboardingApiV1BoardsBoardIdOnboardingStartPost(boardId) ==
  Write("POST", "onboarding", boardId, BoardPath(boardId) \o <<"onboarding", "start">>)

\* board-webhooks/board-webhooks.ts
ingestBoardWebhookApiV1BoardsBoardIdWebhooksWebhookIdPost(boardId, webhookId) ==
  Of(boardId, Write("POST", "webhooks", webhookId, BoardPath(boardId) \o <<"webhooks", webhookId>>))
getBoardWebhookPayloadApiV1BoardsBoardIdWebhooksWebhookIdPayloadsPayloadIdGet(boardId, webhookId, payloadId) ==
  Of(boardId, Read("payloads", payloadId, BoardPath(boardId)
       \o <<"webhooks", webhookId, "payloads", payloadId>>, None))

\* boards/boards.ts
getBoardGroupSnapshotApiV1BoardsBoardIdGroupSnapshotGet(boardId, params) ==
  Read("groups", None, Append(BoardPath(boardId), "group-snapshot"), params)
getBoardSnapshotApiV1BoardsBoardIdSnapshotGet(boardId) ==
  Read("boards", boardId, Append(BoardPath(boardId), "snapshot"), None)

\* health/health.ts
healthHealthGet == Read("health", None, <<"health">>, None)
readyzReadyzGet == Read("health", None, <<"readyz">>, None)

\* gateways/gateways.ts
gatewayCommandsApiV1GatewaysCommandsGet ==
  Read("gateways", None, <<"gateways", "commands">>, None)
listGatewaySessionsApiV1GatewaysSessionsGet(params) ==
  Read("sessions", None, <<"gateways", "sessions">>, params)
getGatewaySessionApiV1GatewaysSessionsSessionIdGet(sessionId, params) ==
  Read("sessions", sessionId, <<"gateways", "sessions", sessionId>>, params)
getSessionHistoryApiV1GatewaysSessionsSessionIdHistoryGet(sessionId, params) ==
  Read("sessions", sessionId, <<"gateways", "sessions", sessionId, "history">>, params)
sendGatewaySessionMessageApiV1GatewaysSessionsSessionIdMessagePost(sessionId) ==
  Write("POST", "messages", sessionId, <<"gateways", "sessions", sessionId, "message">>)
syncGatewayTemplatesApiV1GatewaysGatewayIdTemplatesSyncPost(gatewayId) ==
  Write("POST", "gateways", gatewayId, <<"gateways", gatewayId, "templates", "sync">>)

\* metrics/metrics.ts
dashboardExecutionRuntimeMetricsApiV1MetricsExecutionRuntimeGet(params) ==
  Read("runs", None, <<"metrics", "execution-runtime">>, params)
dashboardTelemetryOpsMetricsApiV1MetricsTelemetryOpsGet(params) ==
  Read("runs", None, <<"metrics", "telemetry-ops">>, params)

\* organizations/organizations.ts
deleteMyOrgApiV1OrganizationsMeDelete(org) == Write("DELETE", "organizations", org, Me)
removeOrgMemberApiV1OrganizationsMeMembersMemberIdDelete(memberId) ==
  Write("DELETE", "members", memberId, Me \o <<"members", memberId>>)

\* silo-blueprints/silo-blueprints.ts
listSiloBlueprintsApiV1SiloBlueprintsGet ==
  Read("blueprints", None, <<"silo-blueprints">>, None)
getSiloBlueprintApiV1SiloBlueprintsBlueprintSlugGet(blueprintSlug) ==
  Read("blueprints", blueprintSlug, <<"silo-blueprints", blueprintSlug>>, None)

\* silo-provision-plans/silo-provision-plans.ts
previewSiloProvisionPlanApiV1SiloProvisionPlansPreviewPost ==
  Write("POST", "plans", None, <<"silo-provision-plans", "preview">>)

\* silos/silos.ts
listSilosApiV1SilosGet == Read("silos", None, <<"silos">>, None)
createSiloApiV1SilosPost == Write("POST", "silos", None, <<"silos">>)
previewSiloApiV1SilosPreviewPost == Write("POST", "silos", None, <<"silos", "preview">>)
getSiloApiV1SilosSlugGet(slug) == Read("silos", slug, <<"silos", slug>>, None)
updateSiloApiV1SilosSlugPatch(slug) == Write("PATCH", "silos", slug, <<"silos", slug>>)
getSiloDetailApiV1SilosSlugDetailGet(slug) ==
  Read("silos", slug, <<"silos", slug, "detail">>, None)
applySiloRuntimeApiV1SilosSlugRuntimeApplyPost(slug) ==
  Write("POST", "silos", slug, <<"silos", slug, "runtime", "apply">>)
validateSiloRuntimeApiV1SilosSlugRuntimeValidatePost(slug) ==
  Write("POST", "silos", slug, <<"silos", slug, "runtime", "validate">>)

\* skills/skills.ts
createMarketplaceSkillApiV1SkillsMarketplacePost ==
  Write("POST", "skills", None, <<"skills", "marketplace">>)
deleteMarketplaceSkillApiV1SkillsMarketplaceSkillIdDelete(skillId) ==
  Write("DELETE", "skills", skillId, <<"skills", "marketplace", skillId>>)

\* souls-directory/souls-directory.ts
searchApiV1SoulsDirectorySearchGet(params) ==
  Read("souls", None, <<"souls-directory", "search">>, params)
getMarkdownApiV1SoulsDirectoryHandleSlugGet(handle, slug) ==
  Read("souls", slug, <<"souls-directory", handle, slug>>, None)
getMarkdownApiV1SoulsDirectoryHandleSlugMdGet(handle, slug) ==
  Read("souls", slug, <<"souls-directory", handle, slug, ".md">>, None)

\* task-execution/task-execution.ts
listTaskExecutionRunsApiV1BoardsBoardIdTasksTaskIdExecutionRunsGet(boardId, taskId) ==
  Of(boardId, Read("runs", None, Append(TaskPath(boardId, taskId), "execution-runs"), None))
createTaskExecutionRunApiV1BoardsBoardIdTasksTaskIdExecutionRunsPost(boardId, taskId) ==
  Of(boardId, Write("POST", "runs", None, Append(TaskPath(boardId, taskId), "execution-runs")))
createAndDispatchTaskExecutionRunApiV1BoardsBoardIdTasksTaskIdExecutionRunsDispatchPost(boardId, taskId) ==
  Of(boardId, Write("POST", "runs", None, TaskPath(boardId, taskId)
       \o <<"execution-runs", "dispatch">>))
getTaskExecutionRunApiV1BoardsBoardIdTasksTaskIdExecutionRunsRunIdGet(boardId, taskId, runId) ==
  Of(boardId, Read("runs", runId, RunPath(boardId, taskId, runId), None))
updateTaskExecutionRunApiV1BoardsBoardIdTasksTaskIdExecutionRunsRunIdPatch(boardId, taskId, runId) ==
  Of(boardId, Write("PATCH", "runs", runId, RunPath(boardId, taskId, runId)))
dispatchTaskExecutionRunApiV1BoardsBoardIdTasksTaskIdExecutionRunsRunIdDispatchPost(boardId, taskId, runId) ==
  Of(boardId, Write("POST", "runs", runId, Append(RunPath(boardId, taskId, runId), "dispatch")))
retryTaskExecutionRunApiV1BoardsBoardIdTasksTaskIdExecutionRunsRunIdRetryPost(boardId, taskId, runId) ==
  Of(boardId, Write("POST", "runs", runId, Append(RunPath(boardId, taskId, runId), "retry")))
retryAndDispatchTaskExecutionRunApiV1BoardsBoardIdTasksTaskIdExecutionRunsRunIdRetryDispatchPost(boardId, taskId, runId) ==
  Of(boardId, Write("POST", "runs", runId, Append(RunPath(boardId, taskId, runId), "retry-dispatch")))
receiveSymphonyExecutionCallbackApiV1TaskExecutionRunsRunIdCallbacksSymphonyPost(runId) ==
  Write("POST", "runs", runId, <<"task-execution-runs", runId, "callbacks", "symphony">>)

\* tasks/tasks.ts
listTasksApiV1BoardsBoardIdTasksGet(boardId, params) ==
  Of(boardId, Read("tasks", None, Append(BoardPath(boardId), "tasks"), params))
createTaskApiV1BoardsBoardIdTasksPost(boardId) ==
  Of(boardId, Write("POST", "tasks", None, Append(BoardPath(boardId), "tasks")))
streamTasksApiV1BoardsBoardIdTasksStreamGet(boardId, params) ==
  Of(boardId, Read("tasks", None, BoardPath(boardId) \o <<"tasks", "stream">>, params))
deleteTaskApiV1BoardsBoardIdTasksTaskIdDelete(boardId, taskId) ==
  Of(boardId, Write("DELETE", "tasks", taskId, TaskPath(boardId, taskId)))
updateTaskApiV1BoardsBoardIdTasksTaskIdPatch(boardId, taskId) ==
  Of(boardId, Write("PATCH", "tasks", taskId, TaskPath(boardId, taskId)))
listTaskCommentsApiV1BoardsBoardIdTasksTaskIdCommentsGet(boardId, taskId, params) ==
  Of(boardId, Read("comments", None, Append(TaskPath(boardId, taskId), "comments"), params))
createTaskCommentApiV1BoardsBoardIdTasksTaskIdCommentsPost(boardId, taskId) ==
  Of(boardId, Write("POST", "comments", None, Append(TaskPath(boardId, taskId), "comments")))

(* ------------------------- the client as a whole ----------------------- *)
\* Every operation, its identifiers all i and its parameters p.
ClientReads(i, p) ==
  {listAgentsApiV1AgentsGet(p), getAgentApiV1AgentsAgentIdGet(i), listBoardsApiV1BoardsGet(p),
   getBoardApiV1BoardsBoardIdGet(i), listBoardGroupsApiV1BoardGroupsGet(p),
   getBoardGroupApiV1BoardGroupsGroupIdGet(i),
   getBoardGroupSnapshotApiV1BoardGroupsGroupIdSnapshotGet(i, p), listGatewaysApiV1GatewaysGet(p),
   getGatewayApiV1GatewaysGatewayIdGet(i), gatewaysStatusApiV1GatewaysStatusGet(p),
   listTagsApiV1TagsGet(p), getTagApiV1TagsTagIdGet(i),
   listOrgCustomFieldsApiV1OrganizationsMeCustomFieldsGet, listSkillPacksApiV1SkillsPacksGet,
   getSkillPackApiV1SkillsPacksPackIdGet(i), listMarketplaceSkillsApiV1SkillsMarketplaceGet(p),
   getMyOrgApiV1OrganizationsMeGet(i), getMyMembershipApiV1OrganizationsMeMemberGet,
   listOrgMembersApiV1OrganizationsMeMembersGet(p),
   getOrgMemberApiV1OrganizationsMeMembersMemberIdGet(i),
   listOrgInvitesApiV1OrganizationsMeInvitesGet(p),
   listMyOrganizationsApiV1OrganizationsMeListGet, getMeApiV1UsersMeGet(i),
   listBoardWebhookPayloadsApiV1BoardsBoardIdWebhooksWebhookIdPayloadsGet(i, i, p),
   listBoardWebhooksApiV1BoardsBoardIdWebhooksGet(i, p),
   getBoardWebhookApiV1BoardsBoardIdWebhooksWebhookIdGet(i, i),
   listApprovalsApiV1BoardsBoardIdApprovalsGet(i, p), listActivityApiV1ActivityGet(p),
   dashboardMetricsApiV1MetricsDashboardGet(p), healthzHealthzGet,
   streamActivityApiV1ActivityStreamGet(p), listTaskCommentFeedApiV1ActivityTaskCommentsGet(p),
   streamTaskCommentFeedApiV1ActivityTaskCommentsStreamGet(p), listAgentsApiV1AgentAgentsGet(p),
   listBoardsApiV1AgentBoardsGet(p), getBoardApiV1AgentBoardsBoardIdGet(i),
   getAgentSoulApiV1AgentBoardsBoardIdAgentsAgentIdSoulGet(i, i),
   listApprovalsApiV1AgentBoardsBoardIdApprovalsGet(i, p),
   listBoardMemoryApiV1AgentBoardsBoardIdMemoryGet(i, p),
   listTagsApiV1AgentBoardsBoardIdTagsGet(i), listTasksApiV1AgentBoardsBoardIdTasksGet(i, p),
   listTaskCommentsApiV1AgentBoardsBoardIdTasksTaskIdCommentsGet(i, i, p),
   getWebhookPayloadApiV1AgentBoardsBoardIdWebhooksWebhookIdPayloadsPayloadIdGet(i, i, i, p),
   agentHealthzApiV1AgentHealthzGet, streamAgentsApiV1AgentsStreamGet(p),
   streamApprovalsApiV1BoardsBoardIdApprovalsStreamGet(i, p),
   listBoardGroupMemoryApiV1BoardGroupsGroupIdMemoryGet(i, p),
   streamBoardGroupMemoryApiV1BoardGroupsGroupIdMemoryStreamGet(i, p),
   listBoardGroupMemoryForBoardApiV1BoardsBoardIdGroupMemoryGet(i, p),
   streamBoardGroupMemoryForBoardApiV1BoardsBoardIdGroupMemoryStreamGet(i, p),
   listBoardMemoryApiV1BoardsBoardIdMemoryGet(i, p),
   streamBoardMemoryApiV1BoardsBoardIdMemoryStreamGet(i, p),
   getOnboardingApiV1BoardsBoardIdOnboardingGet(i),
   getBoardWebhookPayloadApiV1BoardsBoardIdWebhooksWebhookIdPayloadsPayloadIdGet(i, i, i),
   getBoardGroupSnapshotApiV1BoardsBoardIdGroupSnapshotGet(i, p),
   getBoardSnapshotApiV1BoardsBoardIdSnapshotGet(i), healthHealthGet, readyzReadyzGet,
   gatewayCommandsApiV1GatewaysCommandsGet, listGatewaySessionsApiV1GatewaysSessionsGet(p),
   getGatewaySessionApiV1GatewaysSessionsSessionIdGet(i, p),
   getSessionHistoryApiV1GatewaysSessionsSessionIdHistoryGet(i, p),
   dashboardExecutionRuntimeMetricsApiV1MetricsExecutionRuntimeGet(p),
   dashboardTelemetryOpsMetricsApiV1MetricsTelemetryOpsGet(p),
   listSiloBlueprintsApiV1SiloBlueprintsGet,
   getSiloBlueprintApiV1SiloBlueprintsBlueprintSlugGet(i), listSilosApiV1SilosGet,
   getSiloApiV1SilosSlugGet(i), getSiloDetailApiV1SilosSlugDetailGet(i),
   searchApiV1SoulsDirectorySearchGet(p), getMarkdownApiV1SoulsDirectoryHandleSlugGet(i, i),
   getMarkdownApiV1SoulsDirectoryHandleSlugMdGet(i, i),
   listTaskExecutionRunsApiV1BoardsBoardIdTasksTaskIdExecutionRunsGet(i, i),
   getTaskExecutionRunApiV1BoardsBoardIdTasksTaskIdExecutionRunsRunIdGet(i, i, i),
   listTasksApiV1BoardsBoardIdTasksGet(i, p), streamTasksApiV1BoardsBoardIdTasksStreamGet(i, p),
   listTaskCommentsApiV1BoardsBoardIdTasksTaskIdCommentsGet(i, i, p)}
ClientWrites(i) ==
  {createAgentApiV1AgentsPost, updateAgentApiV1AgentsAgentIdPatch(i),
   deleteAgentApiV1AgentsAgentIdDelete(i), createBoardApiV1BoardsPost,
   updateBoardApiV1BoardsBoardIdPatch(i), deleteBoardApiV1BoardsBoardIdDelete(i),
   createBoardGroupApiV1BoardGroupsPost, updateBoardGroupApiV1BoardGroupsGroupIdPatch(i),
   deleteBoardGroupApiV1BoardGroupsGroupIdDelete(i), createGatewayApiV1GatewaysPost,
   updateGatewayApiV1GatewaysGatewayIdPatch(i), deleteGatewayApiV1GatewaysGatewayIdDelete(i),
   createTagApiV1TagsPost, updateTagApiV1TagsTagIdPatch(i), deleteTagApiV1TagsTagIdDelete(i),
   createOrgCustomFieldApiV1OrganizationsMeCustomFieldsPost,
   updateOrgCustomFieldApiV1OrganizationsMeCustomFieldsTaskCustomFieldDefinitionIdPatch(i),
   deleteOrgCustomFieldApiV1OrganizationsMeCustomFieldsTaskCustomFieldDefinitionIdDelete(i),
   createSkillPackApiV1SkillsPacksPost, updateSkillPackApiV1SkillsPacksPackIdPatch(i),
   deleteSkillPackApiV1SkillsPacksPackIdDelete(i), syncSkillPackApiV1SkillsPacksPackIdSyncPost(i),
   installMarketplaceSkillApiV1SkillsMarketplaceSkillIdInstallPost(i),
   uninstallMarketplaceSkillApiV1SkillsMarketplaceSkillIdUninstallPost(i),
   updateOrgMemberApiV1OrganizationsMeMembersMemberIdPatch(i),
   updateMemberAccessApiV1OrganizationsMeMembersMemberIdAccessPut(i),
   createOrgInviteApiV1OrganizationsMeInvitesPost,
   revokeOrgInviteApiV1OrganizationsMeInvitesInviteIdDelete(i),
   createOrganizationApiV1OrganizationsPost, setActiveOrgApiV1OrganizationsMeActivePatch(i),
   acceptOrgInviteApiV1OrganizationsInvitesAcceptPost, updateMeApiV1UsersMePatch(i),
   deleteMeApiV1UsersMeDelete(i), createBoardWebhookApiV1BoardsBoardIdWebhooksPost(i),
   updateBoardWebhookApiV1BoardsBoardIdWebhooksWebhookIdPatch(i, i),
   deleteBoardWebhookApiV1BoardsBoardIdWebhooksWebhookIdDelete(i, i),
   updateApprovalApiV1BoardsBoardIdApprovalsApprovalIdPatch(i, i), agentLeadCreateAgent,
   agentLeadDeleteBoardAgent(i, i), agentLeadNudgeAgent(i, i), agentLeadUpdateAgentSoul(i, i),
   createApprovalApiV1AgentBoardsBoardIdApprovalsPost(i), agentLeadAskUserViaGatewayMain(i),
   createBoardMemoryApiV1AgentBoardsBoardIdMemoryPost(i),
   updateOnboardingApiV1AgentBoardsBoardIdOnboardingPost(i), agentLeadCreateTask(i),
   deleteTaskApiV1AgentBoardsBoardIdTasksTaskIdDelete(i, i),
   updateTaskApiV1AgentBoardsBoardIdTasksTaskIdPatch(i, i),
   createTaskCommentApiV1AgentBoardsBoardIdTasksTaskIdCommentsPost(i, i),
   agentMainMessageBoardLead(i), agentMainBroadcastLeadMessage,
   agentHeartbeatApiV1AgentHeartbeatPost, heartbeatOrCreateAgentApiV1AgentsHeartbeatPost,
   heartbeatAgentApiV1AgentsAgentIdHeartbeatPost(i),
   createApprovalApiV1BoardsBoardIdApprovalsPost(i), bootstrapUserApiV1AuthBootstrapPost,
   createBoardGroupMemoryApiV1BoardGroupsGroupIdMemoryPost(i),
   createBoardGroupMemoryForBoardApiV1BoardsBoardIdGroupMemoryPost(i),
   applyBoardGroupHeartbeatApiV1BoardGroupsGroupIdHeartbeatPost(i),
   createBoardMemoryApiV1BoardsBoardIdMemoryPost(i),
   agentOnboardingUpdateApiV1BoardsBoardIdOnboardingAgentPost(i),
   answerOnboardingApiV1BoardsBoardIdOnboardingAnswerPost(i),
   confirmOnboardingApiV1BoardsBoardIdOnboardingConfirmPost(i),
   startOnboardingApiV1BoardsBoardIdOnboardingStartPost(i),
   ingestBoardWebhookApiV1BoardsBoardIdWebhooksWebhookIdPost(i, i),
   sendGatewaySessionMessageApiV1GatewaysSessionsSessionIdMessagePost(i),
   syncGatewayTemplatesApiV1GatewaysGatewayIdTemplatesSyncPost(i),
   deleteMyOrgApiV1OrganizationsMeDelete(i),
   removeOrgMemberApiV1OrganizationsMeMembersMemberIdDelete(i),
   previewSiloProvisionPlanApiV1SiloProvisionPlansPreviewPost, createSiloApiV1SilosPost,
   previewSiloApiV1SilosPreviewPost, updateSiloApiV1SilosSlugPatch(i),
   applySiloRuntimeApiV1SilosSlugRuntimeApplyPost(i),
   validateSiloRuntimeApiV1SilosSlugRuntimeValidatePost(i),
   createMarketplaceSkillApiV1SkillsMarketplacePost,
   deleteMarketplaceSkillApiV1SkillsMarketplaceSkillIdDelete(i),
   createTaskExecutionRunApiV1BoardsBoardIdTasksTaskIdExecutionRunsPost(i, i),
   createAndDispatchTaskExecutionRunApiV1BoardsBoardIdTasksTaskIdExecutionRunsDispatchPost(i, i),
   updateTaskExecutionRunApiV1BoardsBoardIdTasksTaskIdExecutionRunsRunIdPatch(i, i, i),
   dispatchTaskExecutionRunApiV1BoardsBoardIdTasksTaskIdExecutionRunsRunIdDispatchPost(i, i, i),
   retryTaskExecutionRunApiV1BoardsBoardIdTasksTaskIdExecutionRunsRunIdRetryPost(i, i, i),
   retryAndDispatchTaskExecutionRunApiV1BoardsBoardIdTasksTaskIdExecutionRunsRunIdRetryDispatchPost(i, i, i),
   receiveSymphonyExecutionCallbackApiV1TaskExecutionRunsRunIdCallbacksSymphonyPost(i),
   createTaskApiV1BoardsBoardIdTasksPost(i), deleteTaskApiV1BoardsBoardIdTasksTaskIdDelete(i, i),
   updateTaskApiV1BoardsBoardIdTasksTaskIdPatch(i, i),
   createTaskCommentApiV1BoardsBoardIdTasksTaskIdCommentsPost(i, i)}

\* Each of the 77 reads has a path, and so a cache key, of its own, and each of the
\* 88 writes a request of its own: no operation stands for another.
ASSUME OperationsApart ==
  /\ Cardinality({r.key : r \in ClientReads("i", None)}) = 77
  /\ Cardinality({<<w.method, w.path>> : w \in ClientWrites("i")}) = 88

\* A write never has the path of a read of another collection: what a page reads and
\* writes under one address is one thing.
ASSUME AddressesAgree ==
  \A r \in ClientReads("i", None), w \in ClientWrites("i") : r.path = w.path => r.of = w.of
=============================================================================

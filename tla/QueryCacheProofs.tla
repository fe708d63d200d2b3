--------------------------- MODULE QueryCacheProofs ---------------------------
(***************************************************************************)
(* TLAPS proofs about QueryCache: for every set of items, every collection *)
(* of the site and any number of visits, writes and faults, a list at rest *)
(* on screen shows neither a removal ahead of its answer nor a rollback,   *)
(* and what is always refetched on mount shows the tab's own answered      *)
(* writes, with the exceptions that ReadYourWrites names.                  *)
(*                                                                         *)
(* The first half is about the pages alone: each mutation of each page     *)
(* refetches, or edits ahead, exactly what its page watches (SiteOK).  The *)
(* second half is about the cache: the inductive invariant IInv uses of    *)
(* the pages only ActsOfPage, PanelWatches and WatchedKeys.  The global    *)
(* approvals change the key they read without a mount, so there IInv needs *)
(* KeptInv too: what an entry owes while nobody watches it.                *)
(***************************************************************************)
EXTENDS QueryCache, FiniteSetTheorems, TLAPS

-----------------------------------------------------------------------------
(* The pages. PageOK states what every page of the site owes the cache: its mutations   *)
(* name routes and keys of the site, and refetch, or edit ahead, what the page watches. *)

(* Where the tab can be, or be sent. *)
Routes == {p.at : p \in Site} \cup {Elsewhere, <<"sign-in">>}

(* A mutation is about a row of the collection, leads to a route, and invalidates what *)
(* it edits or sets; one that edits ahead of its answer always settles, and is about   *)
(* no approval.                                                                        *)
WellFormed(a) ==
  /\ a.item \in Ids
  /\ a.push \in Routes \cup {NoPush}
  /\ a.drops \cup a.sets \subseteq a.keys
  /\ \A k \in a.drops \cup a.sets : IsPrefix(k, k)
  /\ a.drops # {} => /\ "settled" \in a.how /\ "percall" \notin a.how /\ "awaits" \notin a.how
                     /\ a.w.of[1] # "approvals"

(* A successful answer leaves the page, or refetches whatever the page always *)
(* refetches.                                                                 *)
Refetches(a, at, watches) ==
  \/ "reload" \in a.how
  \/ "awaits" \in a.how /\ a.push # NoPush
  \/ a.push \notin {NoPush, at}
  \/ \A o \in watches : o.q.of = a.w.of /\ "always" \in o.how => Under(o.q.key, a.keys)

(* An optimistic delete edits every list of its collection on the page, and no other *)
(* key.                                                                              *)
Edits(a, watches) ==
  /\ \A o \in watches : o.q.of = a.w.of => o.q.key \in a.drops
  /\ \A k \in a.drops : \E o \in watches : o.q.of = a.w.of /\ o.q.key = k

(* What a mutation owes a page at a route that watches watches. *)
Fits(a, at, watches) ==
  WellFormed(a) /\ Refetches(a, at, watches) /\ (a.drops # {} => Edits(a, watches))
PageWatches(p) == p.queries \cup DashboardShell(p.at)

(* A page with a dialog has no optimistic delete, and a dialog always reads only what *)
(* its page does not watch.                                                           *)
PageOK(p) ==
  /\ \A a \in p.acts : Fits(a, p.at, PageWatches(p))
  /\ p.panel # {} => \A a \in p.acts : a.drops = {}
  /\ \A x \in p.panel :
       x[1] \in Ids /\ ("always" \in x[2].how => \A o \in PageWatches(p) : o.q.of # x[2].q.of)

(* A page of the site is one without a parameter, or one of an item. *)
LEMMA SitePages == \A p : p \in Site <=> p \in ListPages \/ \E i \in Ids : p \in ItemPages(i)
  BY DEF Site

(* A page is made of its parts. *)
LEMMA PageFields ==
  \A at, queries, acts :
    LET p == Page(at, queries, acts)
    IN  p.at = at /\ p.queries = queries /\ p.acts = acts /\ p.panel = {}
  BY DEF Page

(* A key is under itself, and under its first component. *)
LEMMA PrefixOfKey ==
  \A p, q, r : /\ IsPrefix(<<p>>, <<p>>) /\ IsPrefix(<<p, q>>, <<p, q>>)
               /\ IsPrefix(<<p, q, r>>, <<p, q, r>>) /\ IsPrefix(<<p>>, <<p, q>>)
  BY DEF IsPrefix

(* The keys pages write by hand. *)
LEMMA OwnKeys ==
  \A of, id, p, q, r :
    /\ Custom(of, id, <<p>>).key = <<<<"own", p>>>>
    /\ Custom(of, id, <<p, q>>).key = <<<<"own", p>>, <<"own", q>>>>
    /\ Custom(of, id, <<p, q, r>>).key = <<<<"own", p>>, <<"own", q>>, <<"own", r>>>>
  BY DEF Custom

(* The collections the shell reads on every page. *)
LEMMA ShellOf ==
  \A at : \A o \in DashboardShell(at) :
    o.q.of \in {<<"organizations">>, <<"membership">>, <<"health">>, <<"users">>}
  BY DEF DashboardShell, OrgSwitcher, useOrganizationMembership, DashboardSidebar, meQuery, Watch,
         listMyOrganizationsApiV1OrganizationsMeListGet,
         getMyMembershipApiV1OrganizationsMeMemberGet, healthzHealthzGet, getMeApiV1UsersMeGet,
         List, Read, Item

(* A mutation without invalidation. *)
LEMMA ActFields ==
  \A w, i, how : LET a == Act(w, i, how)
    IN a.w = w /\ a.item = i /\ a.how = how /\ a.drops = {} /\ a.sets = {} /\ a.keys = {}
       /\ a.push = NoPush
  BY DEF Act

(* A form that leaves the page on success. *)
LEMMA SubmitFits ==
  ASSUME NEW w, NEW i \in Ids, NEW to \in Routes, NEW at, NEW watches,
         to \notin {NoPush, at} \/ \A o \in watches : o.q.of # w.of
  PROVE  Fits(Submit(w, i, to), at, watches) /\ Submit(w, i, to).drops = {}
  BY DEF Fits, WellFormed, Refetches, Submit, Act, NoPush

(* createOptimisticListDeleteMutation on a page whose lists of the collection share a *)
(* key.                                                                               *)
LEMMA DeleteFits ==
  ASSUME NEW w, w.id \in Ids, w.of[1] # "approvals", NEW key, NEW keys, key \in keys,
         IsPrefix(key, key), NEW at, NEW watches,
         \A o \in watches : o.q.of = w.of => o.q.key = key,
         \E o \in watches : o.q.of = w.of /\ o.q.key = key
  PROVE  Fits(createOptimisticListDeleteMutation(w, key, keys), at, watches)
  BY DEF Fits, WellFormed, Refetches, Edits, createOptimisticListDeleteMutation, Act, NoPush,
         Under

(* A mutation that invalidates what the page always refetches. *)
LEMMA KeysFit ==
  ASSUME NEW a, a.item \in Ids, a.push \in Routes \cup {NoPush}, a.drops = {},
         a.sets \subseteq a.keys, \A k \in a.sets : IsPrefix(k, k), NEW at, NEW watches,
         \/ "awaits" \in a.how /\ a.push # NoPush
         \/ \A o \in watches : o.q.of = a.w.of /\ "always" \in o.how => Under(o.q.key, a.keys)
  PROVE  Fits(a, at, watches)
  BY DEF Fits, WellFormed, Refetches

(* A mutation from the dialog of a row. *)
LEMMA RowFields ==
  \A w, keys : LET a == Row(w, keys)
    IN /\ a.w = w /\ a.item = w.id /\ a.push = NoPush /\ a.drops = {} /\ a.sets = {}
       /\ a.keys = keys /\ a.how = {"row"}
  BY DEF Row, Act

(* The collections read by the shell around a page. *)
Shell == {<<"organizations">>, <<"membership">>, <<"health">>, <<"users">>}

(* A page that only reads. *)
LEMMA ReadOnlyPage ==
  ASSUME NEW at, NEW queries
  PROVE  PageOK(Page(at, queries, {}))
  BY PageFields DEF PageOK

(* A page whose mutations all leave it. *)
LEMMA SubmitPage ==
  ASSUME NEW at, NEW queries, NEW acts,
         \A a \in acts : \E w : \E i \in Ids : \E to \in Routes \ {NoPush, at} :
           a = Submit(w, i, to)
  PROVE  PageOK(Page(at, queries, acts))
  <1>1. \A a \in acts : \A watches : Fits(a, at, watches)
    <2> SUFFICES ASSUME NEW w, NEW i \in Ids, NEW to \in Routes, to \notin {NoPush, at},
                          NEW watches
                 PROVE  Fits(Submit(w, i, to), at, watches)
      OBVIOUS
    <2> QED BY SubmitFits
  <1> QED BY <1>1, PageFields DEF PageOK

(* A page whose forms are about a collection it does not read. *)
LEMMA CreatePage ==
  ASSUME NEW p, p.panel = {}, NEW w, w.of \notin Shell, \A o \in p.queries : o.q.of # w.of,
         \A a \in p.acts : \E i \in Ids : \E to \in Routes : a = Submit(w, i, to)
  PROVE  PageOK(p)
  <1>1. \A o \in PageWatches(p) : o.q.of # w.of
    BY ShellOf DEF Shell, PageWatches
  <1>2. \A a \in p.acts : Fits(a, p.at, PageWatches(p))
    <2> SUFFICES ASSUME NEW i \in Ids, NEW to \in Routes
                 PROVE  Fits(Submit(w, i, to), p.at, PageWatches(p))
      OBVIOUS
    <2> QED BY <1>1, SubmitFits
  <1> QED BY <1>2 DEF PageOK

(* A page of optimistic deletes of one collection, read under one key. *)
Deletes(p, of, key, keys) ==
  /\ p.panel = {} /\ of \notin Shell /\ of[1] # "approvals"
  /\ key \in keys /\ IsPrefix(key, key)
  /\ \A o \in p.queries : o.q.of = of => o.q.key = key
  /\ \E o \in p.queries : o.q.of = of /\ o.q.key = key
  /\ \A a \in p.acts : \E w : /\ w.id \in Ids /\ w.of = of
                              /\ a = createOptimisticListDeleteMutation(w, key, keys)

(* Such a page is OK. *)
LEMMA DeletePage ==
  ASSUME NEW p, NEW of, NEW key, NEW keys, Deletes(p, of, key, keys)
  PROVE  PageOK(p)
  <1>1. \A o \in PageWatches(p) : o.q.of = of => o.q.key = key
    BY ShellOf DEF Shell, PageWatches, Deletes
  <1>2. \E o \in PageWatches(p) : o.q.of = of /\ o.q.key = key
    BY DEF PageWatches, Deletes
  <1>3. \A a \in p.acts : Fits(a, p.at, PageWatches(p))
    <2> SUFFICES ASSUME NEW w, w.id \in Ids, w.of = of
                 PROVE  Fits(createOptimisticListDeleteMutation(w, key, keys), p.at,
                          PageWatches(p))
      BY DEF Deletes
    <2> QED BY <1>1, <1>2, DeleteFits DEF Deletes
  <1> QED BY <1>3 DEF PageOK, Deletes

(* A mutation that stays on the page and invalidates keys. *)
Keyed(a, of, keys) ==
  /\ a.item \in Ids /\ a.push = NoPush /\ a.drops = {} /\ a.w.of = of /\ a.keys = keys
  /\ a.sets \subseteq keys /\ \A k \in a.sets : IsPrefix(k, k)

(* It fits a page that always refetches the collection only under keys. *)
LEMMA KeyedFits ==
  ASSUME NEW a, NEW of, NEW keys, Keyed(a, of, keys), NEW at, NEW queries, of \notin Shell,
         \A o \in queries : o.q.of = of /\ "always" \in o.how => Under(o.q.key, keys)
  PROVE  Fits(a, at, queries \cup DashboardShell(at)) /\ a.drops = {}
  <1>1. \A o \in queries \cup DashboardShell(at) :
          o.q.of = a.w.of /\ "always" \in o.how => Under(o.q.key, a.keys)
    BY ShellOf DEF Shell, Keyed
  <1> QED BY <1>1, KeysFit DEF Keyed

(* A page of such mutations. *)
Refetched(p, of, keys) ==
  /\ p.panel = {} /\ of \notin Shell
  /\ \A o \in p.queries : o.q.of = of /\ "always" \in o.how => Under(o.q.key, keys)
  /\ \A a \in p.acts : Keyed(a, of, keys)

(* Such a page is OK. *)
LEMMA KeysPage ==
  ASSUME NEW p, NEW of, NEW keys, Refetched(p, of, keys)
  PROVE  PageOK(p)
  <1>1. \A a \in p.acts : Fits(a, p.at, PageWatches(p))
    BY KeyedFits DEF PageWatches, Refetched
  <1> QED BY <1>1 DEF PageOK, Refetched

(* The mutations of a row are such. *)
LEMMA RowKeyed ==
  ASSUME NEW w, w.id \in Ids, NEW keys
  PROVE  /\ Keyed(Row(w, keys), w.of, keys)
         /\ \A how : Keyed([Row(w, keys) EXCEPT !.how = how], w.of, keys)
  BY DEF Keyed, Row, Act

(* The decision of an approval is such. *)
LEMMA DecisionKeyed ==
  ASSUME NEW b, NEW i \in Ids, NEW key, IsPrefix(key, key)
  PROVE  Keyed(Decision(b, i, key), <<"approvals", b>>, {key})
  BY DEF Keyed, Decision, Act, updateApprovalApiV1BoardsBoardIdApprovalsApprovalIdPatch, Of, Write

(* The pages of a custom field: the save awaits the refetch of the list and then goes *)
(* to it.                                                                             *)
LEMMA SavePage ==
  ASSUME NEW p, p.panel = {}, <<"custom-fields">> \in Routes,
         \A a \in p.acts : \E w : \E i \in Ids : a = SaveField(w, i)
  PROVE  PageOK(p)
  <1>1. ASSUME NEW w, NEW i \in Ids, NEW at, NEW watches PROVE Fits(SaveField(w, i), at, watches)
    BY DEF SaveField, Act, NoPush, Fits, WellFormed, Refetches
  <1> QED BY <1>1 DEF PageOK

(* Where forms lead is on the site. *)
LEMMA PushRoutes ==
  /\ {<<"agents">>, <<"tags">>, <<"custom-fields">>, <<"skills", "packs">>, <<"sign-in">>,
      <<"dashboard">>, <<"organization">>} \subseteq Routes
  /\ \A i \in Ids : {<<"agents", i>>, <<"boards", i, "edit">>, <<"boards", i>>,
                     <<"board-groups", i>>, <<"gateways", i>>, <<"silos", i>>} \subseteq Routes
  <1>1. \A p \in ListPages : p.at \in Routes
    BY SitePages DEF Routes
  <1>2. \A i \in Ids : \A p \in ItemPages(i) : p.at \in Routes
    BY SitePages DEF Routes
  <1>3. <<"sign-in">> \in Routes
    BY DEF Routes
  <1>4. /\ AgentsPage \in ListPages /\ TagsPage \in ListPages /\ CustomFieldsPage \in ListPages
        /\ SkillsPacksPage \in ListPages /\ DashboardPage \in ListPages
        /\ OrganizationPage \in ListPages
    BY DEF ListPages
  <1>5. \A i \in Ids :
          {AgentDetailPage(i), EditBoardPage(i), BoardDetailPage(i), BoardGroupDetailPage(i),
           GatewayDetailPage(i), SiloDetailPage(i)} \subseteq ItemPages(i)
    BY DEF ItemPages
  <1>6. /\ AgentsPage.at = <<"agents">> /\ TagsPage.at = <<"tags">>
        /\ CustomFieldsPage.at = <<"custom-fields">> /\ SkillsPacksPage.at = <<"skills", "packs">>
        /\ DashboardPage.at = <<"dashboard">> /\ OrganizationPage.at = <<"organization">>
    BY PageFields
    DEF AgentsPage, TagsPage, CustomFieldsPage, SkillsPacksPage, DashboardPage, OrganizationPage
  <1>7. \A i : /\ AgentDetailPage(i).at = <<"agents", i>>
               /\ EditBoardPage(i).at = <<"boards", i, "edit">>
               /\ BoardDetailPage(i).at = <<"boards", i>>
               /\ BoardGroupDetailPage(i).at = <<"board-groups", i>>
               /\ GatewayDetailPage(i).at = <<"gateways", i>>
               /\ SiloDetailPage(i).at = <<"silos", i>>
    BY PageFields
    DEF AgentDetailPage, EditBoardPage, BoardDetailPage, BoardGroupDetailPage, GatewayDetailPage,
        SiloDetailPage
  <1> QED BY <1>1, <1>2, <1>3, <1>4, <1>5, <1>6, <1>7

-----------------------------------------------------------------------------
(* Every page of ConsolePages, one by one. *)

(* Pages that only read. *)
LEMMA BoardGroupDetailPageOK ==
  ASSUME NEW i \in Ids PROVE PageOK(BoardGroupDetailPage(i))
  BY ReadOnlyPage DEF BoardGroupDetailPage

LEMMA SilosPageOK == PageOK(SilosPage)
  BY ReadOnlyPage DEF SilosPage

LEMMA WebhookPayloadsPageOK ==
  ASSUME NEW i \in Ids PROVE PageOK(WebhookPayloadsPage(MyId, i))
  BY ReadOnlyPage DEF WebhookPayloadsPage

(* Pages whose forms lead elsewhere. *)
LEMMA AgentDetailPageOK ==
  ASSUME NEW i \in Ids PROVE PageOK(AgentDetailPage(i))
  BY SubmitPage, PushRoutes, IdsAssumption DEF AgentDetailPage, NoPush

LEMMA EditAgentPageOK ==
  ASSUME NEW i \in Ids PROVE PageOK(EditAgentPage(i))
  BY SubmitPage, PushRoutes, IdsAssumption DEF EditAgentPage, NoPush

LEMMA NewBoardPageOK == PageOK(NewBoardPage)
  BY SubmitPage, PushRoutes, IdsAssumption DEF NewBoardPage, NoPush

LEMMA EditGatewayPageOK ==
  ASSUME NEW i \in Ids PROVE PageOK(EditGatewayPage(i))
  BY SubmitPage, PushRoutes, IdsAssumption DEF EditGatewayPage, NoPush

LEMMA NewTagPageOK == PageOK(NewTagPage)
  BY SubmitPage, PushRoutes, IdsAssumption DEF NewTagPage, NoPush

LEMMA EditTagPageOK ==
  ASSUME NEW i \in Ids PROVE PageOK(EditTagPage(i))
  BY SubmitPage, PushRoutes, IdsAssumption DEF EditTagPage, NoPush

LEMMA NewSkillPackPageOK == PageOK(NewSkillPackPage)
  BY SubmitPage, PushRoutes, IdsAssumption DEF NewSkillPackPage, NoPush

LEMMA EditSkillPackPageOK ==
  ASSUME NEW i \in Ids PROVE PageOK(EditSkillPackPage(i))
  BY SubmitPage, PushRoutes, IdsAssumption DEF EditSkillPackPage, NoPush

LEMMA OnboardingPageOK == PageOK(OnboardingPage)
  BY SubmitPage, PushRoutes, IdsAssumption DEF OnboardingPage, NoPush

LEMMA InvitePageOK == PageOK(InvitePage)
  BY SubmitPage, PushRoutes, IdsAssumption DEF InvitePage, NoPush

LEMMA NewSiloPageOK ==
  ASSUME NEW i \in Ids PROVE PageOK(NewSiloPage(i))
  BY SubmitPage, PushRoutes, IdsAssumption DEF NewSiloPage, NoPush

(* Forms about a collection the page does not read. *)
LEMMA NewAgentPageOK == PageOK(NewAgentPage)
  <1>1. createAgentApiV1AgentsPost.of = <<"agents">>
    BY DEF createAgentApiV1AgentsPost, Write
  <1>2. \A o \in NewAgentPage.queries : o.q.of # <<"agents">>
    BY DEF NewAgentPage, listBoardsApiV1BoardsGet, None, Admin, List, Read, KeyOf, Watch, Page
  <1>3. \A a \in NewAgentPage.acts : \E i \in Ids : \E to \in Routes :
          a = Submit(createAgentApiV1AgentsPost, i, to)
    BY PushRoutes DEF NewAgentPage, Page
  <1>4. NewAgentPage.panel = {}
    BY DEF NewAgentPage, Page
  <1> QED BY <1>1, <1>2, <1>3, <1>4, CreatePage DEF Shell

LEMMA NewBoardGroupPageOK == PageOK(NewBoardGroupPage)
  <1>1. createBoardGroupApiV1BoardGroupsPost.of = <<"groups">>
    BY DEF createBoardGroupApiV1BoardGroupsPost, Write
  <1>2. \A o \in NewBoardGroupPage.queries : o.q.of # <<"groups">>
    BY DEF NewBoardGroupPage, listBoardsApiV1BoardsGet, Once, List, Read, None, KeyOf, Watch, Page
  <1>3. \A a \in NewBoardGroupPage.acts : \E i \in Ids : \E to \in Routes :
          a = Submit(createBoardGroupApiV1BoardGroupsPost, i, to)
    BY PushRoutes DEF NewBoardGroupPage, Page
  <1>4. NewBoardGroupPage.panel = {}
    BY DEF NewBoardGroupPage, Page
  <1> QED BY <1>1, <1>2, <1>3, <1>4, CreatePage DEF Shell

LEMMA NewGatewayPageOK == PageOK(NewGatewayPage)
  <1>1. createGatewayApiV1GatewaysPost.of = <<"gateways">>
    BY DEF createGatewayApiV1GatewaysPost, Write
  <1>2. \A o \in NewGatewayPage.queries : o.q.of # <<"gateways">>
    BY DEF NewGatewayPage, Page
  <1>3. \A a \in NewGatewayPage.acts : \E i \in Ids : \E to \in Routes :
          a = Submit(createGatewayApiV1GatewaysPost, i, to)
    BY PushRoutes DEF NewGatewayPage, Page
  <1>4. NewGatewayPage.panel = {}
    BY DEF NewGatewayPage, Page
  <1> QED BY <1>1, <1>2, <1>3, <1>4, CreatePage DEF Shell

(* Lists with optimistic deletes. *)
LEMMA AgentsPageOK == PageOK(AgentsPage)
  <1>1. \A d : /\ deleteAgentApiV1AgentsAgentIdDelete(d).id = d
               /\ deleteAgentApiV1AgentsAgentIdDelete(d).of = <<"agents">>
    BY DEF deleteAgentApiV1AgentsAgentIdDelete, Write
  <1>2. \A o \in AgentsPage.queries : o.q.of = <<"agents">> => o.q.key = agentsKey
    BY DEF AgentsPage, listBoardsApiV1BoardsGet, None, AdminLive, listAgentsApiV1AgentsGet,
           agentsKey, boardsKey, List, Read, KeyOf, Watch, Page
  <1>3. \E o \in AgentsPage.queries : o.q.of = <<"agents">> /\ o.q.key = agentsKey
    <2>1. Watch(listAgentsApiV1AgentsGet(None), AdminLive) \in AgentsPage.queries
      BY DEF AgentsPage, Page
    <2>2. /\ Watch(listAgentsApiV1AgentsGet(None), AdminLive).q.of = <<"agents">>
          /\ Watch(listAgentsApiV1AgentsGet(None), AdminLive).q.key = agentsKey
      BY DEF None, AdminLive, listAgentsApiV1AgentsGet, agentsKey, List, Read, KeyOf, Watch
    <2> QED BY <2>1, <2>2
  <1>4. \A a \in AgentsPage.acts : \E d \in Ids :
          a = createOptimisticListDeleteMutation(deleteAgentApiV1AgentsAgentIdDelete(d),
            agentsKey, {agentsKey, boardsKey})
    BY DEF AgentsPage, Page
  <1>5. AgentsPage.panel = {}
    BY DEF AgentsPage, Page
  <1>6. IsPrefix(agentsKey, agentsKey)
    BY PrefixOfKey DEF None, listAgentsApiV1AgentsGet, agentsKey, List, Read, KeyOf
  <1>7. <<"agents">> \notin Shell
    BY DEF Shell
  <1>8. Deletes(AgentsPage, <<"agents">>, agentsKey, {agentsKey, boardsKey})
    BY <1>1, <1>2, <1>3, <1>4, <1>5, <1>6, <1>7 DEF Deletes
  <1> QED BY <1>8, DeletePage

LEMMA BoardsPageOK == PageOK(BoardsPage)
  <1>1. \A d : /\ deleteBoardApiV1BoardsBoardIdDelete(d).id = d
               /\ deleteBoardApiV1BoardsBoardIdDelete(d).of = <<"boards">>
    BY DEF deleteBoardApiV1BoardsBoardIdDelete, Write
  <1>2. \A o \in BoardsPage.queries : o.q.of = <<"boards">> => o.q.key = boardsKey
    BY DEF BoardsPage, listBoardsApiV1BoardsGet, None, Live, listBoardGroupsApiV1BoardGroupsGet,
           boardsKey, List, Read, KeyOf, Watch, Page
  <1>3. \E o \in BoardsPage.queries : o.q.of = <<"boards">> /\ o.q.key = boardsKey
    <2>1. Watch(listBoardsApiV1BoardsGet(None), Live) \in BoardsPage.queries
      BY DEF BoardsPage, Page
    <2>2. /\ Watch(listBoardsApiV1BoardsGet(None), Live).q.of = <<"boards">>
          /\ Watch(listBoardsApiV1BoardsGet(None), Live).q.key = boardsKey
      BY DEF listBoardsApiV1BoardsGet, None, Live, boardsKey, List, Read, KeyOf, Watch
    <2> QED BY <2>1, <2>2
  <1>4. \A a \in BoardsPage.acts : \E d \in Ids :
          a = createOptimisticListDeleteMutation(deleteBoardApiV1BoardsBoardIdDelete(d),
            boardsKey, {boardsKey})
    BY DEF BoardsPage, Page
  <1>5. BoardsPage.panel = {}
    BY DEF BoardsPage, Page
  <1>6. IsPrefix(boardsKey, boardsKey)
    BY PrefixOfKey DEF listBoardsApiV1BoardsGet, None, Live, boardsKey, List, Read, KeyOf
  <1>7. <<"boards">> \notin Shell
    BY DEF Shell
  <1>8. Deletes(BoardsPage, <<"boards">>, boardsKey, {boardsKey})
    BY <1>1, <1>2, <1>3, <1>4, <1>5, <1>6, <1>7 DEF Deletes
  <1> QED BY <1>8, DeletePage

LEMMA BoardGroupsPageOK == PageOK(BoardGroupsPage)
  <1>1. \A d : /\ deleteBoardGroupApiV1BoardGroupsGroupIdDelete(d).id = d
               /\ deleteBoardGroupApiV1BoardGroupsGroupIdDelete(d).of = <<"groups">>
    BY DEF deleteBoardGroupApiV1BoardGroupsGroupIdDelete, Write
  <1>2. \A o \in BoardGroupsPage.queries : o.q.of = <<"groups">> => o.q.key = groupsKey
    BY DEF BoardGroupsPage, listBoardGroupsApiV1BoardGroupsGet, None, Live, groupsKey, List,
           Read, KeyOf, Watch, Page
  <1>3. \E o \in BoardGroupsPage.queries : o.q.of = <<"groups">> /\ o.q.key = groupsKey
    <2>1. Watch(listBoardGroupsApiV1BoardGroupsGet(None), Live) \in BoardGroupsPage.queries
      BY DEF BoardGroupsPage, Page
    <2>2. /\ Watch(listBoardGroupsApiV1BoardGroupsGet(None), Live).q.of = <<"groups">>
          /\ Watch(listBoardGroupsApiV1BoardGroupsGet(None), Live).q.key = groupsKey
      BY DEF listBoardGroupsApiV1BoardGroupsGet, None, Live, groupsKey, List, Read, KeyOf, Watch
    <2> QED BY <2>1, <2>2
  <1>4. \A a \in BoardGroupsPage.acts : \E d \in Ids :
          a = createOptimisticListDeleteMutation(
                deleteBoardGroupApiV1BoardGroupsGroupIdDelete(d), groupsKey, {groupsKey})
    BY DEF BoardGroupsPage, Page
  <1>5. BoardGroupsPage.panel = {}
    BY DEF BoardGroupsPage, Page
  <1>6. IsPrefix(groupsKey, groupsKey)
    BY PrefixOfKey
    DEF listBoardGroupsApiV1BoardGroupsGet, None, Live, groupsKey, List, Read, KeyOf
  <1>7. <<"groups">> \notin Shell
    BY DEF Shell
  <1>8. Deletes(BoardGroupsPage, <<"groups">>, groupsKey, {groupsKey})
    BY <1>1, <1>2, <1>3, <1>4, <1>5, <1>6, <1>7 DEF Deletes
  <1> QED BY <1>8, DeletePage

LEMMA GatewaysPageOK == PageOK(GatewaysPage)
  <1>1. \A d : /\ deleteGatewayApiV1GatewaysGatewayIdDelete(d).id = d
               /\ deleteGatewayApiV1GatewaysGatewayIdDelete(d).of = <<"gateways">>
    BY DEF deleteGatewayApiV1GatewaysGatewayIdDelete, Write
  <1>2. \A o \in GatewaysPage.queries : o.q.of = <<"gateways">> => o.q.key = gatewaysKey
    BY DEF GatewaysPage, listGatewaysApiV1GatewaysGet, None, AdminLive, gatewaysKey, List, Read,
           KeyOf, Watch, Page
  <1>3. \E o \in GatewaysPage.queries : o.q.of = <<"gateways">> /\ o.q.key = gatewaysKey
    <2>1. Watch(listGatewaysApiV1GatewaysGet(None), AdminLive) \in GatewaysPage.queries
      BY DEF GatewaysPage, Page
    <2>2. /\ Watch(listGatewaysApiV1GatewaysGet(None), AdminLive).q.of = <<"gateways">>
          /\ Watch(listGatewaysApiV1GatewaysGet(None), AdminLive).q.key = gatewaysKey
      BY DEF listGatewaysApiV1GatewaysGet, None, AdminLive, gatewaysKey, List, Read, KeyOf, Watch
    <2> QED BY <2>1, <2>2
  <1>4. \A a \in GatewaysPage.acts : \E d \in Ids :
          a = createOptimisticListDeleteMutation(deleteGatewayApiV1GatewaysGatewayIdDelete(d),
            gatewaysKey, {gatewaysKey})
    BY DEF GatewaysPage, Page
  <1>5. GatewaysPage.panel = {}
    BY DEF GatewaysPage, Page
  <1>6. IsPrefix(gatewaysKey, gatewaysKey)
    BY PrefixOfKey DEF listGatewaysApiV1GatewaysGet, None, gatewaysKey, List, Read, KeyOf
  <1>7. <<"gateways">> \notin Shell
    BY DEF Shell
  <1>8. Deletes(GatewaysPage, <<"gateways">>, gatewaysKey, {gatewaysKey})
    BY <1>1, <1>2, <1>3, <1>4, <1>5, <1>6, <1>7 DEF Deletes
  <1> QED BY <1>8, DeletePage

LEMMA GatewayDetailPageOK ==
  ASSUME NEW i \in Ids PROVE PageOK(GatewayDetailPage(i))
  <1>1. \A d : /\ deleteAgentApiV1AgentsAgentIdDelete(d).id = d
               /\ deleteAgentApiV1AgentsAgentIdDelete(d).of = <<"agents">>
    BY DEF deleteAgentApiV1AgentsAgentIdDelete, Write
  <1>2. \A o \in GatewayDetailPage(i).queries :
          o.q.of = <<"agents">> => o.q.key = gatewayAgents(i).key
    BY DEF GatewayDetailPage, getGatewayApiV1GatewaysGatewayIdGet, listBoardsApiV1BoardsGet,
           None, gatewayAgents, gatewaysStatusApiV1GatewaysStatusGet, Item, List,
           listAgentsApiV1AgentsGet, Read, KeyOf, Watch, Page
  <1>3. \E o \in GatewayDetailPage(i).queries :
          o.q.of = <<"agents">> /\ o.q.key = gatewayAgents(i).key
    <2>1. Watch(gatewayAgents(i), {"poll", "admin"}) \in GatewayDetailPage(i).queries
      BY DEF GatewayDetailPage, Page
    <2>2. /\ Watch(gatewayAgents(i), {"poll", "admin"}).q.of = <<"agents">>
          /\ Watch(gatewayAgents(i), {"poll", "admin"}).q.key = gatewayAgents(i).key
      BY DEF None, gatewayAgents, Item, List, listAgentsApiV1AgentsGet, Read, KeyOf, Watch
    <2> QED BY <2>1, <2>2
  <1>4. \A a \in GatewayDetailPage(i).acts : \E d \in Ids :
          a = createOptimisticListDeleteMutation(deleteAgentApiV1AgentsAgentIdDelete(d),
            gatewayAgents(i).key, {gatewayAgents(i).key})
    BY DEF GatewayDetailPage, Page
  <1>5. GatewayDetailPage(i).panel = {}
    BY DEF GatewayDetailPage, Page
  <1>6. IsPrefix(gatewayAgents(i).key, gatewayAgents(i).key)
    BY PrefixOfKey DEF None, gatewayAgents, Item, List, listAgentsApiV1AgentsGet, Read, KeyOf
  <1>7. <<"agents">> \notin Shell
    BY DEF Shell
  <1>8. Deletes(GatewayDetailPage(i), <<"agents">>, gatewayAgents(i).key, {gatewayAgents(i).key})
    BY <1>1, <1>2, <1>3, <1>4, <1>5, <1>6, <1>7 DEF Deletes
  <1> QED BY <1>8, DeletePage

(* Lists whose mutations invalidate their key. *)
LEMMA TagsPageOK == PageOK(TagsPage)
  <1>1. \A o \in TagsPage.queries :
          o.q.of = <<"tags">> /\ "always" \in o.how => Under(o.q.key, {tagsKey})
    <2>1. \A o \in TagsPage.queries : o.q.of = <<"tags">> => o.q.key = tagsKey
      BY DEF TagsPage, listTagsApiV1TagsGet, None, Live, tagsKey, List, Read, KeyOf, Watch, Page
    <2>2. IsPrefix(tagsKey, tagsKey)
      BY PrefixOfKey DEF listTagsApiV1TagsGet, None, Live, tagsKey, List, Read, KeyOf
    <2> QED BY <2>1, <2>2 DEF Under
  <1>2. \A a \in TagsPage.acts : Keyed(a, <<"tags">>, {tagsKey})
    <2>1. \A d : /\ deleteTagApiV1TagsTagIdDelete(d).id = d
                 /\ deleteTagApiV1TagsTagIdDelete(d).of = <<"tags">>
      BY DEF deleteTagApiV1TagsTagIdDelete, Write
    <2>2. \A a \in TagsPage.acts :
            \E w : w.id \in Ids /\ w.of = <<"tags">> /\ a = Row(w, {tagsKey})
      BY <2>1 DEF TagsPage, Page
    <2> QED BY <2>2, RowKeyed
  <1>3. TagsPage.panel = {} /\ <<"tags">> \notin Shell
    BY DEF TagsPage, Page, Shell
  <1> QED BY <1>1, <1>2, <1>3, KeysPage DEF Refetched

LEMMA CustomFieldsPageOK == PageOK(CustomFieldsPage)
  <1>1. \A o \in CustomFieldsPage.queries :
          o.q.of = <<"fields">> /\ "always" \in o.how => Under(o.q.key, {customFieldsKey})
    <2>1. \A o \in CustomFieldsPage.queries : o.q.of = <<"fields">> => o.q.key = customFieldsKey
      BY DEF CustomFieldsPage, listOrgCustomFieldsApiV1OrganizationsMeCustomFieldsGet, Live,
             customFieldsKey, List, CustomFields, None, Read, KeyOf, Watch, Page
    <2>2. IsPrefix(customFieldsKey, customFieldsKey)
      BY PrefixOfKey
      DEF listOrgCustomFieldsApiV1OrganizationsMeCustomFieldsGet, Live, customFieldsKey, List,
          CustomFields, None, Read, KeyOf
    <2> QED BY <2>1, <2>2 DEF Under
  <1>2. \A a \in CustomFieldsPage.acts : Keyed(a, <<"fields">>, {customFieldsKey})
    <2>1. \A d :
            LET w == deleteOrgCustomFieldApiV1OrganizationsMeCustomFieldsTaskCustomFieldDefinitionIdDelete(d)
            IN  w.id = d /\ w.of = <<"fields">>
      BY DEF deleteOrgCustomFieldApiV1OrganizationsMeCustomFieldsTaskCustomFieldDefinitionIdDelete,
             Write
    <2>2. \A a \in CustomFieldsPage.acts :
            \E w : w.id \in Ids /\ w.of = <<"fields">> /\ a = Row(w, {customFieldsKey})
      BY <2>1 DEF CustomFieldsPage, Page
    <2> QED BY <2>2, RowKeyed
  <1>3. CustomFieldsPage.panel = {} /\ <<"fields">> \notin Shell
    BY DEF CustomFieldsPage, Page, Shell
  <1> QED BY <1>1, <1>2, <1>3, KeysPage DEF Refetched

LEMMA SkillsPacksPageOK == PageOK(SkillsPacksPage)
  <1>1. \A o \in SkillsPacksPage.queries :
          o.q.of = <<"packs">> /\ "always" \in o.how => Under(o.q.key, {packsQueryKey})
    <2>1. \A o \in SkillsPacksPage.queries : o.q.of = <<"packs">> => o.q.key = packsQueryKey
      BY DEF SkillsPacksPage, listSkillPacksApiV1SkillsPacksGet, AdminLive, packsQueryKey, List,
             None, Read, KeyOf, Watch, Page
    <2>2. IsPrefix(packsQueryKey, packsQueryKey)
      BY PrefixOfKey DEF listSkillPacksApiV1SkillsPacksGet, packsQueryKey, List, None, Read, KeyOf
    <2> QED BY <2>1, <2>2 DEF Under
  <1>2. \A a \in SkillsPacksPage.acts : Keyed(a, <<"packs">>, {packsQueryKey})
    <2>1. \A d : /\ deleteSkillPackApiV1SkillsPacksPackIdDelete(d).id = d
                 /\ deleteSkillPackApiV1SkillsPacksPackIdDelete(d).of = <<"packs">>
                 /\ syncSkillPackApiV1SkillsPacksPackIdSyncPost(d).id = d
                 /\ syncSkillPackApiV1SkillsPacksPackIdSyncPost(d).of = <<"packs">>
      BY DEF deleteSkillPackApiV1SkillsPacksPackIdDelete,
             syncSkillPackApiV1SkillsPacksPackIdSyncPost, Write
    <2>2. \A a \in SkillsPacksPage.acts :
            \E w : w.id \in Ids /\ w.of = <<"packs">> /\ a = Row(w, {packsQueryKey})
      BY <2>1 DEF SkillsPacksPage, Page
    <2> QED BY <2>2, RowKeyed
  <1>3. SkillsPacksPage.panel = {} /\ <<"packs">> \notin Shell
    BY DEF SkillsPacksPage, Page, Shell
  <1> QED BY <1>1, <1>2, <1>3, KeysPage DEF Refetched

LEMMA BoardApprovalsPanelOK ==
  ASSUME NEW i \in Ids PROVE PageOK(BoardApprovalsPanel(i))
  <1>1. \A o \in BoardApprovalsPanel(i).queries :
          o.q.of = <<"approvals", i>> /\ "always" \in o.how => Under(o.q.key, {BoardApprovals(i).key})
    <2>1. \A o \in BoardApprovalsPanel(i).queries : o.q.of = <<"approvals", i>> =>
            o.q.key = BoardApprovals(i).key
      BY DEF BoardApprovalsPanel, BoardApprovals, Live,
             listApprovalsApiV1BoardsBoardIdApprovalsGet, None, Of, List, Read, KeyOf, Watch,
             Page
    <2>2. IsPrefix(BoardApprovals(i).key, BoardApprovals(i).key)
      BY PrefixOfKey
      DEF BoardApprovals, Live, listApprovalsApiV1BoardsBoardIdApprovalsGet, None, Of, List,
          Read, KeyOf
    <2> QED BY <2>1, <2>2 DEF Under
  <1>2. \A a \in BoardApprovalsPanel(i).acts :
          Keyed(a, <<"approvals", i>>, {BoardApprovals(i).key})
    <2>1. IsPrefix(BoardApprovals(i).key, BoardApprovals(i).key)
      BY PrefixOfKey
      DEF BoardApprovals, listApprovalsApiV1BoardsBoardIdApprovalsGet, Of, List, Read, KeyOf
    <2>2. \A a \in BoardApprovalsPanel(i).acts : \E d \in Ids :
            a = Decision(i, d, BoardApprovals(i).key)
      BY DEF BoardApprovalsPanel, Page
    <2> QED BY <2>1, <2>2, DecisionKeyed
  <1>3. BoardApprovalsPanel(i).panel = {} /\ <<"approvals", i>> \notin Shell
    BY DEF BoardApprovalsPanel, Page, Shell
  <1> QED BY <1>1, <1>2, <1>3, KeysPage DEF Refetched

(* The approvals of several boards are read under a key of their own, by a query *)
(* function that does not take the signal.                                       *)
LEMMA GlobalKey ==
  \A s : /\ GlobalApprovals(s).key = <<<<"own", "approvals">>, <<"own", "global">>, <<"own", s>>>>
         /\ GlobalApprovals(s).of = <<"approvals", MyId>> /\ GlobalApprovals(s).signal = FALSE
  <1> SUFFICES ASSUME NEW s
               PROVE  /\ GlobalApprovals(s).key =
                           <<<<"own", "approvals">>, <<"own", "global">>, <<"own", s>>>>
                      /\ GlobalApprovals(s).of = <<"approvals", MyId>> /\ GlobalApprovals(s).signal = FALSE
    OBVIOUS
  <1> DEFINE own == Custom("approvals", None, <<"approvals", "global", s>>)
             all == GlobalApprovals(s)
  <1>1. own.key = <<<<"own", "approvals">>, <<"own", "global">>, <<"own", s>>>>
    BY OwnKeys
  <1>2. own.of = <<"approvals">> /\ own.signal = FALSE
    BY DEF Custom
  <1>3. all = [own EXCEPT !.of = Append(own.of, MyId)]
    BY DEF GlobalApprovals, Of
  <1>4. DOMAIN own = {"of", "id", "path", "params", "key", "signal"}
    BY DEF Custom
  <1> HIDE DEF own
  <1>5. all.key = own.key /\ all.signal = own.signal /\ all.of = Append(own.of, MyId)
    BY <1>3, <1>4
  <1>6. all.of = <<"approvals", MyId>>
    <2>1. <<"approvals", MyId>> = Append(<<"approvals">>, MyId)
      OBVIOUS
    <2> HIDE DEF all
    <2> QED BY <1>2, <1>5, <2>1
  <1> QED BY <1>1, <1>2, <1>5, <1>6

LEMMA GlobalApprovalsPageOK ==
  ASSUME NEW i \in Ids PROVE PageOK(GlobalApprovalsPage(i))
  <1>1. \A o \in GlobalApprovalsPage(i).queries :
          o.q.of = <<"approvals", MyId>> /\ "always" \in o.how =>
            Under(o.q.key, {GlobalApprovals(i).key})
    <2>1. \A o \in GlobalApprovalsPage(i).queries : o.q.of = <<"approvals", MyId>> =>
            o.q = GlobalApprovals(i)
      BY DEF GlobalApprovalsPage, listBoardsApiV1BoardsGet, List, Read, Watch, Page
    <2>2. IsPrefix(GlobalApprovals(i).key, GlobalApprovals(i).key)
      BY GlobalKey, PrefixOfKey
    <2> QED BY <2>1, <2>2 DEF Under
  <1>2. \A a \in GlobalApprovalsPage(i).acts :
          Keyed(a, <<"approvals", MyId>>, {GlobalApprovals(i).key})
    <2>1. IsPrefix(GlobalApprovals(i).key, GlobalApprovals(i).key)
      BY GlobalKey, PrefixOfKey
    <2>2. \A a \in GlobalApprovalsPage(i).acts : \E d \in Ids :
            a = Decision(MyId, d, GlobalApprovals(i).key)
      BY DEF GlobalApprovalsPage, Page
    <2> QED BY <2>1, <2>2, DecisionKeyed
  <1>3. GlobalApprovalsPage(i).panel = {} /\ <<"approvals", MyId>> \notin Shell
    BY DEF GlobalApprovalsPage, Page, Shell
  <1> QED BY <1>1, <1>2, <1>3, KeysPage DEF Refetched

LEMMA SiloRequestsPageOK == PageOK(SiloRequestsPage)
  <1>1. \A o \in SiloRequestsPage.queries :
          o.q.of = <<"requests">> /\ "always" \in o.how => Under(o.q.key, {spawnRequests.key})
    BY DEF SiloRequestsPage, Watch, Page
  <1>2. \A a \in SiloRequestsPage.acts : Keyed(a, <<"requests">>, {spawnRequests.key})
    <2>1. \A d : updateSiloSpawnRequest(d).id = d /\ updateSiloSpawnRequest(d).of = <<"requests">>
      BY DEF updateSiloSpawnRequest, Write
    <2>2. \A d \in Ids : Keyed(Row(updateSiloSpawnRequest(d), {spawnRequests.key}),
            <<"requests">>, {spawnRequests.key})
      <3> SUFFICES ASSUME NEW d \in Ids
                   PROVE  Keyed(Row(updateSiloSpawnRequest(d), {spawnRequests.key}),
                            <<"requests">>, {spawnRequests.key})
        OBVIOUS
      <3>1. Keyed(Row(updateSiloSpawnRequest(d), {spawnRequests.key}),
              updateSiloSpawnRequest(d).of, {spawnRequests.key})
        BY <2>1, RowKeyed
      <3> QED BY <2>1, <3>1
    <2>3. \A d \in Ids : Keyed([Act(createSiloSpawnRequest, d, {"awaits"}) EXCEPT
            !.keys = {spawnRequests.key}], <<"requests">>, {spawnRequests.key})
      BY DEF Keyed, Act, createSiloSpawnRequest, Write
    <2>4. \A a \in SiloRequestsPage.acts : \E d \in Ids :
            \/ a = [Act(createSiloSpawnRequest, d, {"awaits"}) EXCEPT
                 !.keys = {spawnRequests.key}]
            \/ a = Row(updateSiloSpawnRequest(d), {spawnRequests.key})
      BY DEF SiloRequestsPage, Page
    <2> QED BY <2>2, <2>3, <2>4
  <1>3. SiloRequestsPage.panel = {} /\ <<"requests">> \notin Shell
    BY DEF SiloRequestsPage, Page, Shell
  <1> QED BY <1>1, <1>2, <1>3, KeysPage DEF Refetched

LEMMA SiloDetailPageOK ==
  ASSUME NEW i \in Ids PROVE PageOK(SiloDetailPage(i))
  <1>1. \A o \in SiloDetailPage(i).queries :
          o.q.of = <<"silos">> /\ "always" \in o.how => Under(o.q.key, {fetchSiloDetail(i).key})
    BY DEF SiloDetailPage, fetchSiloDetail, listGatewaysApiV1GatewaysGet, None, Admin, Custom,
           List, Read, KeyOf, Watch, Page
  <1>2. \A a \in SiloDetailPage(i).acts : Keyed(a, <<"silos">>, {fetchSiloDetail(i).key})
    BY DEF Keyed, SiloDetailPage, Act, runSiloRuntime, updateSilo, Write, Page
  <1>3. SiloDetailPage(i).panel = {} /\ <<"silos">> \notin Shell
    BY DEF SiloDetailPage, Page, Shell
  <1> QED BY <1>1, <1>2, <1>3, KeysPage DEF Refetched

LEMMA SkillsMarketplacePageOK == PageOK(SkillsMarketplacePage)
  <1>1. \A o \in SkillsMarketplacePage.queries :
          o.q.of = <<"skills">> /\ "always" \in o.how => Under(o.q.key, {skillsKey})
    <2>1. \A o \in SkillsMarketplacePage.queries : o.q.of = <<"skills">> =>
            \E params : o.q.key = <<<<"skills", "marketplace">>, params>>
      BY DEF SkillsMarketplacePage, listGatewaysApiV1GatewaysGet, None, AdminLive,
             listMarketplaceSkillsApiV1SkillsMarketplaceGet, listSkillPacksApiV1SkillsPacksGet,
             Admin, MarketplaceActs, List, skillsKey, Read, KeyOf, Watch, Page
    <2>2. skillsKey = <<<<"skills", "marketplace">>>>
      BY DEF skillsKey, listMarketplaceSkillsApiV1SkillsMarketplaceGet, List, Read, KeyOf
    <2> QED BY <2>1, <2>2, PrefixOfKey DEF Under
  <1>2. \A a \in SkillsMarketplacePage.acts : Keyed(a, <<"skills">>, {skillsKey})
    <2>1. \A d : /\ installMarketplaceSkillApiV1SkillsMarketplaceSkillIdInstallPost(d).id = d
                 /\ installMarketplaceSkillApiV1SkillsMarketplaceSkillIdInstallPost(d).of = <<"skills">>
                 /\ uninstallMarketplaceSkillApiV1SkillsMarketplaceSkillIdUninstallPost(d).id = d
                 /\ uninstallMarketplaceSkillApiV1SkillsMarketplaceSkillIdUninstallPost(d).of = <<"skills">>
      BY DEF installMarketplaceSkillApiV1SkillsMarketplaceSkillIdInstallPost,
             uninstallMarketplaceSkillApiV1SkillsMarketplaceSkillIdUninstallPost, Write
    <2>2. \A a \in SkillsMarketplacePage.acts :
            \E w : w.id \in Ids /\ w.of = <<"skills">> /\ a = Row(w, {skillsKey})
      BY <2>1 DEF SkillsMarketplacePage, MarketplaceActs, Page
    <2> QED BY <2>2, RowKeyed
  <1>3. SkillsMarketplacePage.panel = {} /\ <<"skills">> \notin Shell
    BY DEF SkillsMarketplacePage, Page, Shell
  <1> QED BY <1>1, <1>2, <1>3, KeysPage DEF Refetched

(* The dashboard: every action on a run invalidates both runtime panels. *)
LEMMA DashboardPageOK == PageOK(DashboardPage)
  <1>1. \A o \in DashboardPage.queries :
          o.q.of = <<"runs">> /\ "always" \in o.how => Under(o.q.key, invalidateRuntimeViews)
    <2>1. \A o \in DashboardPage.queries : o.q.of = <<"runs">> =>
            o.q = executionRuntime \/ o.q = telemetryOps
      <3>1. /\ listBoardsApiV1BoardsGet("limit").of = <<"boards">>
            /\ listAgentsApiV1AgentsGet("limit").of = <<"agents">>
            /\ dashboardMetricsApiV1MetricsDashboardGet("range").of = <<"metrics">>
            /\ listActivityApiV1ActivityGet("limit200").of = <<"activity">>
        BY DEF listBoardsApiV1BoardsGet, listAgentsApiV1AgentsGet, listActivityApiV1ActivityGet,
               dashboardMetricsApiV1MetricsDashboardGet, List, Read
      <3>2. /\ gatewayStatuses.of = <<"status">>
            /\ \A parts : /\ fetchSilos(parts).of = <<"silos">>
                           /\ fetchSiloSpawnRequests(parts).of = <<"requests">>
        BY DEF gatewayStatuses, fetchSiloSpawnRequests, fetchSilos, Custom
      <3> QED BY <3>1, <3>2 DEF DashboardPage, DashboardQueries, Watch, Page
    <2>2. {executionRuntime.key, telemetryOps.key} \subseteq invalidateRuntimeViews
      BY DEF invalidateRuntimeViews
    <2>3. executionRuntime.key = <<<<"own", "dashboard">>, <<"own", "execution-runtime">>,
            <<"own", "7d">>>>
      BY DEF executionRuntime, Custom
    <2>4. telemetryOps.key = <<<<"own", "dashboard">>, <<"own", "telemetry-ops">>,
            <<"own", "7d">>>>
      BY DEF telemetryOps, Custom
    <2>5. /\ IsPrefix(executionRuntime.key, executionRuntime.key)
          /\ IsPrefix(telemetryOps.key, telemetryOps.key)
      BY <2>3, <2>4, PrefixOfKey
    <2> QED BY <2>1, <2>2, <2>5 DEF Under
  <1>2. \A a \in DashboardPage.acts : Keyed(a, <<"runs">>, invalidateRuntimeViews)
    <2>1. \A d : \A w \in RunActions(MyId, d) : w.id = d /\ w.of = <<"runs">>
      BY DEF RunActions, Write
    <2>2. \A a \in DashboardPage.acts : \E d \in Ids : \E w \in RunActions(MyId, d) :
            a = [Row(w, invalidateRuntimeViews) EXCEPT !.how = {"row", "awaits"}]
      BY DEF DashboardPage, DashboardRuns, Page
    <2>3. ASSUME NEW d \in Ids, NEW w \in RunActions(MyId, d)
          PROVE  Keyed([Row(w, invalidateRuntimeViews) EXCEPT !.how = {"row", "awaits"}],
                   <<"runs">>, invalidateRuntimeViews)
      <3>1. w.id \in Ids /\ w.of = <<"runs">>
        BY <2>1
      <3> QED BY <3>1, RowKeyed
    <2> QED BY <2>2, <2>3
  <1>3. DashboardPage.panel = {} /\ <<"runs">> \notin Shell
    BY DEF DashboardPage, Page, Shell
  <1> QED BY <1>1, <1>2, <1>3, KeysPage DEF Refetched

(* Saves that wait for the refetch before they leave. *)
LEMMA NewCustomFieldPageOK == PageOK(NewCustomFieldPage)
  BY SavePage, PushRoutes DEF NewCustomFieldPage, Page

LEMMA EditCustomFieldPageOK ==
  ASSUME NEW i \in Ids PROVE PageOK(EditCustomFieldPage(i))
  BY SavePage, PushRoutes DEF EditCustomFieldPage, Page

(* Of the users, the shell reads the profile. *)
LEMMA ShellUsers == \A at : \A o \in DashboardShell(at) : o.q.of = <<"users">> => o.q = meQuery.q
  <1>1. \A at : \A o \in DashboardShell(at) :
          o = meQuery \/ o.q.of \in {<<"organizations">>, <<"membership">>, <<"health">>}
    BY DEF DashboardShell, OrgSwitcher, useOrganizationMembership, DashboardSidebar, Watch,
           listMyOrganizationsApiV1OrganizationsMeListGet,
           getMyMembershipApiV1OrganizationsMeMemberGet, healthzHealthzGet, List, Read
  <1> QED BY <1>1

(* The profile, which the shell reads too. *)
LEMMA SettingsPageOK == PageOK(SettingsPage)
  <1> DEFINE key == getMeApiV1UsersMeGet(MyId).key
             save == [Act(updateMeApiV1UsersMePatch(MyId), MyId, {"awaits"}) EXCEPT
               !.keys = {key}]
  <1>1. /\ SettingsPage.acts = {save,
             Submit(deleteMeApiV1UsersMeDelete(MyId), MyId, <<"sign-in">>)}
        /\ SettingsPage.queries = {meQuery} /\ SettingsPage.panel = {}
        /\ SettingsPage.at = <<"settings">>
    BY DEF SettingsPage, Page
  <1>2. /\ save.item = MyId /\ save.push = NoPush /\ save.drops = {} /\ save.sets = {}
        /\ save.keys = {key} /\ save.w.of = <<"users">>
    BY DEF Act, updateMeApiV1UsersMePatch, Write
  <1>3. meQuery.q.key = key /\ IsPrefix(key, key)
    BY PrefixOfKey DEF meQuery, Watch, getMeApiV1UsersMeGet, Item, Read, KeyOf
  <1>4. \A o \in PageWatches(SettingsPage) : o.q.of = <<"users">> => Under(o.q.key, {key})
    BY <1>1, <1>3, ShellUsers DEF PageWatches, Under
  <1> HIDE DEF save, key
  <1>5. Fits(save, SettingsPage.at, PageWatches(SettingsPage))
    BY <1>2, <1>4, KeysFit, IdsAssumption
  <1>6. \A watches : Fits(Submit(deleteMeApiV1UsersMeDelete(MyId), MyId, <<"sign-in">>),
          <<"settings">>, watches)
    <2>1. <<"sign-in">> \notin {NoPush, <<"settings">>} /\ <<"sign-in">> \in Routes
      BY PushRoutes DEF NoPush
    <2> QED BY <2>1, SubmitFits, IdsAssumption
  <1> QED BY <1>1, <1>5, <1>6 DEF PageOK

(* Invites and members, with the dialog of a member. *)
LEMMA OrganizationPageOK == PageOK(OrganizationPage)
  <1> DEFINE p == OrganizationPage
  <1>1. /\ p.at = <<"organization">> /\ p.queries = OrganizationQueries
        /\ p.acts = OrganizationInvites \cup OrganizationMembers \cup {DeleteOrganization}
        /\ p.panel = {<<i, Watch(getOrgMemberApiV1OrganizationsMeMembersMemberIdGet(i), {})>> :
             i \in Ids}
    BY DEF OrganizationPage, Page
  <1> HIDE DEF p
  <1>2. \A o \in OrganizationQueries : o.q.of = <<"members">> => o.q.key = membersKey
    BY DEF OrganizationQueries, invitesKey, membersKey, Watch, getMyOrgApiV1OrganizationsMeGet,
           listOrgMembersApiV1OrganizationsMeMembersGet, listBoardsApiV1BoardsGet,
           useOrganizationMembership, getMyMembershipApiV1OrganizationsMeMemberGet,
           listOrgInvitesApiV1OrganizationsMeInvitesGet, List, Item, Read
  <1>9. \A o \in OrganizationQueries : o.q.of = <<"invites">> => o.q.key = invitesKey
    BY DEF OrganizationQueries, invitesKey, membersKey, Watch, getMyOrgApiV1OrganizationsMeGet,
           listOrgMembersApiV1OrganizationsMeMembersGet, listBoardsApiV1BoardsGet,
           useOrganizationMembership, getMyMembershipApiV1OrganizationsMeMemberGet,
           listOrgInvitesApiV1OrganizationsMeInvitesGet, List, Item, Read
  <1>3. IsPrefix(invitesKey, invitesKey) /\ IsPrefix(membersKey, membersKey)
    BY PrefixOfKey
    DEF invitesKey, membersKey, listOrgMembersApiV1OrganizationsMeMembersGet,
        listOrgInvitesApiV1OrganizationsMeInvitesGet, List, Read, KeyOf, None
  <1>4. \A a \in OrganizationInvites : Keyed(a, <<"invites">>, {invitesKey})
    <2>1. \A i \in Ids : Keyed([Act(createOrgInviteApiV1OrganizationsMeInvitesPost, i,
            {}) EXCEPT !.keys = {invitesKey}], <<"invites">>, {invitesKey})
      BY DEF Keyed, Act, createOrgInviteApiV1OrganizationsMeInvitesPost, Write
    <2>2. ASSUME NEW i \in Ids
          PROVE  Keyed(Row(revokeOrgInviteApiV1OrganizationsMeInvitesInviteIdDelete(i),
                   {invitesKey}), <<"invites">>, {invitesKey})
      BY DEF Keyed, Row, Act, revokeOrgInviteApiV1OrganizationsMeInvitesInviteIdDelete, Write
    <2> QED BY <2>1, <2>2 DEF OrganizationInvites
  <1>5. \A a \in OrganizationMembers : Keyed(a, <<"members">>, {membersKey})
    <2>1. ASSUME NEW i \in Ids
          PROVE  /\ Keyed([Row(updateMemberAccessApiV1OrganizationsMeMembersMemberIdAccessPut(i),
                                {membersKey}) EXCEPT
                             !.panelKeys = {getOrgMemberApiV1OrganizationsMeMembersMemberIdGet(i).key}],
                           <<"members">>, {membersKey})
                 /\ Keyed(Row(updateOrgMemberApiV1OrganizationsMeMembersMemberIdPatch(i),
                      {membersKey}), <<"members">>, {membersKey})
                 /\ Keyed(Row(removeMember(i), {membersKey}), <<"members">>, {membersKey})
      BY DEF Keyed, Row, Act, updateMemberAccessApiV1OrganizationsMeMembersMemberIdAccessPut,
             updateOrgMemberApiV1OrganizationsMeMembersMemberIdPatch, removeMember, Write
    <2> QED BY <2>1 DEF OrganizationMembers
  <1>6. \A watches :
          Fits(DeleteOrganization, <<"organization">>, watches) /\ DeleteOrganization.drops = {}
    BY PushRoutes, IdsAssumption DEF DeleteOrganization, Act, Fits, WellFormed, Refetches, NoPush
  <1>7. \A a \in OrganizationInvites \cup OrganizationMembers :
          Fits(a, p.at, PageWatches(p)) /\ a.drops = {}
    <2>1. <<"invites">> \notin Shell /\ <<"members">> \notin Shell
      BY DEF Shell
    <2>2. \A o \in OrganizationQueries : o.q.of = <<"invites">> /\ "always" \in o.how =>
            Under(o.q.key, {invitesKey})
      <3> SUFFICES ASSUME NEW o \in OrganizationQueries, o.q.of = <<"invites">>
                   PROVE  Under(o.q.key, {invitesKey})
        OBVIOUS
      <3>1. o.q.key = invitesKey
        BY <1>9
      <3> QED BY <3>1, <1>3 DEF Under
    <2>5. \A o \in OrganizationQueries : o.q.of = <<"members">> /\ "always" \in o.how =>
            Under(o.q.key, {membersKey})
      <3> SUFFICES ASSUME NEW o \in OrganizationQueries, o.q.of = <<"members">>
                   PROVE  Under(o.q.key, {membersKey})
        OBVIOUS
      <3>1. o.q.key = membersKey
        BY <1>2
      <3> QED BY <3>1, <1>3 DEF Under
    <2> DEFINE shown == OrganizationQueries \cup DashboardShell(<<"organization">>)
    <2>3. \A a \in OrganizationInvites : Fits(a, <<"organization">>, shown) /\ a.drops = {}
      BY <1>4, <2>1, <2>2, KeyedFits
    <2>4. \A a \in OrganizationMembers : Fits(a, <<"organization">>, shown) /\ a.drops = {}
      BY <1>5, <2>1, <2>5, KeyedFits
    <2> QED BY <1>1, <2>3, <2>4 DEF PageWatches
  <1>8. \A x \in p.panel : x[1] \in Ids /\ x[2].how = {}
    BY <1>1 DEF Watch
  <1> QED BY <1>1, <1>6, <1>7, <1>8 DEF PageOK, p

(* The webhooks of a board, next to a form that leaves. *)
LEMMA EditBoardPageOK ==
  ASSUME NEW b \in Ids PROVE PageOK(EditBoardPage(b))
  <1> DEFINE p == EditBoardPage(b)
             of == <<"webhooks", b>>
             keys == {webhooksKey(b)}
  <1>1. /\ p.at = <<"boards", b, "edit">> /\ p.acts = EditBoardSubmit(b) \cup EditBoardWebhooks(b)
        /\ p.panel = {}
    BY DEF EditBoardPage, Page
  <1>2. \A o \in p.queries : o.q.of = of =>
          o.q.key = listBoardWebhooksApiV1BoardsBoardIdWebhooksGet(b, "limit").key
    BY DEF EditBoardPage, Page, Watch, listGatewaysApiV1GatewaysGet,
           listBoardGroupsApiV1BoardGroupsGet, getBoardApiV1BoardsBoardIdGet,
           listAgentsApiV1AgentsGet, List, Item, Read
  <1>3. IsPrefix(webhooksKey(b), listBoardWebhooksApiV1BoardsBoardIdWebhooksGet(b, "limit").key)
    BY PrefixOfKey
    DEF webhooksKey, listBoardWebhooksApiV1BoardsBoardIdWebhooksGet, Of, List, Read, KeyOf, None
  <1>4. \A o \in p.queries : o.q.of = of => Under(o.q.key, keys)
    BY <1>2, <1>3 DEF Under
  <1>5. \A a \in EditBoardWebhooks(b) : Keyed(a, of, keys)
    <2>1. ASSUME NEW i \in Ids
          PROVE  Keyed([Act(createBoardWebhookApiV1BoardsBoardIdWebhooksPost(b), i,
                   {"awaits"}) EXCEPT !.keys = keys], of, keys)
      BY DEF Keyed, Act, createBoardWebhookApiV1BoardsBoardIdWebhooksPost, Of, Write
    <2>2. ASSUME NEW i \in Ids
          PROVE  /\ Keyed(Row(deleteBoardWebhookApiV1BoardsBoardIdWebhooksWebhookIdDelete(b, i),
                      keys), of, keys)
                 /\ Keyed(Row(updateBoardWebhookApiV1BoardsBoardIdWebhooksWebhookIdPatch(b, i),
                      keys), of, keys)
      BY DEF Keyed, Row, Act, deleteBoardWebhookApiV1BoardsBoardIdWebhooksWebhookIdDelete,
             updateBoardWebhookApiV1BoardsBoardIdWebhooksWebhookIdPatch, Of, Write
    <2> QED BY <2>1, <2>2 DEF EditBoardWebhooks
  <1>6. \A a \in EditBoardSubmit(b) : \A watches : Fits(a, <<"boards", b, "edit">>, watches)
    <2>1. <<"boards", b>> \notin {NoPush, <<"boards", b, "edit">>} /\ <<"boards", b>> \in Routes
      BY PushRoutes DEF NoPush
    <2> QED BY <2>1, SubmitFits DEF EditBoardSubmit
  <1>7. of \notin Shell
    BY DEF Shell
  <1> HIDE DEF p, of, keys
  <1>8. \A a \in EditBoardWebhooks(b) : Fits(a, p.at, PageWatches(p))
    BY <1>4, <1>5, <1>7, KeyedFits DEF PageWatches
  <1> QED BY <1>1, <1>6, <1>8 DEF PageOK, p

(* The boards of a group, read under two keys. *)
LEMMA EditBoardGroupPageOK ==
  ASSUME NEW g \in Ids PROVE PageOK(EditBoardGroupPage(g))
  <1> DEFINE p == EditBoardGroupPage(g)
             of == <<"boards">>
             keys == {allBoards.key, groupBoards.key}
             submit == Submit(updateBoardGroupApiV1BoardGroupsGroupIdPatch(g), g,
               <<"board-groups", g>>)
  <1>1. /\ p.at = <<"board-groups", g, "edit">> /\ p.panel = {}
        /\ p.acts = {submit} \cup {[Row(updateBoardApiV1BoardsBoardIdPatch(i), keys) EXCEPT
             !.how = {"row", "settled"}] : i \in Ids}
    BY DEF EditBoardGroupPage, Page
  <1>2. \A o \in p.queries : o.q.of = of => o.q.key \in keys
    BY DEF EditBoardGroupPage, Page, Watch, getBoardGroupApiV1BoardGroupsGroupIdGet, Item, Read
  <1>3. IsPrefix(allBoards.key, allBoards.key) /\ IsPrefix(groupBoards.key, groupBoards.key)
    BY PrefixOfKey DEF allBoards, groupBoards, listBoardsApiV1BoardsGet, List, Read, KeyOf, None
  <1>4. \A o \in p.queries : o.q.of = of => Under(o.q.key, keys)
    BY <1>2, <1>3 DEF Under
  <1>5. ASSUME NEW i \in Ids
        PROVE  Keyed([Row(updateBoardApiV1BoardsBoardIdPatch(i), keys) EXCEPT
                 !.how = {"row", "settled"}], of, keys)
    BY DEF Keyed, Row, Act, updateBoardApiV1BoardsBoardIdPatch, Write
  <1>6. \A watches : Fits(submit, <<"board-groups", g, "edit">>, watches)
    <2>1. /\ <<"board-groups", g>> \notin {NoPush, <<"board-groups", g, "edit">>}
          /\ <<"board-groups", g>> \in Routes
      BY PushRoutes DEF NoPush
    <2> QED BY <2>1, SubmitFits
  <1>7. of \notin Shell
    BY DEF Shell
  <1> HIDE DEF p, of, keys, submit
  <1>8. \A i \in Ids : Fits([Row(updateBoardApiV1BoardsBoardIdPatch(i), keys) EXCEPT
          !.how = {"row", "settled"}], p.at, PageWatches(p))
    BY <1>4, <1>5, <1>7, KeyedFits DEF PageWatches
  <1> QED BY <1>1, <1>6, <1>8 DEF PageOK, p

(* The board with the dialog of a task, which reads runs, silos and spawn requests. *)
LEMMA BoardDetailPageOK ==
  ASSUME NEW b \in Ids PROVE PageOK(BoardDetailPage(b))
  <1> DEFINE p == BoardDetailPage(b)
             of == <<"runs">>
             keys == invalidateExecutionRunViews(b)
  <1>1. /\ p.at = <<"boards", b>>
        /\ p.queries = BoardDetailQueries(b) /\ p.acts = BoardDetailRuns(b)
        /\ p.panel = Ids \X BoardDetailPanel(b)
    BY DEF BoardDetailPage, Page
  <1>2. \A o \in BoardDetailQueries(b) : o.q.of \in {<<"membership">>, <<"tags">>, <<"fields">>}
    BY DEF BoardDetailQueries, useOrganizationMembership, Watch, listTagsApiV1TagsGet,
           listOrgCustomFieldsApiV1OrganizationsMeCustomFieldsGet,
           getMyMembershipApiV1OrganizationsMeMemberGet, List, Read
  <1>3. \A o \in BoardDetailPanel(b) : o.q.of \in {<<"silos">>, <<"runs">>, <<"requests">>}
    BY DEF BoardDetailPanel, Watch, fetchSilos, executionRuns, fetchSiloSpawnRequestsForBoard,
           Custom
  <1>4. \A a \in BoardDetailRuns(b) : Keyed(a, of, keys)
    <2>1. ASSUME NEW i \in Ids
          PROVE  Keyed([Act(dispatchRun(b), i, {"row", "awaits"}) EXCEPT !.keys = keys], of, keys)
      BY DEF Keyed, Act, dispatchRun, Write
    <2>2. \A i : \A w \in RunActions(b, i) : w.id = i /\ w.of = of
      BY DEF RunActions, Write
    <2>3. ASSUME NEW i \in Ids, NEW w \in RunActions(b, i)
          PROVE  Keyed([Row(w, keys) EXCEPT !.how = {"row", "awaits"}], of, keys)
      <3>1. w.id \in Ids /\ w.of = of
        BY <2>2
      <3> QED BY <3>1, RowKeyed
    <2> QED BY <2>1, <2>3 DEF BoardDetailRuns
  <1>5. of \notin Shell /\ \A o \in BoardDetailQueries(b) : o.q.of # of
    BY <1>2 DEF Shell
  <1> HIDE DEF p, of, keys
  <1>6. \A a \in p.acts : Fits(a, p.at, PageWatches(p)) /\ a.drops = {}
    <2> DEFINE shown == BoardDetailQueries(b) \cup DashboardShell(<<"boards", b>>)
    <2>1. \A a \in BoardDetailRuns(b) : Fits(a, <<"boards", b>>, shown) /\ a.drops = {}
      BY <1>4, <1>5, KeyedFits
    <2> QED BY <1>1, <2>1 DEF PageWatches
  <1>7. \A x \in p.panel : x[1] \in Ids /\ x[2].q.of \in {<<"silos">>, <<"runs">>, <<"requests">>}
    BY <1>1, <1>3
  <1>8. \A o \in PageWatches(p) : o.q.of \notin {<<"silos">>, <<"runs">>, <<"requests">>}
    BY <1>1, <1>2, ShellOf DEF PageWatches
  <1> QED BY <1>6, <1>7, <1>8 DEF PageOK, p

(* Switching the organization reloads whatever page is on screen. *)
LEMMA SwitcherFits ==
  \A a \in OrgSwitcher.acts : \A at, watches :
    Fits(a, at, watches) /\ "reload" \in a.how /\ a.drops = {}
  BY DEF OrgSwitcher, Act, Fits, WellFormed, Refetches, NoPush

(* Every page of the site keeps its promises to the cache. *)
LEMMA SiteOK == \A p \in Site \cup {ElsewherePage} : PageOK(p)
  <1>1. \A p \in ListPages : PageOK(p)
    BY IdsAssumption, AgentsPageOK, NewAgentPageOK, BoardsPageOK, NewBoardPageOK,
       BoardGroupsPageOK, NewBoardGroupPageOK, GatewaysPageOK, NewGatewayPageOK, TagsPageOK,
       NewTagPageOK, CustomFieldsPageOK, NewCustomFieldPageOK, SkillsPacksPageOK,
       NewSkillPackPageOK, SkillsMarketplacePageOK, SettingsPageOK, OnboardingPageOK,
       OrganizationPageOK, InvitePageOK, SilosPageOK, SiloRequestsPageOK, DashboardPageOK
       DEF ListPages
  <1>2. \A i \in Ids : \A p \in ItemPages(i) : PageOK(p)
    BY AgentDetailPageOK, EditAgentPageOK, EditBoardPageOK, BoardDetailPageOK,
       BoardApprovalsPanelOK, GlobalApprovalsPageOK, BoardGroupDetailPageOK, EditBoardGroupPageOK, GatewayDetailPageOK,
       EditGatewayPageOK, EditTagPageOK, EditCustomFieldPageOK, EditSkillPackPageOK,
       NewSiloPageOK, SiloDetailPageOK, WebhookPayloadsPageOK DEF ItemPages
  <1>3. PageOK(ElsewherePage)
    BY ReadOnlyPage DEF ElsewherePage
  <1> QED BY <1>1, <1>2, <1>3, SitePages

-----------------------------------------------------------------------------
(* The view of one collection: what its routes show, watch and do. *)

(* A view is made of the pages that concern its collection. *)
LEMMA ViewForm ==
  ASSUME view \in Views
  PROVE  /\ view.home = ViewOf(coll, ElsewherePage)
         /\ view.pages = {ViewOf(coll, p) :
                           p \in {x \in Site : Concerns(coll, x)} \cup {ElsewherePage}}
         /\ view.watches = {o.q : o \in {x \in AllWatches : x.q.of = coll}}
  <1>1. PICK c \in Collections :
          view = [of |-> c, home |-> ViewOf(c, ElsewherePage),
                  pages |-> {ViewOf(c, p) :
                    p \in {x \in Site : Concerns(c, x)} \cup {ElsewherePage}},
                  watches |-> {o.q : o \in {x \in AllWatches : x.q.of = c}}]
    BY DEF Views
  <1>2. /\ view.of = c /\ view.home = ViewOf(c, ElsewherePage)
        /\ view.pages = {ViewOf(c, p) : p \in {x \in Site : Concerns(c, x)} \cup {ElsewherePage}}
        /\ view.watches = {o.q : o \in {x \in AllWatches : x.q.of = c}}
    BY <1>1
  <1> QED BY <1>2 DEF coll

(* A route shows a page of the site, or nothing of the collection. *)
LEMMA PageOfView ==
  ASSUME view \in Views, NEW r
  PROVE  \E p \in Site \cup {ElsewherePage} :
           PageAt(r) = ViewOf(coll, p) /\ (p.at = r \/ p = ElsewherePage)
  <1>1. \A p \in view.pages :
          \E q \in Site \cup {ElsewherePage} : p = ViewOf(coll, q) /\ p.at = q.at
    BY ViewForm DEF ViewOf
  <1> DEFINE at == {p \in view.pages : p.at = r}
  <1>2. CASE at = {}
    BY <1>2, ViewForm DEF PageAt
  <1>3. CASE at # {}
    <2>1. PageAt(r) \in at
      BY <1>3 DEF PageAt
    <2> QED BY <1>1, <2>1
  <1> QED BY <1>2, <1>3

(* The keys of the view are those somebody of the site reads the collection under. *)
LEMMA WatchesOfView ==
  ASSUME view \in Views
  PROVE  Keys = {o.q.key : o \in {x \in AllWatches : x.q.of = coll}}
  BY ViewForm DEF Keys

(* The shell of a page is part of the one shown elsewhere. *)
LEMMA ShellEverywhere == \A at : DashboardShell(at) \subseteq DashboardShell(Elsewhere)
  BY DEF DashboardShell, Elsewhere

(* Where the mutations of the site are. *)
LEMMA InAllActs == \A a : a \in AllActs <=> a \in OrgSwitcher.acts \/ \E p \in Site : a \in p.acts
  <1>1. \A a : a \in UNION {p.acts : p \in Site} <=> \E p \in Site : a \in p.acts
    OBVIOUS
  <1> QED BY <1>1 DEF AllActs

(* Where the reads of the site are. *)
LEMMA InAllWatches ==
  \A o : \/ o \in DashboardShell(Elsewhere)
         \/ \E p \in Site : o \in p.queries \/ o \in {x[2] : x \in p.panel}
         => o \in AllWatches
  <1> DEFINE ofPage(p) == p.queries \cup {x[2] : x \in p.panel}
  <1>1. \A o : (\E p \in Site : o \in ofPage(p)) => o \in UNION {ofPage(p) : p \in Site}
    <2> HIDE DEF ofPage
    <2> QED OBVIOUS
  <1> QED BY <1>1 DEF AllWatches

(* A page as one collection sees it. *)
LEMMA ViewFields ==
  \A c, p : LET v == ViewOf(c, p)
    IN  /\ v.at = p.at
        /\ v.queries = {o \in PageWatches(p) : o.q.of = c}
        /\ v.panel = {x \in p.panel : x[2].q.of = c}
        /\ v.acts = {a \in p.acts \cup OrgSwitcher.acts : a.w.of = c}
  BY DEF ViewOf, PageWatches

(* Elsewhere nothing but the shell is on screen. *)
LEMMA ElsewhereFields ==
  ElsewherePage.acts = {} /\ ElsewherePage.panel = {} /\ ElsewherePage.queries = {}
  /\ ElsewherePage.at = Elsewhere
  BY DEF ElsewherePage, Page

(* Whatever a page of the view watches has an entry in the cache. *)
LEMMA WatchedKeys ==
  ASSUME view \in Views, NEW r, NEW p
  PROVE  /\ Always(r, p) \subseteq WatchedBy(Observers(r, p))
         /\ WatchedBy(Observers(r, p)) \subseteq Keys
         /\ Observers(r, p) \subseteq PageAt(r).queries \cup {x[2] : x \in PageAt(r).panel}
  <1>1. PICK page \in Site \cup {ElsewherePage} : PageAt(r) = ViewOf(coll, page)
    BY PageOfView
  <1>2. \A o \in PageWatches(page) : o \in AllWatches
    <2>1. page.queries \subseteq AllWatches
      BY ElsewhereFields, InAllWatches
    <2>2. DashboardShell(page.at) \subseteq AllWatches
      BY ShellEverywhere, InAllWatches
    <2> QED BY <2>1, <2>2 DEF PageWatches
  <1>3. \A x \in page.panel : x[2] \in AllWatches
    BY ElsewhereFields, InAllWatches
  <1>4. /\ \A o \in PageAt(r).queries : o \in AllWatches /\ o.q.of = coll
        /\ \A x \in PageAt(r).panel : x[2] \in AllWatches /\ x[2].q.of = coll
    BY <1>1, <1>2, <1>3, ViewFields
  <1>5. Observers(r, p) \subseteq PageAt(r).queries \cup {x[2] : x \in PageAt(r).panel}
    BY DEF Observers
  <1>6. WatchedBy(Observers(r, p)) \subseteq Keys
    BY <1>4, <1>5, WatchesOfView DEF WatchedBy
  <1>7. Always(r, p) \subseteq WatchedBy(Observers(r, p))
    BY DEF Always, WatchedBy
  <1> QED BY <1>5, <1>6, <1>7

(* While no dialog is open the page watches its queries and nothing else; a read a *)
(* dialog always makes is of a collection the page does not watch.                 *)
LEMMA PanelWatches ==
  ASSUME view \in Views, NEW r, NEW p
  PROVE  /\ Observers(r, None) \subseteq PageAt(r).queries
         /\ Observers(r, None) \subseteq Observers(r, p)
         /\ \A k \in Always(r, p) :
              k \in Always(r, None) \/ k \notin WatchedBy(Observers(r, None))
  <1>1. PICK page \in Site \cup {ElsewherePage} : PageAt(r) = ViewOf(coll, page)
    BY PageOfView
  <1>2. PageOK(page)
    BY SiteOK
  <1>3. \A x \in page.panel : x[1] \in Ids
    BY <1>2 DEF PageOK
  <1>4. \A x \in PageAt(r).panel : x[1] # None
    BY <1>1, <1>3, ViewFields, IdsAssumption
  <1>5. Observers(r, None) \subseteq PageAt(r).queries
    BY <1>4 DEF Observers
  <1>6. Observers(r, None) \subseteq Observers(r, p)
    BY <1>5 DEF Observers
  <1>7. ASSUME NEW o \in Observers(r, p), "always" \in o.how, o.q.key \notin Always(r, None)
        PROVE  o.q.key \notin WatchedBy(Observers(r, None))
    <2>1. o \notin Observers(r, None)
      BY <1>7 DEF Always, WatchedBy
    <2>2. \E x \in PageAt(r).panel : x[2] = o
      BY <2>1, <1>4 DEF Observers
    <2>3. \A y \in PageWatches(page) : y.q.of # o.q.of
      BY <1>1, <1>2, <1>7, <2>2, ViewFields DEF PageOK
    <2>4. o.q.of = coll
      BY <1>1, <2>2, ViewFields
    <2>5. PageAt(r).queries = {}
      BY <1>1, <2>3, <2>4, ViewFields
    <2> QED BY <1>5, <2>5 DEF WatchedBy
  <1>8. \A k \in Always(r, p) : k \in Always(r, None) \/ k \notin WatchedBy(Observers(r, None))
    BY <1>7 DEF Always, WatchedBy
  <1> QED BY <1>5, <1>6, <1>8

(* Every mutation of the site is well formed. *)
LEMMA ActsKnown == \A a \in AllActs : WellFormed(a)
  BY SiteOK, SwitcherFits, InAllActs DEF PageOK, Fits

(* What the mutations of a page do to what it watches. *)
LEMMA ActsOfPage ==
  ASSUME view \in Views, NEW r, NEW a \in PageAt(r).acts
  PROVE  /\ a \in AllActs /\ a.w.of = coll
         /\ \/ "reload" \in a.how \/ ("awaits" \in a.how /\ a.push # NoPush)
            \/ a.push \notin {NoPush, r}
            \/ \A k \in Always(r, None) : Under(k, a.keys)
         /\ a.drops # {} => /\ a.drops \subseteq Keys
                            /\ \A p : WatchedBy(Observers(r, p)) \subseteq a.drops
  <1>1. PICK page \in Site \cup {ElsewherePage} :
          PageAt(r) = ViewOf(coll, page) /\ (page.at = r \/ page = ElsewherePage)
    BY PageOfView
  <1>2. PageOK(page)
    BY SiteOK
  <1>3. a \in page.acts \cup OrgSwitcher.acts /\ a.w.of = coll
    BY <1>1, ViewFields
  <1>4. a \in AllActs
    BY <1>3, ElsewhereFields, InAllActs
  <1>5. CASE a \in OrgSwitcher.acts
    BY <1>3, <1>4, <1>5, SwitcherFits
  <1>6. CASE a \in page.acts
    <2>1. page.at = r /\ Fits(a, r, PageWatches(page))
      BY <1>1, <1>2, <1>6, ElsewhereFields DEF PageOK
    <2>2. /\ PageAt(r).queries \subseteq PageWatches(page)
          /\ \A o \in PageAt(r).queries : o.q.of = coll
      BY <1>1, ViewFields
    <2>3. ASSUME NEW k \in Always(r, None)
          PROVE  \E o \in PageAt(r).queries : o.q.key = k /\ "always" \in o.how
      BY PanelWatches DEF Always, WatchedBy
    <2>4. \/ "reload" \in a.how \/ ("awaits" \in a.how /\ a.push # NoPush)
          \/ a.push \notin {NoPush, r}
          \/ \A k \in Always(r, None) : Under(k, a.keys)
      BY <1>3, <2>1, <2>2, <2>3 DEF Fits, Refetches
    <2>5. ASSUME a.drops # {}
          PROVE  /\ a.drops \subseteq Keys
                 /\ \A p : WatchedBy(Observers(r, p)) \subseteq a.drops
      <3>1. Edits(a, PageWatches(page)) /\ page.panel = {}
        BY <1>2, <1>6, <2>1, <2>5 DEF PageOK, Fits
      <3>2. PageAt(r).panel = {}
        BY <1>1, <3>1, ViewFields
      <3>3. \A o \in PageAt(r).queries : o.q.key \in a.drops
        BY <1>3, <2>2, <3>1 DEF Edits
      <3>4. \A p : WatchedBy(Observers(r, p)) \subseteq a.drops
        BY <3>2, <3>3, WatchedKeys DEF WatchedBy
      <3>5. \A o \in PageWatches(page) : o.q.of = coll => o.q.key \in Keys
        <4>1. \A o \in PageWatches(page) : o \in AllWatches
          BY ElsewhereFields, ShellEverywhere, InAllWatches DEF PageWatches
        <4> QED BY <4>1, WatchesOfView
      <3>6. a.drops \subseteq Keys
        BY <1>3, <3>1, <3>5 DEF Edits
      <3> QED BY <3>4, <3>6
    <2> QED BY <1>3, <1>4, <2>4, <2>5
  <1> QED BY <1>3, <1>5, <1>6

-----------------------------------------------------------------------------
(* The inductive invariant. *)

(* The entries of the cache, what a mutation remembers of them, and mutations. *)
CacheEntry ==
  [has : BOOLEAN, data : [Ids -> Row_], ans : [Ids -> Row_],
   st : {"idle", "sent", "answered", "partial"}, invalid : BOOLEAN, failed : BOOLEAN,
   partial : BOOLEAN, edited : BOOLEAN, late : BOOLEAN, missed : BOOLEAN]
Snapshots == UNION {[ks -> CacheEntry] : ks \in SUBSET Keys}
Mutation ==
  [n : Nat, a : AllActs, from : Routes, st : {"sent", "applied", "refused", "refetching"},
   v : 0..WritesBound, live : BOOLEAN, called : BOOLEAN, prev : Snapshots]

(* What is chosen at the start, and the types. *)
Fixed == view \in Views /\ coll[1] \in Followed /\ admin \in BOOLEAN
Typed ==
  /\ Fixed
  /\ route \in Routes /\ panel \in Ids \cup {None}
  /\ server \in [Ids -> Row_]
  /\ cache \in [Keys -> CacheEntry]
  /\ muts \subseteq Mutation
  /\ acked \in [Ids -> Nat] /\ due \in [Keys -> [Ids -> Nat]]
  /\ writes \in Nat /\ faults \in Nat

(* A mutation in flight remembers where it was made and what it replaced. *)
Made ==
  \A m \in muts :
    /\ DOMAIN m.prev = m.a.drops
    /\ m.a \in PageAt(m.from).acts
    /\ m.st = "refetching" => Waits(m)

(* Versions only grow: nothing is ahead of the server. *)
Backed ==
  /\ \A i \in Ids : acked[i] <= server[i].v /\ \A k \in Keys : due[k][i] <= server[i].v
  /\ \A m \in muts : m.st \in {"applied", "refetching"} => 0 < m.v /\ m.v <= server[m.a.item].v

(* Every version has a write of its own. *)
Sent(ms) == {m.n : m \in {x \in ms : x.st = "sent"}}
Counted ==
  /\ writes <= WritesBound
  /\ \A m \in muts : m.n < writes
  /\ \A m, o \in muts : m.n = o.n => m = o
  /\ \A i \in Ids : server[i].v + Cardinality(Sent(muts)) <= writes

(* A mutation that edited k has not settled. *)
Pending(k, ms) == \E m \in ms : Under(k, m.a.drops)

(* An entry that is marked for a refetch and, on screen, being read or failed. *)
Settling(e, watched) ==
  /\ e.has
  /\ e.invalid /\ (watched => e.st # "idle" \/ e.failed)

(* What was edited ahead of an answer: a mutation still owes the refetch, or the entry *)
(* is settling.                                                                        *)
NoGhosts(c, ms, watched) ==
  \A k \in Keys : c[k].edited => c[k].has /\ (Pending(k, ms) \/ Settling(c[k], k \in watched))
GhostInv == NoGhosts(cache, muts, Watched)

(* What is at rest, or answered and not overtaken, reflects what is due. *)
EntryFresh(e, d) ==
  /\ /\ e.has /\ e.st = "idle" /\ ~e.failed /\ ~e.late /\ ~e.edited
     /\ ~e.missed /\ ~e.partial
     => \A i \in Ids : e.data[i].v >= d[i]
  /\ e.st = "answered" /\ ~e.late /\ ~e.missed => \A i \in Ids : e.ans[i].v >= d[i]
FreshInv == \A k \in Always(route, panel) : EntryFresh(cache[k], due[k])

(* The invariant: each part is needed to keep the next ones. *)
IInv == Typed /\ Made /\ Backed /\ Counted /\ GhostInv /\ FreshInv

-----------------------------------------------------------------------------
(* Cache entries. *)

(* The bound on writes is a number. *)
LEMMA BoundNat == WritesBound \in Nat
  BY LimitsAssumption DEF WritesBound, OneMore

(* An entry nobody has read. *)
LEMMA RowTypes ==
  /\ Absent \in [Ids -> Row_] /\ NoEntry \in CacheEntry
  /\ ~NoEntry.has /\ ~NoEntry.edited /\ NoEntry.st = "idle"
  BY BoundNat DEF Absent, Row_, NoEntry, CacheEntry

(* A read that starts is not overtaken by anything. *)
LEMMA FetchEntry ==
  ASSUME NEW e \in CacheEntry
  PROVE  /\ Fetch(e) \in CacheEntry
         /\ Fetch(e).st = "sent" /\ Fetch(e).has = e.has /\ Fetch(e).edited = e.edited
         /\ Fetch(e).invalid = e.invalid /\ Fetch(e).failed = e.failed
         /\ \A d : EntryFresh(Fetch(e), d)
  BY RowTypes DEF Fetch, CacheEntry, EntryFresh

(* Cancelling a read keeps the data and its marks. *)
LEMMA CancelEntry ==
  ASSUME NEW e \in CacheEntry
  PROVE  /\ Cancel(e) \in CacheEntry
         /\ Cancel(e).st = "idle" /\ Cancel(e).has = e.has /\ Cancel(e).edited = e.edited
         /\ Cancel(e).invalid = e.invalid /\ Cancel(e).failed = e.failed
         /\ Cancel(e).data = e.data
  BY RowTypes DEF Cancel, CacheEntry

(* setQueryData removes the mark of a refetch and leaves a read alone. *)
LEMMA SetDataEntry ==
  ASSUME NEW e \in CacheEntry, NEW d \in [Ids -> Row_]
  PROVE  /\ SetData(e, d) \in CacheEntry
         /\ SetData(e, d).has /\ SetData(e, d).data = d /\ ~SetData(e, d).invalid
         /\ SetData(e, d).edited = e.edited /\ SetData(e, d).st = e.st
         /\ SetData(e, d).failed = e.failed /\ SetData(e, d).late = e.late
         /\ SetData(e, d).missed = e.missed /\ SetData(e, d).partial = e.partial
         /\ SetData(e, d).ans = e.ans
  BY DEF SetData, CacheEntry

(* Mounting a query reads a marked entry again, and any entry if it is eager. *)
LEMMA MountOfEntry ==
  ASSUME NEW e \in CacheEntry, NEW eager \in BOOLEAN
  PROVE  /\ MountEntry(e, eager) \in CacheEntry
         /\ MountEntry(e, eager).has = e.has /\ MountEntry(e, eager).edited = e.edited
         /\ MountEntry(e, eager).invalid = e.invalid
         /\ e.invalid => MountEntry(e, eager).st # "idle"
         /\ eager => \A d : EntryFresh(MountEntry(e, eager), d)
  <1>1. CASE e.st # "idle"
    <2>1. MountEntry(e, eager) = [e EXCEPT !.late = TRUE]
      BY <1>1 DEF MountEntry
    <2> QED BY <1>1, <2>1 DEF CacheEntry, EntryFresh
  <1>2. CASE e.st = "idle" /\ (eager \/ ~e.has \/ e.invalid)
    BY <1>2, FetchEntry DEF MountEntry
  <1>3. CASE e.st = "idle" /\ ~(eager \/ ~e.has \/ e.invalid)
    BY <1>3 DEF MountEntry
  <1> QED BY <1>1, <1>2, <1>3

(* Invalidation settles an entry; whoever watches it gets a read that started later or *)
(* is known to be late.                                                                *)
LEMMA InvalidateOfEntry ==
  ASSUME NEW e \in CacheEntry, NEW watched \in BOOLEAN
  PROVE  /\ InvalidateEntry(e, watched) \in CacheEntry
         /\ InvalidateEntry(e, watched).has = e.has
         /\ InvalidateEntry(e, watched).edited = e.edited
         /\ e.has => Settling(InvalidateEntry(e, watched), watched)
         /\ watched => \A d : EntryFresh(InvalidateEntry(e, watched), d)
  <1>1. CASE ~e.has /\ e.st # "idle"
    <2>1. InvalidateEntry(e, watched) = [e EXCEPT !.invalid = TRUE, !.late = TRUE]
      BY <1>1 DEF InvalidateEntry
    <2> QED BY <1>1, <2>1 DEF CacheEntry, EntryFresh
  <1>2. CASE ~(~e.has /\ e.st # "idle") /\ watched
    <2> DEFINE x == [e EXCEPT !.invalid = TRUE]
    <2>1. InvalidateEntry(e, watched) = Fetch(x)
      BY <1>2 DEF InvalidateEntry
    <2>2. x \in CacheEntry /\ x.has = e.has /\ x.edited = e.edited /\ x.invalid
      BY DEF CacheEntry
    <2> HIDE DEF x
    <2> QED BY <2>1, <2>2, FetchEntry DEF Settling
  <1>3. CASE e.has /\ ~watched
    <2>1. InvalidateEntry(e, watched) = [e EXCEPT !.invalid = TRUE, !.late = @ \/ e.st # "idle"]
      BY <1>3 DEF InvalidateEntry
    <2> QED BY <1>3, <2>1 DEF CacheEntry, Settling
  <1>4. CASE ~e.has /\ e.st = "idle" /\ ~watched
    BY <1>4 DEF InvalidateEntry
  <1> QED BY <1>1, <1>2, <1>3, <1>4

(* Leaving a query may abort its read. *)
LEMMA UnmountOfEntry ==
  ASSUME NEW k, NEW e \in CacheEntry
  PROVE  /\ UnmountEntry(k, e) \in CacheEntry
         /\ UnmountEntry(k, e).has = e.has /\ UnmountEntry(k, e).edited = e.edited
         /\ UnmountEntry(k, e).invalid = e.invalid
  BY CancelEntry DEF UnmountEntry

-----------------------------------------------------------------------------
(* Steps that keep the view. *)

(* The parts of the view and of the page on screen, after the step. *)
LEMMA Frame ==
  ASSUME view' = view, admin' = admin
  PROVE  /\ Keys' = Keys /\ Row_' = Row_ /\ CacheEntry' = CacheEntry /\ Mutation' = Mutation
         /\ WritesBound' = WritesBound /\ coll' = coll
         /\ Fixed' = Fixed
         /\ Watched' = WatchedBy(Observers(route', panel'))
         /\ Always(route, panel)' = Always(route', panel')
         /\ Acts' = PageAt(route').acts
         /\ GhostInv' = NoGhosts(cache', muts', WatchedBy(Observers(route', panel')))
         /\ FreshInv' = \A k \in Always(route', panel') : EntryFresh(cache'[k], due'[k])
  <1>1. Keys' = Keys /\ coll' = coll
    BY DEF Keys, coll
  <1>2. WritesBound' = WritesBound
    BY DEF WritesBound, OneMore, coll
  <1>3. Row_' = Row_
    BY <1>2 DEF Row_
  <1>4. CacheEntry' = CacheEntry
    BY <1>3 DEF CacheEntry
  <1>5. Snapshots' = Snapshots
    BY <1>1, <1>4 DEF Snapshots
  <1>6. Mutation' = Mutation
    BY <1>2, <1>5 DEF Mutation
  <1>7. Fixed' = Fixed
    BY <1>1 DEF Fixed
  <1>8. Watched' = WatchedBy(Observers(route', panel'))
    BY DEF Watched, WatchedBy, Observers, PageAt
  <1>9. Always(route, panel)' = Always(route', panel')
    BY DEF Always, WatchedBy, Observers, PageAt
  <1>10. Acts' = PageAt(route').acts
    BY DEF Acts, PageAt
  <1>11. GhostInv' = NoGhosts(cache', muts', WatchedBy(Observers(route', panel')))
    BY <1>1, <1>8 DEF GhostInv, NoGhosts, Pending, Settling
  <1>12. FreshInv' = \A k \in Always(route', panel') : EntryFresh(cache'[k], due'[k])
    BY <1>9 DEF FreshInv, EntryFresh
  <1> QED BY <1>1, <1>2, <1>3, <1>4, <1>6, <1>7, <1>8, <1>9, <1>10, <1>11, <1>12

(* The page on screen, before it. *)
LEMMA OldFrame ==
  /\ Watched = WatchedBy(Observers(route, panel))
  /\ Acts = PageAt(route).acts
  BY DEF Watched, Acts

-----------------------------------------------------------------------------
(* Whole caches: showing a page, invalidating keys. *)

(* Showing a page keeps every entry well formed and settling; it marks or reads again *)
(* whatever comes on screen and is eager.                                             *)
LEMMA ShowKeeps ==
  ASSUME view \in Views, NEW c \in [Keys -> CacheEntry], NEW r, NEW p, NEW ms,
         NoGhosts(c, ms, Watched), NEW collected \in SUBSET Coming(r, p), NEW eager,
         cache' = Show(c, r, p, collected, eager)
  PROVE  /\ cache' \in [Keys -> CacheEntry]
         /\ NoGhosts(cache', ms, WatchedBy(Observers(r, p)))
         /\ \A k \in WatchedBy(Observers(r, p)) \cap eager :
              \/ r = route /\ k \in Watched /\ cache'[k] = c[k]
              \/ \A d : EntryFresh(cache'[k], d)
  <1> DEFINE now == WatchedBy(Observers(r, p))
  <1>0. cache' = Show(c, r, p, collected, eager) /\ collected \subseteq Coming(r, p)
    OBVIOUS
  <1> DEFINE before(k) == IF k \in collected THEN NoEntry
                          ELSE IF k \in Leaving(r, p) THEN UnmountEntry(k, c[k]) ELSE c[k]
  <1>1. \A k \in Keys :
          cache'[k] = IF k \in Coming(r, p)
                      THEN MountEntry(before(k), k \in eager)
                      ELSE before(k)
    BY <1>0 DEF Show
  <1>2. \A k \in Keys :
          /\ before(k) \in CacheEntry
          /\ before(k).edited => /\ before(k).has = c[k].has /\ c[k].edited
                                 /\ before(k).invalid = c[k].invalid
    BY UnmountOfEntry, RowTypes
  <1>3. cache' \in [Keys -> CacheEntry]
    <2>1. \A k \in Keys : cache'[k] \in CacheEntry
      <3> SUFFICES ASSUME NEW k \in Keys PROVE cache'[k] \in CacheEntry
        OBVIOUS
      <3> DEFINE now_ == k \in eager
      <3>1. MountEntry(before(k), now_) \in CacheEntry
        <4>1. now_ \in BOOLEAN /\ before(k) \in CacheEntry
          BY <1>2
        <4> HIDE DEF now_, before
        <4> QED BY <4>1, MountOfEntry
      <3> QED BY <1>1, <1>2, <3>1
    <2>2. cache' = [k \in Keys |-> cache'[k]]
      BY <1>0 DEF Show
    <2> QED BY <2>1, <2>2
  <1>4. ASSUME NEW k \in Keys, cache'[k].edited
        PROVE  cache'[k].has /\ (Pending(k, ms) \/ Settling(cache'[k], k \in now))
    <2>1. CASE k \in Coming(r, p)
      <3>1. /\ cache'[k].has = before(k).has /\ before(k).edited
            /\ cache'[k].invalid = before(k).invalid
            /\ cache'[k].invalid => cache'[k].st # "idle"
        <4> DEFINE now_ == k \in eager
        <4>1. /\ cache'[k] = MountEntry(before(k), now_)
              /\ before(k) \in CacheEntry /\ now_ \in BOOLEAN
          BY <1>1, <1>2, <2>1
        <4> HIDE DEF now_, before
        <4>2. /\ MountEntry(before(k), now_).has = before(k).has
              /\ MountEntry(before(k), now_).edited = before(k).edited
              /\ MountEntry(before(k), now_).invalid = before(k).invalid
              /\ before(k).invalid => MountEntry(before(k), now_).st # "idle"
          BY <4>1, MountOfEntry
        <4> QED BY <4>1, <4>2, <1>4
      <3>2. c[k].edited /\ cache'[k].has = c[k].has /\ cache'[k].invalid = c[k].invalid
        BY <3>1, <1>2
      <3> QED BY <3>1, <3>2 DEF NoGhosts, Settling
    <2>2. CASE k \notin Coming(r, p)
      <3>1. cache'[k] = before(k)
        BY <1>1, <2>2
      <3>2. c[k].edited /\ cache'[k].has = c[k].has /\ cache'[k].invalid = c[k].invalid
        BY <3>1, <1>2, <1>4
      <3>3. k \in now => k \in Watched /\ cache'[k] = c[k]
        BY <1>0, <2>2, <3>1 DEF Coming, Leaving
      <3> QED BY <3>2, <3>3 DEF NoGhosts, Settling
    <2> QED BY <2>1, <2>2
  <1>5. ASSUME NEW k \in now \cap eager
        PROVE  \/ r = route /\ k \in Watched /\ cache'[k] = c[k]
               \/ \A d : EntryFresh(cache'[k], d)
    <2>0. k \in now /\ k \in Keys
      BY WatchedKeys
    <2>1. CASE k \in Coming(r, p)
      <3>1. cache'[k] = MountEntry(before(k), k \in eager)
        BY <1>1, <2>0, <2>1
      <3>2. (k \in eager) = TRUE
        OBVIOUS
      <3>3. cache'[k] = MountEntry(before(k), TRUE) /\ before(k) \in CacheEntry
        BY <1>2, <2>0, <3>1, <3>2
      <3> HIDE DEF before
      <3> QED BY <3>3, MountOfEntry
    <2>2. CASE k \notin Coming(r, p)
      BY <1>0, <1>1, <2>0, <2>2 DEF Coming, Leaving
    <2> QED BY <2>1, <2>2
  <1>6. NoGhosts(cache', ms, now)
    BY <1>4 DEF NoGhosts
  <1> QED BY <1>3, <1>5, <1>6

(* A mount, or a dialog that opens, is eager for whatever is always refetched. *)
LEMMA ShowsKeeps ==
  ASSUME view \in Views, NEW c \in [Keys -> CacheEntry], NEW r, NEW p, NEW ms,
         NoGhosts(c, ms, Watched), Shows(c, r, p)
  PROVE  /\ cache' \in [Keys -> CacheEntry]
         /\ NoGhosts(cache', ms, WatchedBy(Observers(r, p)))
         /\ \A k \in Always(r, p) :
              \/ r = route /\ k \in Watched /\ cache'[k] = c[k]
              \/ \A d : EntryFresh(cache'[k], d)
  <1>1. PICK collected \in SUBSET Coming(r, p), stale \in SUBSET Coming(r, p) :
          cache' = Show(c, r, p, collected, Always(r, p) \cup stale)
    BY DEF Shows, Collectable
  <1>2. Always(r, p) \subseteq WatchedBy(Observers(r, p)) \cap (Always(r, p) \cup stale)
    BY WatchedKeys
  <1> QED BY <1>1, <1>2, ShowKeeps

(* invalidateQueries settles every entry under the keys and leaves the others alone. *)
LEMMA InvalidateKeeps ==
  ASSUME NEW c \in [Keys -> CacheEntry], NEW ks
  PROVE  /\ Invalidate(c, ks) \in [Keys -> CacheEntry]
         /\ \A k \in Keys : ~Under(k, ks) => Invalidate(c, ks)[k] = c[k]
         /\ \A k \in Keys : Under(k, ks) => /\ Invalidate(c, ks)[k].has = c[k].has
                                           /\ Invalidate(c, ks)[k].edited = c[k].edited
         /\ \A k \in Keys : Under(k, ks) /\ c[k].has =>
                             Settling(Invalidate(c, ks)[k], k \in Watched)
         /\ \A k \in Keys : Under(k, ks) /\ k \in Watched =>
                             \A d : EntryFresh(Invalidate(c, ks)[k], d)
  <1> DEFINE s == Invalidate(c, ks)
  <1>1. s = [k \in Keys |-> IF Under(k, ks) THEN InvalidateEntry(c[k], k \in Watched) ELSE c[k]]
    BY DEF Invalidate
  <1>2. ASSUME NEW k \in Keys
        PROVE  /\ s[k] \in CacheEntry
               /\ ~Under(k, ks) => s[k] = c[k]
               /\ Under(k, ks) => /\ s[k].has = c[k].has /\ s[k].edited = c[k].edited
                                  /\ c[k].has => Settling(s[k], k \in Watched)
                                  /\ k \in Watched => \A d : EntryFresh(s[k], d)
    <2>1. s[k] = IF Under(k, ks) THEN InvalidateEntry(c[k], k \in Watched) ELSE c[k]
      BY <1>1
    <2> HIDE DEF s
    <2> DEFINE on == k \in Watched
               one == InvalidateEntry(c[k], on)
    <2>2. on \in BOOLEAN /\ c[k] \in CacheEntry
      OBVIOUS
    <2>3. /\ one \in CacheEntry /\ one.has = c[k].has /\ one.edited = c[k].edited
          /\ c[k].has => Settling(one, on)
          /\ on => \A d : EntryFresh(one, d)
      <3> HIDE DEF on
      <3> QED BY <2>2, InvalidateOfEntry
    <2>4. CASE Under(k, ks)
      <3>1. s[k] = one
        BY <2>1, <2>4
      <3> HIDE DEF one
      <3> QED BY <2>3, <2>4, <3>1
    <2>5. CASE ~Under(k, ks)
      <3>1. s[k] = c[k]
        BY <2>1, <2>5
      <3> QED BY <2>2, <2>5, <3>1
    <2> QED BY <2>4, <2>5
  <1> HIDE DEF s
  <1>3. s \in [Keys -> CacheEntry]
    BY <1>1, <1>2
  <1>4. \A k \in Keys : Under(k, ks) /\ k \in Watched => \A d : EntryFresh(s[k], d)
    BY <1>2
  <1>5. \A k \in Keys : Under(k, ks) /\ c[k].has => Settling(s[k], k \in Watched)
    BY <1>2
  <1>6. \A k \in Keys : ~Under(k, ks) => s[k] = c[k]
    BY <1>2
  <1>7. \A k \in Keys : Under(k, ks) => s[k].has = c[k].has /\ s[k].edited = c[k].edited
    BY <1>2
  <1> QED BY <1>3, <1>4, <1>5, <1>6, <1>7 DEF s

(* Once the answer of m has invalidated all that m edited, nothing waits for m. *)
LEMMA AnswerSettles ==
  ASSUME NEW c \in [Keys -> CacheEntry], NEW ks, NEW ms, NEW m \in ms,
         NEW d \in [Keys -> CacheEntry],
         NoGhosts(d, ms, Watched), \A k \in Keys : Under(k, m.a.drops) => Under(k, ks),
         \A k \in Keys : ~Under(k, ks) => c[k] = d[k],
         \A k \in Keys : c[k].edited => c[k].has
  PROVE  NoGhosts(Invalidate(c, ks), ms \ {m}, Watched)
  <1> DEFINE s == Invalidate(c, ks)
  <1> SUFFICES ASSUME NEW k \in Keys, s[k].edited
               PROVE  s[k].has /\ (Pending(k, ms \ {m}) \/ Settling(s[k], k \in Watched))
    BY DEF NoGhosts
  <1>1. CASE Under(k, ks)
    BY <1>1, InvalidateKeeps
  <1>2. CASE ~Under(k, ks)
    <2>1. s[k] = d[k]
      BY <1>2, InvalidateKeeps
    <2>2. Pending(k, ms) => Pending(k, ms \ {m})
      BY <1>2 DEF Pending
    <2> QED BY <2>1, <2>2 DEF NoGhosts
  <1> QED BY <1>1, <1>2

(* What the parts of the invariant say after a step. *)
LEMMA Primed ==
  ASSUME Fixed, view' = view, admin' = admin
  PROVE  /\ Typed' <=> /\ route' \in Routes /\ panel' \in Ids \cup {None}
                       /\ server' \in [Ids -> Row_]
                       /\ cache' \in [Keys -> CacheEntry]
                       /\ muts' \subseteq Mutation
                       /\ acked' \in [Ids -> Nat] /\ due' \in [Keys -> [Ids -> Nat]]
                       /\ writes' \in Nat /\ faults' \in Nat
         /\ Made' <=> \A m \in muts' : /\ DOMAIN m.prev = m.a.drops
                                       /\ m.a \in PageAt(m.from).acts
                                       /\ m.st = "refetching" => Waits(m)
         /\ Backed' <=> /\ \A i \in Ids : /\ acked'[i] <= server'[i].v
                                          /\ \A k \in Keys : due'[k][i] <= server'[i].v
                        /\ \A m \in muts' : m.st \in {"applied", "refetching"} =>
                                              0 < m.v /\ m.v <= server'[m.a.item].v
         /\ Counted' <=> /\ writes' <= WritesBound
                         /\ \A m \in muts' : m.n < writes'
                         /\ \A m, o \in muts' : m.n = o.n => m = o
                         /\ \A i \in Ids : server'[i].v + Cardinality(Sent(muts')) <= writes'
         /\ GhostInv' <=> NoGhosts(cache', muts', WatchedBy(Observers(route', panel')))
         /\ FreshInv' <=> \A k \in Always(route', panel') : EntryFresh(cache'[k], due'[k])
  <1>1. Typed' <=> /\ route' \in Routes /\ panel' \in Ids \cup {None}
                   /\ server' \in [Ids -> Row_]
                   /\ cache' \in [Keys -> CacheEntry]
                   /\ muts' \subseteq Mutation
                   /\ acked' \in [Ids -> Nat] /\ due' \in [Keys -> [Ids -> Nat]]
                   /\ writes' \in Nat /\ faults' \in Nat
    BY Frame DEF Typed
  <1>2. Made' <=> \A m \in muts' : /\ DOMAIN m.prev = m.a.drops
                                   /\ m.a \in PageAt(m.from).acts
                                   /\ m.st = "refetching" => Waits(m)
    BY Frame DEF Made, PageAt
  <1>3. Backed' <=> /\ \A i \in Ids : /\ acked'[i] <= server'[i].v
                                      /\ \A k \in Keys : due'[k][i] <= server'[i].v
                    /\ \A m \in muts' : m.st \in {"applied", "refetching"} =>
                                          0 < m.v /\ m.v <= server'[m.a.item].v
    BY Frame DEF Backed
  <1>4. Sent(muts)' = Sent(muts')
    BY DEF Sent
  <1>5. Counted' <=> /\ writes' <= WritesBound
                     /\ \A m \in muts' : m.n < writes'
                     /\ \A m, o \in muts' : m.n = o.n => m = o
                     /\ \A i \in Ids : server'[i].v + Cardinality(Sent(muts')) <= writes'
    BY Frame, <1>4 DEF Counted
  <1> QED BY Frame, <1>1, <1>2, <1>3, <1>5

(* The writes still on their way are counted. *)
LEMMA SentCounts ==
  ASSUME Typed, Counted
  PROVE  /\ IsFiniteSet(Sent(muts)) /\ Cardinality(Sent(muts)) \in Nat
         /\ \A i \in Ids : server[i].v \in Nat /\ server[i].v <= writes
  <1>1. Sent(muts) \subseteq 0..(writes - 1)
    BY DEF Sent, Typed, Counted, Mutation
  <1>2. IsFiniteSet(0..(writes - 1))
    BY FS_Interval DEF Typed
  <1>3. IsFiniteSet(Sent(muts)) /\ Cardinality(Sent(muts)) \in Nat
    BY <1>1, <1>2, FS_Subset, FS_CardinalityType
  <1>4. \A i \in Ids : server[i].v \in Nat
    BY BoundNat DEF Typed, Row_
  <1> QED BY <1>3, <1>4 DEF Typed, Counted

-----------------------------------------------------------------------------
(* Reads. *)

(* A step of one read keeps the invariant when the entry it leaves is settling if it *)
(* was edited ahead, and fresh if the page always reads it.                          *)
LEMMA EntryKeeps ==
  ASSUME IInv, NEW k \in Keys, NEW e \in CacheEntry, Entry(k, e), faults' \in Nat,
         e.edited => e.has /\ (Pending(k, muts) \/ Settling(e, k \in Watched)),
         k \in Always(route, panel) => EntryFresh(e, due[k])
  PROVE  IInv'
  <1>1. /\ view' = view /\ admin' = admin /\ route' = route /\ panel' = panel
        /\ server' = server /\ muts' = muts /\ acked' = acked /\ due' = due /\ writes' = writes
        /\ cache' = [cache EXCEPT ![k] = e]
    BY DEF Entry, tab
  <1>2. Fixed /\ cache \in [Keys -> CacheEntry]
    BY DEF IInv, Typed
  <1>3. Typed'
    BY <1>1, <1>2, Primed DEF IInv, Typed
  <1>4. Made' /\ Backed' /\ Counted'
    BY <1>1, <1>2, Primed DEF IInv, Made, Backed, Counted, Acts
  <1>5. \A x \in Keys : cache'[x] = IF x = k THEN e ELSE cache[x]
    BY <1>1, <1>2
  <1>6. NoGhosts(cache', muts, Watched)
    BY <1>5 DEF NoGhosts, GhostInv, IInv
  <1>7. GhostInv'
    BY <1>1, <1>2, <1>6, Primed, OldFrame
  <1>8. Always(route, panel) \subseteq Keys
    BY <1>2, WatchedKeys DEF Fixed
  <1>9. FreshInv'
    BY <1>1, <1>2, <1>5, <1>8, Primed DEF FreshInv, IInv
  <1> QED BY <1>3, <1>4, <1>7, <1>9 DEF IInv

(* The server answers a read with the rows of that moment. *)
LEMMA AnswerKeeps == ASSUME IInv, NEW k \in Keys, Answer(k) PROVE IInv'
  <1> DEFINE c == cache[k]
             e == [c EXCEPT !.st = "answered", !.ans = server]
  <1>1. c \in CacheEntry /\ faults' = faults /\ faults \in Nat
    BY DEF IInv, Typed, Answer
  <1>2. /\ e \in CacheEntry /\ e.st = "answered" /\ e.ans = server
        /\ e.has = c.has /\ e.edited = c.edited /\ e.invalid = c.invalid /\ e.failed = c.failed
    BY <1>1 DEF CacheEntry, IInv, Typed
  <1>3. EntryFresh(e, due[k])
    BY <1>2 DEF EntryFresh, IInv, Backed
  <1>4. Entry(k, e)
    BY DEF Answer
  <1>5. e.edited => e.has /\ (Pending(k, muts) \/ Settling(e, k \in Watched))
    BY <1>2 DEF IInv, GhostInv, NoGhosts, Settling
  <1> HIDE DEF c, e
  <1> QED BY <1>1, <1>2, <1>3, <1>4, <1>5, EntryKeeps

(* The read is answered without the board of the collection. *)
LEMMA AnswerInPartKeeps == ASSUME IInv, NEW k \in Keys, AnswerInPart(k) PROVE IInv'
  <1> DEFINE c == cache[k]
             e == [c EXCEPT !.st = "partial"]
  <1>1. c \in CacheEntry /\ faults' \in Nat
    BY DEF IInv, Typed, AnswerInPart
  <1>2. /\ e \in CacheEntry /\ e.st = "partial"
        /\ e.has = c.has /\ e.edited = c.edited /\ e.invalid = c.invalid /\ e.failed = c.failed
    BY <1>1 DEF CacheEntry
  <1>3. EntryFresh(e, due[k])
    BY <1>2 DEF EntryFresh
  <1>4. Entry(k, e)
    BY DEF AnswerInPart
  <1>5. e.edited => e.has /\ (Pending(k, muts) \/ Settling(e, k \in Watched))
    BY <1>2 DEF IInv, GhostInv, NoGhosts, Settling
  <1> HIDE DEF c, e
  <1> QED BY <1>1, <1>2, <1>3, <1>4, <1>5, EntryKeeps

(* The answer becomes the data: what was edited ahead is replaced. *)
LEMMA DeliverKeeps == ASSUME IInv, NEW k \in Keys, Deliver(k) PROVE IInv'
  <1> DEFINE c == cache[k]
             x == SetData(Cancel(c), c.ans)
             e == [x EXCEPT !.failed = FALSE, !.edited = FALSE, !.partial = c.st = "partial"]
  <1>1. c \in CacheEntry /\ faults' = faults /\ faults \in Nat /\ c.st \in {"answered", "partial"}
    BY DEF IInv, Typed, Deliver
  <1>2. /\ x \in CacheEntry /\ x.st = "idle" /\ x.data = c.ans
        /\ x.late = Cancel(c).late /\ x.missed = Cancel(c).missed
    BY <1>1, CancelEntry, SetDataEntry DEF CacheEntry
  <1>3. Cancel(c).late = c.late /\ Cancel(c).missed = c.missed
    BY <1>1 DEF Cancel, CacheEntry
  <1>4. Entry(k, e)
    BY DEF Deliver
  <1> HIDE DEF x
  <1>5. /\ e \in CacheEntry /\ ~e.edited /\ e.st = "idle" /\ e.data = c.ans
        /\ e.late = c.late /\ e.missed = c.missed /\ e.partial = (c.st = "partial")
    BY <1>2, <1>3 DEF CacheEntry
  <1>6. k \in Always(route, panel) => EntryFresh(e, due[k])
    BY <1>1, <1>5 DEF EntryFresh, IInv, FreshInv
  <1> HIDE DEF c, e
  <1> QED BY <1>1, <1>4, <1>5, <1>6, EntryKeeps

(* A read that fails keeps its data and is marked. *)
LEMMA FailReadKeeps == ASSUME IInv, NEW k \in Keys, FailRead(k) PROVE IInv'
  <1> DEFINE c == cache[k]
             x == Cancel(c)
             e == [x EXCEPT !.failed = TRUE, !.invalid = TRUE]
  <1>1. c \in CacheEntry /\ faults' \in Nat
    BY DEF IInv, Typed, FailRead
  <1>2. Entry(k, e)
    BY DEF FailRead
  <1>3. /\ e \in CacheEntry /\ e.failed /\ e.invalid /\ e.st = "idle"
        /\ e.has = c.has /\ e.edited = c.edited
    <2>1. x \in CacheEntry /\ x.st = "idle" /\ x.has = c.has /\ x.edited = c.edited
      BY <1>1, CancelEntry
    <2> HIDE DEF x
    <2> QED BY <2>1 DEF CacheEntry
  <1>4. EntryFresh(e, due[k])
    BY <1>3 DEF EntryFresh
  <1>5. e.edited => e.has /\ Settling(e, k \in Watched)
    BY <1>3 DEF IInv, GhostInv, NoGhosts, Settling
  <1> HIDE DEF c, e
  <1> QED BY <1>1, <1>2, <1>3, <1>4, <1>5, EntryKeeps

(* A poll, or the window in focus again. *)
LEMMA RefetchKeeps ==
  ASSUME IInv, NEW k \in Keys, Entry(k, Fetch(cache[k])), UNCHANGED faults PROVE IInv'
  <1> DEFINE c == cache[k]
             e == Fetch(c)
  <1>1. c \in CacheEntry /\ faults' \in Nat
    BY DEF IInv, Typed
  <1>2. /\ e \in CacheEntry /\ e.st = "sent" /\ e.has = c.has /\ e.edited = c.edited
        /\ e.invalid = c.invalid /\ EntryFresh(e, due[k])
    BY <1>1, FetchEntry
  <1>3. e.edited => e.has /\ (Pending(k, muts) \/ Settling(e, k \in Watched))
    BY <1>2 DEF IInv, GhostInv, NoGhosts, Settling
  <1>4. Entry(k, e)
    OBVIOUS
  <1> HIDE DEF c, e
  <1> QED BY <1>1, <1>2, <1>3, <1>4, EntryKeeps

(* Every step of a read. *)
LEMMA ReadsKeep ==
  ASSUME IInv, NEW k \in Keys,
         Answer(k) \/ AnswerInPart(k) \/ Deliver(k) \/ FailRead(k) \/ Poll(k) \/ Focus(k)
  PROVE  IInv'
  <1>1. CASE Poll(k) \/ Focus(k)
    BY <1>1, RefetchKeeps DEF Poll, Focus
  <1> QED BY <1>1, AnswerKeeps, AnswerInPartKeeps, DeliverKeeps, FailReadKeeps

-----------------------------------------------------------------------------
(* The start, and writes by others. *)

(* A tab that was just opened. *)
LEMMA InitHolds == Init => IInv
  <1> SUFFICES ASSUME Init PROVE IInv
    OBVIOUS
  <1> USE DEF Init
  <1>1. Fixed
    BY DEF Fixed, coll, Roles
  <1>2. route \in Routes /\ panel \in Ids \cup {None}
    BY DEF Routes
  <1>3. server \in [Ids -> Row_] /\ \A i \in Ids : server[i].v = 0
    <2>1. Absent \in [Ids -> Row_] /\ \A i \in Ids : Absent[i] = [v |-> 0, on |-> FALSE]
      BY RowTypes DEF Absent
    <2>2. [Absent EXCEPT ![MyId].on = TRUE] \in [Ids -> Row_]
      BY <2>1 DEF Row_
    <2>3. \A i \in Ids : [Absent EXCEPT ![MyId].on = TRUE][i].v = 0
      BY <2>1
    <2> QED BY <2>2, <2>3
  <1>4. Fetch(NoEntry) \in CacheEntry /\ ~Fetch(NoEntry).edited
    BY RowTypes, FetchEntry
  <1>5. cache \in [Keys -> CacheEntry] /\ \A k \in Keys : ~cache[k].edited
    BY <1>4, RowTypes
  <1>6. Typed
    BY <1>1, <1>2, <1>3, <1>5 DEF Typed
  <1>7. Made
    BY DEF Made
  <1>8. Backed
    BY <1>3 DEF Backed
  <1>9. Counted
    <2>1. Sent(muts) = {}
      BY DEF Sent
    <2>2. Cardinality(Sent(muts)) = 0
      BY <2>1, FS_EmptySet
    <2> QED BY <1>3, <2>2, BoundNat DEF Counted
  <1>10. GhostInv
    BY <1>5 DEF GhostInv, NoGhosts
  <1>11. FreshInv
    <2>1. Always(route, panel) \subseteq Keys /\ Always(route, panel) \subseteq Watched
      BY <1>1, WatchedKeys, OldFrame DEF Fixed
    <2>2. \A k \in Always(route, panel) : cache[k] = Fetch(NoEntry)
      BY <2>1
    <2> QED BY <2>2, RowTypes, FetchEntry DEF FreshInv
  <1> QED BY <1>6, <1>7, <1>8, <1>9, <1>10, <1>11 DEF IInv

(* Another user or an agent writes a row. *)
LEMMA RemoteWriteKeeps == ASSUME IInv, NEW i \in Ids, RemoteWrite(i) PROVE IInv'
  <1>1. /\ view' = view /\ admin' = admin /\ route' = route /\ panel' = panel
        /\ cache' = cache /\ muts' = muts /\ acked' = acked /\ due' = due /\ faults' = faults
        /\ writes' = writes + 1 /\ writes < WritesBound
    BY DEF RemoteWrite, tab
  <1>2. PICK on \in BOOLEAN : server' = [server EXCEPT ![i] = [v |-> @.v + 1, on |-> on]]
    BY DEF RemoteWrite
  <1>3. Fixed /\ Typed /\ Counted
    BY DEF IInv, Typed
  <1>4. \A j \in Ids : server[j].v \in Nat /\ server[j].v <= writes
    BY <1>3, SentCounts
  <1>5. /\ server' \in [Ids -> Row_]
        /\ \A j \in Ids : server[j].v <= server'[j].v /\ server'[j].v <= server[j].v + 1
    <2>1. [v |-> server[i].v + 1, on |-> on] \in Row_
      BY <1>1, <1>3, <1>4, BoundNat DEF Row_, Typed
    <2>2. server \in [Ids -> Row_]
      BY <1>3 DEF Typed
    <2> QED BY <1>2, <1>4, <2>1, <2>2
  <1>6. \A j \in Ids : server'[j].v \in Nat
    BY <1>5, BoundNat DEF Row_
  <1>7. Typed'
    BY <1>1, <1>3, <1>5, Primed DEF Typed
  <1>8. Made' /\ GhostInv' /\ FreshInv'
    BY <1>1, <1>3, Primed, OldFrame DEF IInv, Made, GhostInv, FreshInv
  <1>9. Backed'
    <2>1. \A m \in muts : m.a.item \in Ids /\ m.v \in Nat
      BY <1>3, ActsKnown, BoundNat DEF Typed, Mutation, WellFormed
    <2>2. \A j \in Ids : acked[j] \in Nat /\ \A k \in Keys : due[k][j] \in Nat
      BY <1>3 DEF Typed
    <2> QED BY <1>1, <1>3, <1>4, <1>5, <1>6, <2>1, <2>2, Primed DEF IInv, Backed
  <1>10. Counted'
    <2>1. \A m \in muts : m.n \in Nat
      BY <1>3 DEF Typed, Mutation
    <2>2. writes \in Nat
      BY <1>3 DEF Typed
    <2> QED BY <1>1, <1>3, <1>4, <1>5, <1>6, <2>1, <2>2, Primed, SentCounts, BoundNat DEF Counted
  <1> QED BY <1>7, <1>8, <1>9, <1>10 DEF IInv

-----------------------------------------------------------------------------
(* Leaving a page, opening its dialog. *)

(* A mutation in flight that only moved on, or lost its hooks. *)
Stays(o, m) ==
  /\ o \in Mutation /\ o.n = m.n /\ o.a = m.a /\ o.from = m.from /\ o.prev = m.prev
  /\ o.v = m.v
  /\ \/ o.st \in {m.st, "refused"}
     \/ m.st = "applied" /\ o.st = "refetching" /\ Waits(m)

(* One that nobody touched stays. *)
LEMMA StaysSelf == ASSUME Typed PROVE \A m \in muts : Stays(m, m)
  BY DEF Stays, Typed

(* Fewer writes on their way, a smaller count. *)
LEMMA FewerSent ==
  ASSUME Typed, Counted, NEW ms, Sent(ms) \subseteq Sent(muts)
  PROVE  /\ Cardinality(Sent(ms)) \in Nat
         /\ Cardinality(Sent(ms)) <= Cardinality(Sent(muts))
  BY SentCounts, FS_Subset, FS_CardinalityType

(* When every mutation left comes from one before, they are still typed, counted and *)
(* backed.                                                                           *)
LEMMA MutsKeep ==
  ASSUME IInv, view' = view, admin' = admin, server' = server, writes' = writes,
         \A o \in muts' : \E m \in muts : Stays(o, m),
         \A o, q \in muts' : o.n = q.n => o = q
  PROVE  /\ muts' \subseteq Mutation
         /\ Counted'
         /\ \A o \in muts' : /\ DOMAIN o.prev = o.a.drops
                             /\ o.a \in PageAt(o.from).acts
                             /\ o.st = "refetching" => Waits(o)
                             /\ o.st \in {"applied", "refetching"} =>
                                  0 < o.v /\ o.v <= server'[o.a.item].v
   <1>0. Typed /\ Fixed /\ Counted
    BY DEF IInv, Typed
  <1>1. muts' \subseteq Mutation
    BY DEF Stays
  <1>2. \A o \in muts' : /\ DOMAIN o.prev = o.a.drops
                         /\ o.a \in PageAt(o.from).acts
                         /\ o.st \in {"applied", "refetching"} =>
                              0 < o.v /\ o.v <= server'[o.a.item].v
    BY DEF Stays, IInv, Made, Backed
  <1>3. \A o \in muts' : o.st = "refetching" => Waits(o)
    BY DEF Stays, IInv, Made, Waits
  <1>4. Sent(muts') \subseteq Sent(muts)
    <2> SUFFICES ASSUME NEW o \in muts', o.st = "sent" PROVE o.n \in Sent(muts)
      BY DEF Sent
    <2>1. \E m \in muts : m.n = o.n /\ m.st = "sent"
      BY DEF Stays
    <2> QED BY <2>1 DEF Sent
  <1>5. /\ Cardinality(Sent(muts')) \in Nat /\ Cardinality(Sent(muts)) \in Nat
        /\ Cardinality(Sent(muts')) <= Cardinality(Sent(muts))
    BY <1>0, <1>4, FewerSent, SentCounts
  <1>6. \A i \in Ids : server[i].v + Cardinality(Sent(muts')) <= writes
    <2>1. \A i \in Ids : server[i].v \in Nat /\ server[i].v + Cardinality(Sent(muts)) <= writes
      BY <1>0, SentCounts DEF Counted
    <2> QED BY <1>0, <1>5, <2>1 DEF Typed
  <1>7. \A o \in muts' : o.n < writes
    BY <1>0 DEF Stays, Counted
  <1>8. Counted'
    BY <1>0, <1>6, <1>7, Primed DEF Counted
  <1> QED BY <1>1, <1>2, <1>3, <1>8

(* Leaving a page drops the hooks of the mutations in flight and nothing else. *)
LEMMA UnhookKeeps ==
  ASSUME IInv, NEW S \in SUBSET muts
  PROVE  /\ \A o \in Unhook(S) : \E m \in S : Stays(o, m)
         /\ \A o, q \in Unhook(S) : o.n = q.n => o = q
         /\ \A k : Pending(k, Unhook(S)) <=> Pending(k, S)
  <1> DEFINE f(m) == [m EXCEPT !.live = FALSE, !.called = FALSE]
  <1>1. Unhook(S) = {f(m) : m \in S}
    BY DEF Unhook
  <1>2. \A m \in S : Stays(f(m), m) /\ f(m).a = m.a /\ f(m).n = m.n
    <2> SUFFICES ASSUME NEW m \in S
                 PROVE  Stays(f(m), m) /\ f(m).a = m.a /\ f(m).n = m.n
      OBVIOUS
    <2>1. m \in Mutation
      BY DEF IInv, Typed
    <2>2. /\ f(m) \in Mutation
          /\ f(m).n = m.n /\ f(m).a = m.a /\ f(m).from = m.from /\ f(m).st = m.st /\ f(m).v = m.v /\ f(m).prev = m.prev
      BY <2>1 DEF Mutation
    <2> HIDE DEF f
    <2> QED BY <2>2 DEF Stays
  <1>3. \A m, o \in S : m.n = o.n => m = o
    BY DEF IInv, Counted
  <1> HIDE DEF f
  <1>4. \A k : Pending(k, Unhook(S)) <=> Pending(k, S)
    BY <1>1, <1>2 DEF Pending
  <1> QED BY <1>1, <1>2, <1>3, <1>4

(* The pages of a view are at routes of the site. *)
LEMMA PageRoutes == ASSUME view \in Views PROVE \A p \in view.pages : p.at \in Routes
  <1>1. \A p \in Site \cup {ElsewherePage} : ViewOf(coll, p).at \in Routes
    BY ViewFields, ElsewhereFields DEF Routes
  <1> QED BY <1>1, ViewForm

(* Going to a page, or staying on it. *)
LEMMA ReachKeeps ==
  ASSUME Typed, Backed, view' = view, admin' = admin, server' = server,
         NEW c \in [Keys -> CacheEntry], NEW ms, NoGhosts(c, ms, Watched),
         NEW r \in Routes, NEW ack \in [Ids -> Nat], \A i \in Ids : ack[i] <= server[i].v,
         Reach(c, r, ack), r = route => \A k \in Always(route, panel) : EntryFresh(c[k], due[k])
  PROVE  /\ route' \in Routes /\ panel' \in Ids \cup {None}
         /\ cache' \in [Keys -> CacheEntry] /\ due' \in [Keys -> [Ids -> Nat]]
         /\ \A i \in Ids : \A k \in Keys : due'[k][i] <= server'[i].v
         /\ NoGhosts(cache', ms, WatchedBy(Observers(route', panel')))
         /\ FreshInv'
  <1>0. Fixed /\ view \in Views
    BY DEF Typed, Fixed
  <1>1. CASE r = route
    <2>1. cache' = c /\ due' = due /\ route' = route /\ panel' = panel
      BY <1>1 DEF Reach, tab
    <2> QED BY <1>0, <1>1, <2>1, Primed, OldFrame DEF Typed, Backed
  <1>2. CASE r # route
    <2>1. route' = r /\ panel' = None /\ Shows(c, r, None) /\ due' = DueOnShow(r, ack)
      BY <1>2 DEF Reach
    <2>2. /\ cache' \in [Keys -> CacheEntry]
          /\ NoGhosts(cache', ms, WatchedBy(Observers(r, None)))
          /\ \A k \in Always(r, None) : \A d : EntryFresh(cache'[k], d)
      BY <1>0, <1>2, <2>1, ShowsKeeps
    <2>3. /\ due' \in [Keys -> [Ids -> Nat]]
          /\ \A i \in Ids : \A k \in Keys : due'[k][i] <= server'[i].v
      BY <2>1 DEF DueOnShow, Typed, Backed
    <2>4. FreshInv'
      BY <1>0, <2>1, <2>2, Primed
    <2> QED BY <2>1, <2>2, <2>3, <2>4
  <1> QED BY <1>1, <1>2

(* Going to another page with nothing else changed. *)
LEMMA NavigationKeeps ==
  ASSUME IInv, NEW r \in Routes, r # route, Reach(cache, r, acked), muts' = Unhook(muts),
         UNCHANGED <<view, admin, server, acked, writes, faults>>
  PROVE  IInv'
  <1>1. Typed /\ Backed /\ Fixed /\ cache \in [Keys -> CacheEntry] /\ acked \in [Ids -> Nat]
    BY DEF IInv, Typed
  <1>2. /\ \A o \in muts' : \E m \in muts : Stays(o, m)
        /\ \A o, q \in muts' : o.n = q.n => o = q
        /\ \A k : Pending(k, muts') <=> Pending(k, muts)
    BY UnhookKeeps
  <1>3. NoGhosts(cache, muts', Watched)
    BY <1>2 DEF IInv, GhostInv, NoGhosts
  <1>4. \A i \in Ids : acked[i] <= server[i].v
    BY <1>1 DEF Backed
  <1>5. /\ route' \in Routes /\ panel' \in Ids \cup {None}
        /\ cache' \in [Keys -> CacheEntry] /\ due' \in [Keys -> [Ids -> Nat]]
        /\ \A i \in Ids : \A k \in Keys : due'[k][i] <= server'[i].v
        /\ NoGhosts(cache', muts', WatchedBy(Observers(route', panel')))
        /\ FreshInv'
    BY <1>1, <1>3, <1>4, ReachKeeps
  <1>6. /\ muts' \subseteq Mutation
        /\ Counted'
        /\ \A o \in muts' : /\ DOMAIN o.prev = o.a.drops
                            /\ o.a \in PageAt(o.from).acts
                            /\ o.st = "refetching" => Waits(o)
                            /\ o.st \in {"applied", "refetching"} =>
                                 0 < o.v /\ o.v <= server'[o.a.item].v
    BY <1>2, MutsKeep
  <1>7. Typed'
    BY <1>1, <1>5, <1>6, Primed DEF Typed
  <1>8. Made' /\ Backed' /\ GhostInv'
    BY <1>1, <1>2, <1>4, <1>5, <1>6, Primed
  <1> QED BY <1>5, <1>6, <1>7, <1>8 DEF IInv

(* The user goes to a page. *)
LEMMA GoKeeps == ASSUME IInv, NEW p \in view.pages, Go(p) PROVE IInv'
  BY NavigationKeeps, PageRoutes DEF Go, IInv, Typed, Fixed

(* The shell and the onboarding page redirect. *)
LEMMA RedirectsKeep == ASSUME IInv, RedirectToOnboarding \/ RedirectToDashboard PROVE IInv'
  <1>1. /\ <<"onboarding">> \in Routes /\ Elsewhere \in Routes /\ Elsewhere # <<"onboarding">>
    <2>1. OnboardingPage \in Site /\ OnboardingPage.at = <<"onboarding">>
      BY DEF Site, ListPages, OnboardingPage, Page
    <2> QED BY <2>1 DEF Routes, Elsewhere
  <1>2. \E r \in Routes : r # route /\ RedirectTo(r)
    BY <1>1 DEF RedirectToOnboarding, RedirectToDashboard
  <1> QED BY <1>2, NavigationKeeps DEF RedirectTo, limits

(* The dialog of a page opens, or closes: what the page watches without it stays *)
(* watched.                                                                      *)
LEMMA SetPanelKeeps ==
  ASSUME IInv, NEW p \in Ids \cup {None}, panel = None \/ p = None, SetPanel(p)
  PROVE  IInv'
  <1>1. /\ view' = view /\ admin' = admin /\ route' = route /\ panel' = p
        /\ server' = server /\ muts' = muts /\ acked' = acked /\ due' = due
        /\ writes' = writes /\ faults' = faults /\ Shows(cache, route, p)
    BY DEF SetPanel, limits
  <1>2. Typed /\ Fixed /\ view \in Views
    BY DEF IInv, Typed, Fixed
  <1>3. /\ cache' \in [Keys -> CacheEntry]
        /\ NoGhosts(cache', muts, WatchedBy(Observers(route, p)))
        /\ \A k \in Always(route, p) :
             \/ k \in Watched /\ cache'[k] = cache[k]
             \/ \A d : EntryFresh(cache'[k], d)
    BY <1>1, <1>2, ShowsKeeps DEF IInv, Typed, GhostInv
  <1>4. Typed'
    BY <1>1, <1>2, <1>3, Primed DEF Typed
  <1>5. Made' /\ Backed' /\ Counted' /\ GhostInv'
    BY <1>1, <1>2, <1>3, Primed DEF IInv, Made, Backed, Counted, Acts
  <1>6. FreshInv'
    <2> SUFFICES ASSUME NEW k \in Always(route, p), k \in Watched, cache'[k] = cache[k]
                 PROVE  EntryFresh(cache[k], due[k])
      BY <1>1, <1>2, <1>3, Primed
    <2>1. k \in Always(route, panel)
      <3>1. CASE p = None
        BY <1>2, <3>1, PanelWatches DEF Always, WatchedBy
      <3>2. CASE panel = None
        BY <1>2, <3>2, PanelWatches, OldFrame
      <3> QED BY <3>1, <3>2
    <2> QED BY <2>1 DEF IInv, FreshInv
  <1> QED BY <1>4, <1>5, <1>6 DEF IInv

(* The user opens or closes it. *)
LEMMA PanelKeeps ==
  ASSUME IInv, ClosePanel \/ \E i \in Ids : OpenPanel(i)
  PROVE  IInv'
  BY SetPanelKeeps DEF ClosePanel, OpenPanel

-----------------------------------------------------------------------------
(* Mutations: the call, the server, the answer. *)

(* mutate: a new write is on its way, and an optimistic delete has edited every list of *)
(* its collection on screen, whose reads it cancelled.                                  *)
LEMMA MutateKeeps == ASSUME IInv, NEW a \in Acts, Mutate(a) PROVE IInv'
  <1> DEFINE f(m) == IF "percall" \in m.a.how \cap a.how THEN [m EXCEPT !.called = FALSE] ELSE m
             new == [n |-> writes, a |-> a, from |-> route, st |-> "sent", v |-> 0, live |-> TRUE,
                     called |-> TRUE, prev |-> [k \in a.drops |-> cache[k]]]
             old == {f(m) : m \in muts}
  <1>1. /\ view' = view /\ admin' = admin /\ route' = route /\ panel' = panel
        /\ server' = server /\ acked' = acked /\ due' = due /\ faults' = faults
        /\ writes' = writes + 1 /\ writes < WritesBound
        /\ cache' = OptimisticRemove(cache, a.drops, a.item)
        /\ muts' = old \cup {new}
    BY DEF Mutate, tab
  <1>2. /\ Typed /\ Fixed /\ Counted /\ view \in Views /\ writes \in Nat
        /\ cache \in [Keys -> CacheEntry]
    BY DEF IInv, Typed, Fixed
  <1>3. /\ a \in AllActs /\ WellFormed(a)
        /\ a.drops # {} => /\ a.drops \subseteq Keys
                           /\ \A p : WatchedBy(Observers(route, p)) \subseteq a.drops
    BY <1>2, ActsOfPage, ActsKnown DEF Acts
  <1>4. a.drops \subseteq Keys
    BY <1>3
  <1>5. new \in Mutation
    <2>1. new.prev \in [a.drops -> CacheEntry]
      BY <1>2, <1>4
    <2>2. new.prev \in Snapshots
      BY <1>4, <2>1 DEF Snapshots
    <2> QED BY <1>2, <1>3, <2>2, BoundNat DEF Mutation, Typed
  <1>6. \A m \in muts : /\ f(m) \in Mutation
                        /\ f(m).n = m.n /\ f(m).a = m.a /\ f(m).st = m.st /\ f(m).v = m.v
                        /\ f(m).from = m.from /\ f(m).prev = m.prev
    <2> SUFFICES ASSUME NEW m \in muts
                 PROVE  /\ f(m) \in Mutation
                        /\ f(m).n = m.n /\ f(m).a = m.a /\ f(m).st = m.st /\ f(m).v = m.v
                        /\ f(m).from = m.from /\ f(m).prev = m.prev
      OBVIOUS
    <2>1. m \in Mutation
      BY <1>2 DEF Typed
    <2>2. /\ [m EXCEPT !.called = FALSE] \in Mutation
          /\ LET x == [m EXCEPT !.called = FALSE]
             IN  /\ x.n = m.n /\ x.a = m.a /\ x.st = m.st /\ x.v = m.v
                 /\ x.from = m.from /\ x.prev = m.prev
      BY <2>1 DEF Mutation
    <2> QED BY <2>1, <2>2
  <1>7. /\ new.n = writes /\ new.a = a /\ new.from = route /\ new.st = "sent"
        /\ DOMAIN new.prev = a.drops
    OBVIOUS
  <1> HIDE DEF f, new
  <1>8. \A o \in muts' : o = new \/ \E m \in muts : o = f(m)
    BY <1>1
  <1>9. \A k : Pending(k, muts') <=> Pending(k, muts) \/ Under(k, a.drops)
    <2>1. \A o \in muts' : o.a = a \/ \E m \in muts : o.a = m.a
      BY <1>6, <1>7, <1>8
    <2>2. \A m \in muts : f(m) \in muts' /\ f(m).a = m.a
      BY <1>1, <1>6
    <2>3. new \in muts' /\ new.a = a
      BY <1>1, <1>7
    <2> QED BY <2>1, <2>2, <2>3 DEF Pending
  <1>10. \A k \in Keys :
           /\ k \notin a.drops /\ ~Under(k, a.drops) => cache'[k] = cache[k]
           /\ cache'[k] \in CacheEntry
           /\ cache'[k].edited => cache'[k].has /\ (cache[k].edited \/ k \in a.drops)
           /\ k \in a.drops => /\ cache'[k].st = "idle"
                               /\ cache'[k].has => cache'[k].edited
    <2> SUFFICES ASSUME NEW k \in Keys
                 PROVE  /\ k \notin a.drops /\ ~Under(k, a.drops) => cache'[k] = cache[k]
                        /\ cache'[k] \in CacheEntry
                        /\ cache'[k].edited => cache'[k].has /\ (cache[k].edited \/ k \in a.drops)
                        /\ k \in a.drops => /\ cache'[k].st = "idle"
                                            /\ cache'[k].has => cache'[k].edited
      OBVIOUS
    <2> DEFINE e == IF Under(k, a.drops) THEN Cancel(cache[k]) ELSE cache[k]
               d == [e.data EXCEPT ![a.item].on = FALSE]
               s == SetData(e, d)
    <2>1. cache'[k] = IF k \in a.drops /\ e.has THEN [s EXCEPT !.edited = TRUE] ELSE e
      BY <1>1 DEF OptimisticRemove
    <2>2. cache[k] \in CacheEntry /\ (cache[k].edited => cache[k].has)
      BY <1>2 DEF IInv, GhostInv, NoGhosts
    <2>3. /\ e \in CacheEntry /\ e.has = cache[k].has /\ e.edited = cache[k].edited
          /\ Under(k, a.drops) => e.st = "idle"
          /\ ~Under(k, a.drops) => e = cache[k]
      BY <2>2, CancelEntry
    <2>4. k \in a.drops => Under(k, a.drops)
      BY <1>3 DEF WellFormed, Under
    <2> HIDE DEF e
    <2>5. d \in [Ids -> Row_]
      BY <2>3 DEF CacheEntry, Row_
    <2> HIDE DEF d
    <2>6. s \in CacheEntry /\ s.has /\ s.st = e.st
      BY <2>3, <2>5, SetDataEntry
    <2> HIDE DEF s
    <2>7. [s EXCEPT !.edited = TRUE] \in CacheEntry /\ [s EXCEPT !.edited = TRUE].has
          /\ [s EXCEPT !.edited = TRUE].st = e.st /\ [s EXCEPT !.edited = TRUE].edited
      BY <2>6 DEF CacheEntry
    <2> QED BY <2>1, <2>2, <2>3, <2>4, <2>7
  <1>11. cache' \in [Keys -> CacheEntry]
    <2>1. cache' = [k \in Keys |-> cache'[k]]
      BY <1>1 DEF OptimisticRemove
    <2> QED BY <1>10, <2>1
  <1>12. Typed'
    BY <1>1, <1>2, <1>5, <1>6, <1>8, <1>11, Primed DEF Typed
  <1>13. Made'
    BY <1>1, <1>2, <1>6, <1>7, <1>8, Primed DEF IInv, Made, Acts, Waits
  <1>14. Backed'
    <2>1. \A o \in muts' : o.st \in {"applied", "refetching"} =>
            0 < o.v /\ o.v <= server[o.a.item].v
      BY <1>6, <1>7, <1>8 DEF IInv, Backed
    <2> QED BY <1>1, <1>2, <2>1, Primed DEF IInv, Backed
  <1>15. Counted'
    <2>1. \A m \in muts : m.n \in Nat /\ m.n < writes /\ f(m).n = m.n
      BY <1>2, <1>6 DEF Typed, Mutation, Counted
    <2>2. Sent(muts') = Sent(muts) \cup {writes}
      <3>1. \A o \in muts' : o.st = "sent" => o.n \in Sent(muts) \cup {writes}
        BY <1>6, <1>7, <1>8 DEF Sent
      <3>2. \A m \in muts : m.st = "sent" => m.n \in Sent(muts')
        <4> SUFFICES ASSUME NEW m \in muts, m.st = "sent" PROVE m.n \in Sent(muts')
          OBVIOUS
        <4>1. f(m) \in muts' /\ f(m).n = m.n /\ f(m).st = "sent"
          BY <1>1, <1>6
        <4> QED BY <4>1 DEF Sent
      <3>3. writes \in Sent(muts')
        BY <1>1, <1>7 DEF Sent
      <3>4. Sent(muts) \subseteq Sent(muts')
        BY <3>2 DEF Sent
      <3>5. Sent(muts') \subseteq Sent(muts) \cup {writes}
        BY <3>1 DEF Sent
      <3> QED BY <3>3, <3>4, <3>5
    <2>3. writes \notin Sent(muts)
      BY <1>2, <2>1 DEF Sent
    <2>4. /\ Cardinality(Sent(muts')) = Cardinality(Sent(muts)) + 1
          /\ Cardinality(Sent(muts)) \in Nat
      BY <1>2, <2>2, <2>3, SentCounts, FS_AddElement
    <2>5. \A o \in muts' : o.n < writes + 1
      BY <1>2, <1>7, <1>8, <2>1
    <2>6. \A o, q \in muts' : o.n = q.n => o = q
      <3>1. \A m, q \in muts : m.n = q.n => m = q
        BY <1>2 DEF Counted
      <3> QED BY <1>2, <1>7, <1>8, <2>1, <3>1
    <2>7. \A i \in Ids : server[i].v \in Nat /\ server[i].v + Cardinality(Sent(muts)) <= writes
      BY <1>2, SentCounts DEF Counted
    <2>8. \A i \in Ids : server[i].v + Cardinality(Sent(muts')) <= writes + 1
      BY <1>2, <2>4, <2>7
    <2>9. writes + 1 <= WritesBound
      BY <1>1, <1>2, BoundNat
    <2> QED BY <1>1, <1>2, <2>5, <2>6, <2>8, <2>9, Primed
  <1>16. GhostInv'
    <2>1. \A k \in a.drops : Under(k, a.drops)
      BY <1>3 DEF WellFormed, Under
    <2>2. NoGhosts(cache', muts', Watched)
      BY <1>9, <1>10, <2>1 DEF IInv, GhostInv, NoGhosts
    <2> QED BY <1>1, <1>2, <2>2, Primed, OldFrame
  <1>17. FreshInv'
    <2> SUFFICES ASSUME NEW k \in Always(route, panel) PROVE EntryFresh(cache'[k], due[k])
      BY <1>1, <1>2, Primed
    <2>1. k \in Keys /\ k \in WatchedBy(Observers(route, panel))
      BY <1>2, WatchedKeys
    <2>2. CASE a.drops = {}
      BY <1>10, <2>1, <2>2 DEF IInv, FreshInv, Under
    <2>3. CASE a.drops # {}
      <3>1. k \in a.drops
        BY <1>3, <2>1, <2>3
      <3> QED BY <1>10, <2>1, <3>1 DEF EntryFresh
    <2> QED BY <2>2, <2>3
  <1> QED BY <1>12, <1>13, <1>14, <1>15, <1>16, <1>17 DEF IInv

(* The server applies or refuses a write. *)
LEMMA ServerTakesKeeps == ASSUME IInv, NEW m \in muts, ServerTakes(m) PROVE IInv'
  <1> DEFINE i == m.a.item
  <1>1. /\ view' = view /\ admin' = admin /\ route' = route /\ panel' = panel
        /\ cache' = cache /\ acked' = acked /\ due' = due /\ writes' = writes /\ faults' = faults
        /\ m.st = "sent"
    BY DEF ServerTakes, tab, limits
  <1>2. /\ Typed /\ Fixed /\ Counted /\ Backed /\ view \in Views /\ writes \in Nat
        /\ m \in Mutation /\ i \in Ids
    BY ActsKnown DEF IInv, Typed, Fixed, Mutation, WellFormed
  <1>3. \A o, q \in muts : o.n = q.n => o = q
    BY <1>2 DEF Counted
  <1>4. CASE ~Accepts(server[i], m.a.w)
    <2> DEFINE o == [m EXCEPT !.st = "refused"]
    <2>1. muts' = (muts \ {m}) \cup {o} /\ server' = server
      BY <1>4 DEF ServerTakes
    <2>2. Stays(o, m) /\ o.a = m.a /\ o.n = m.n
      BY <1>2 DEF Mutation, Stays
    <2> HIDE DEF o
    <2>3. \A x \in muts' : x = o \/ (x \in muts /\ x # m)
      BY <2>1
    <2>4. \A x \in muts' : \E y \in muts : Stays(x, y)
      BY <1>2, <2>2, <2>3, StaysSelf
    <2>5. \A x, y \in muts' : x.n = y.n => x = y
      BY <1>3, <2>2, <2>3
    <2>6. /\ muts' \subseteq Mutation
          /\ Counted'
          /\ \A x \in muts' : /\ DOMAIN x.prev = x.a.drops
                              /\ x.a \in PageAt(x.from).acts
                              /\ x.st = "refetching" => Waits(x)
                              /\ x.st \in {"applied", "refetching"} =>
                                   0 < x.v /\ x.v <= server'[x.a.item].v
      BY <1>1, <2>1, <2>4, <2>5, MutsKeep
    <2>7. \A k : Pending(k, muts') <=> Pending(k, muts)
      BY <2>1, <2>2 DEF Pending
    <2>8. Typed' /\ Made' /\ Backed'
      BY <1>1, <1>2, <2>1, <2>6, Primed DEF Typed, Backed, Acts
    <2>9. GhostInv' /\ FreshInv'
      BY <1>1, <1>2, <2>7, Primed, OldFrame DEF IInv, GhostInv, FreshInv, NoGhosts
    <2> QED BY <2>6, <2>8, <2>9 DEF IInv
  <1>5. CASE Accepts(server[i], m.a.w)
    <2> DEFINE o == [m EXCEPT !.st = "applied", !.v = server[i].v + 1]
    <2>1. /\ muts' = (muts \ {m}) \cup {o}
          /\ server' = [server EXCEPT ![i] = Applied(@, m.a.w)]
      BY <1>5 DEF ServerTakes
    <2>2. \A j \in Ids : server[j] \in Row_ /\ server[j].v \in Nat
      BY <1>2, SentCounts DEF Typed
    <2>3. Sent(muts') = Sent(muts) \ {m.n}
      <3>1. o.st = "applied"
        BY <1>2 DEF Mutation
      <3> HIDE DEF o
      <3>2. \A x : x \in muts' /\ x.st = "sent" <=> x \in muts /\ x # m /\ x.st = "sent"
        BY <2>1, <3>1
      <3> QED BY <1>3, <3>2 DEF Sent
    <2>4. /\ Cardinality(Sent(muts')) = Cardinality(Sent(muts)) - 1
          /\ Cardinality(Sent(muts)) \in Nat /\ Cardinality(Sent(muts')) \in Nat
      <3>1. m.n \in Sent(muts)
        BY <1>1 DEF Sent
      <3> QED BY <1>2, <2>3, <3>1, SentCounts, FS_RemoveElement, FS_CardinalityType
    <2>5. /\ \A j \in Ids : server[j].v + Cardinality(Sent(muts)) <= writes
          /\ writes <= WritesBound
      BY <1>2 DEF Counted
    <2>6. /\ Applied(server[i], m.a.w) \in Row_ /\ Applied(server[i], m.a.w).v = server[i].v + 1
          /\ server[i].v + 1 \in 0..WritesBound
      <3>1. server[i].v + 1 \in 0..WritesBound
        BY <1>2, <2>2, <2>4, <2>5, BoundNat
      <3> QED BY <3>1 DEF Applied, Row_
    <2>7. /\ o \in Mutation /\ o.n = m.n /\ o.a = m.a /\ o.st = "applied" /\ o.v = server[i].v + 1
          /\ o.from = m.from /\ o.prev = m.prev
      BY <1>2, <2>6 DEF Mutation
    <2>8. /\ server' \in [Ids -> Row_]
          /\ \A j \in Ids : server'[j].v = IF j = i THEN server[i].v + 1 ELSE server[j].v
      BY <1>2, <2>1, <2>6 DEF Typed
    <2> HIDE DEF o
    <2>9. \A x \in muts' : x = o \/ (x \in muts /\ x # m)
      BY <2>1
    <2>10. Typed'
      BY <1>1, <1>2, <2>7, <2>8, <2>9, Primed DEF Typed
    <2>11. Made'
      BY <1>1, <1>2, <2>7, <2>9, Primed DEF IInv, Made, Acts
    <2>12. Backed'
      <3>1. \A j \in Ids : /\ acked[j] \in Nat /\ acked[j] <= server[j].v
                           /\ \A k \in Keys : due[k][j] \in Nat /\ due[k][j] <= server[j].v
        BY <1>2 DEF Typed, Backed
      <3>2. \A j \in Ids : /\ acked[j] <= server'[j].v
                           /\ \A k \in Keys : due[k][j] <= server'[j].v
        BY <1>2, <2>2, <2>8, <3>1
      <3>3. \A x \in muts : x.a.item \in Ids /\ x.v \in Nat
        BY <1>2, ActsKnown, BoundNat DEF Typed, Mutation, WellFormed
      <3>4. \A x \in muts' : x.st \in {"applied", "refetching"} =>
              0 < x.v /\ x.v <= server'[x.a.item].v
        BY <1>2, <2>2, <2>7, <2>8, <2>9, <3>3 DEF Backed
      <3> QED BY <1>1, <1>2, <3>2, <3>4, Primed
    <2>13. Counted'
      <3>1. \A j \in Ids : server'[j].v + Cardinality(Sent(muts')) <= writes
        BY <1>2, <2>2, <2>4, <2>5, <2>8
      <3>2. \A x \in muts' : x.n < writes
        BY <1>2, <2>7, <2>9 DEF Counted
      <3>3. \A x, y \in muts' : x.n = y.n => x = y
        BY <1>3, <2>7, <2>9
      <3> QED BY <1>1, <1>2, <3>1, <3>2, <3>3, Primed DEF Counted
    <2>14. \A k : Pending(k, muts') <=> Pending(k, muts)
      BY <2>1, <2>7 DEF Pending
    <2>15. GhostInv' /\ FreshInv'
      BY <1>1, <1>2, <2>14, Primed, OldFrame DEF IInv, GhostInv, FreshInv, NoGhosts
    <2> QED BY <2>10, <2>11, <2>12, <2>13, <2>15 DEF IInv
  <1> QED BY <1>4, <1>5

(* The callbacks of a mutation change the lists it sets or had edited and then   *)
(* invalidate: what it edited is settled, and whatever they changed and the page *)
(* watches is read again.                                                        *)
LEMMA CallbacksKeep ==
  ASSUME IInv, NEW m \in muts, NEW d \in [Keys -> CacheEntry], NEW on \in BOOLEAN,
         ~on => m.a.drops = {},
         \A k \in Keys : ~Under(k, m.a.keys) => d[k] = cache[k],
         \A k \in Keys : d[k].edited => d[k].has,
         NEW c, c = IF on THEN Invalidate(d, Invalidated(m.a)) ELSE cache
  PROVE  /\ c \in [Keys -> CacheEntry]
         /\ NoGhosts(c, muts \ {m}, Watched)
         /\ \A k \in Keys : c[k] = cache[k] \/ (k \in Watched => \A x : EntryFresh(c[k], x))
         /\ on => \A k \in Keys :
                     Under(k, m.a.keys) /\ k \in Watched => \A x : EntryFresh(c[k], x)
  <1> DEFINE ks == Invalidated(m.a)
  <1>1. /\ cache \in [Keys -> CacheEntry] /\ NoGhosts(cache, muts, Watched)
        /\ m.a.drops \subseteq m.a.keys
    BY ActsKnown DEF IInv, Typed, GhostInv, Mutation, WellFormed
  <1>2. \A k : /\ Under(k, m.a.drops) => Under(k, m.a.keys)
               /\ Under(k, m.a.keys) => Under(k, ks)
    BY <1>1 DEF Under, Invalidated
  <1>3. CASE on
    <2>1. c = Invalidate(d, ks)
      BY <1>3
    <2> HIDE DEF ks
    <2>2. NoGhosts(c, muts \ {m}, Watched)
      BY <1>1, <1>2, <2>1, AnswerSettles
    <2>3. /\ c \in [Keys -> CacheEntry]
          /\ \A k \in Keys : /\ ~Under(k, ks) => c[k] = d[k]
                             /\ Under(k, ks) /\ k \in Watched => \A x : EntryFresh(c[k], x)
      <3>1. Invalidate(d, ks) \in [Keys -> CacheEntry]
        BY InvalidateKeeps
      <3>2. \A k \in Keys : ~Under(k, ks) => Invalidate(d, ks)[k] = d[k]
        BY InvalidateKeeps
      <3>3. \A k \in Keys : Under(k, ks) /\ k \in Watched =>
                            \A x : EntryFresh(Invalidate(d, ks)[k], x)
        BY InvalidateKeeps
      <3> QED BY <2>1, <3>1, <3>2, <3>3
    <2> QED BY <1>2, <1>3, <2>2, <2>3
  <1>4. CASE ~on
    <2>1. c = cache /\ m.a.drops = {}
      BY <1>4
    <2>2. NoGhosts(c, muts \ {m}, Watched)
      BY <1>1, <2>1 DEF NoGhosts, Pending, Under
    <2> QED BY <1>1, <1>4, <2>1, <2>2
  <1> QED BY <1>3, <1>4

(* onSuccess writes the answered row into the lists it sets. *)
LEMMA ReplaceRowKeeps ==
  ASSUME NEW c \in [Keys -> CacheEntry], NEW ks, NEW i \in Ids, NEW row \in Row_,
         \A k \in Keys : c[k].edited => c[k].has
  PROVE  /\ ReplaceRow(c, ks, i, row) \in [Keys -> CacheEntry]
         /\ \A k \in Keys : /\ k \notin ks => ReplaceRow(c, ks, i, row)[k] = c[k]
                            /\ ReplaceRow(c, ks, i, row)[k].edited =>
                                 ReplaceRow(c, ks, i, row)[k].has
  <1> DEFINE d == ReplaceRow(c, ks, i, row)
  <1>1. d = [k \in Keys |-> d[k]]
    BY DEF ReplaceRow
  <1>2. ASSUME NEW k \in Keys
        PROVE  d[k] \in CacheEntry /\ (k \notin ks => d[k] = c[k]) /\ (d[k].edited => d[k].has)
    <2> DEFINE x == [c[k].data EXCEPT ![i] = IF @.on THEN row ELSE @]
    <2>1. d[k] = IF k \in ks /\ c[k].has THEN SetData(c[k], x) ELSE c[k]
      BY DEF ReplaceRow
    <2>2. x \in [Ids -> Row_]
      BY DEF CacheEntry
    <2> HIDE DEF d, x
    <2>3. /\ SetData(c[k], x) \in CacheEntry /\ SetData(c[k], x).has
      BY <2>2, SetDataEntry
    <2> QED BY <2>1, <2>3
  <1> HIDE DEF d
  <1>3. d \in [Keys -> CacheEntry]
    BY <1>1, <1>2
  <1> QED BY <1>2, <1>3 DEF d

(* onError puts back the lists onMutate remembered. *)
LEMMA RollbackKeeps ==
  ASSUME NEW c \in [Keys -> CacheEntry], NEW prev \in Snapshots,
         \A k \in Keys : c[k].edited => c[k].has
  PROVE  /\ Rollback(c, prev) \in [Keys -> CacheEntry]
         /\ \A k \in Keys : /\ k \notin DOMAIN prev => Rollback(c, prev)[k] = c[k]
                            /\ Rollback(c, prev)[k].edited => Rollback(c, prev)[k].has
  <1> DEFINE d == Rollback(c, prev)
  <1>1. d = [k \in Keys |-> d[k]]
    BY DEF Rollback
  <1>2. ASSUME NEW k \in Keys
        PROVE  /\ d[k] \in CacheEntry /\ (k \notin DOMAIN prev => d[k] = c[k])
               /\ d[k].edited => d[k].has
    <2> DEFINE s == SetData(c[k], prev[k].data)
    <2>1. d[k] = IF k \in DOMAIN prev /\ prev[k].has THEN [s EXCEPT !.edited = TRUE] ELSE c[k]
      BY DEF Rollback
    <2> HIDE DEF d
    <2>2. CASE k \in DOMAIN prev
      <3>1. prev[k] \in CacheEntry
        BY <2>2 DEF Snapshots
      <3>2. prev[k].data \in [Ids -> Row_]
        BY <3>1 DEF CacheEntry
      <3>3. s \in CacheEntry /\ s.has
        BY <3>2, SetDataEntry
      <3> HIDE DEF s
      <3>4. [s EXCEPT !.edited = TRUE] \in CacheEntry /\ [s EXCEPT !.edited = TRUE].has
        BY <3>3 DEF CacheEntry
      <3> QED BY <2>1, <2>2, <3>4
    <2>3. CASE k \notin DOMAIN prev
      BY <2>1, <2>3
    <2> QED BY <2>2, <2>3
  <1> HIDE DEF d
  <1>3. d \in [Keys -> CacheEntry]
    BY <1>1, <1>2
  <1> QED BY <1>2, <1>3 DEF d

(* What is left of the others once a mutation is over. *)
LEMMA Over ==
  ASSUME IInv, NEW m \in muts
  PROVE  /\ \A o \in muts \ {m} : \E x \in muts : Stays(o, x)
         /\ \A o, q \in muts \ {m} : o.n = q.n => o = q
         /\ m \in Mutation /\ m.a \in AllActs /\ WellFormed(m.a)
         /\ m.a.drops # {} => "settled" \in m.a.how /\ Callbacks(m) /\ ~Waits(m)
  BY StaysSelf, ActsKnown DEF IInv, Typed, Counted, Mutation, WellFormed, Callbacks, Waits

(* The write was refused, or its answer is lost. *)
LEMMA ErrorKeeps == ASSUME IInv, NEW m \in muts, Error(m) PROVE IInv'
  <1> DEFINE on == "settled" \in m.a.how /\ Callbacks(m)
             d == Rollback(cache, m.prev)
  <1>1. /\ view' = view /\ admin' = admin /\ route' = route /\ panel' = panel
        /\ server' = server /\ acked' = acked /\ due' = due /\ writes' = writes
        /\ cache' = IF on THEN Invalidate(d, Invalidated(m.a)) ELSE cache
        /\ muts' = muts \ {m}
    BY DEF Error, tab
  <1>2. Typed /\ Fixed /\ cache \in [Keys -> CacheEntry] /\ faults' \in Nat
    BY DEF IInv, Typed, Error
  <1>3. /\ m \in Mutation /\ WellFormed(m.a) /\ (~on => m.a.drops = {})
        /\ DOMAIN m.prev = m.a.drops
        /\ \A k \in Keys : cache[k].edited => cache[k].has
    BY Over DEF IInv, Made, GhostInv, NoGhosts
  <1>4. /\ d \in [Keys -> CacheEntry]
        /\ \A k \in Keys : /\ ~Under(k, m.a.keys) => d[k] = cache[k]
                           /\ d[k].edited => d[k].has
    <2>1. m.prev \in Snapshots
      BY <1>3 DEF Mutation
    <2>2. \A k \in m.a.drops : Under(k, m.a.keys)
      BY <1>3 DEF WellFormed, Under
    <2> QED BY <1>2, <1>3, <2>1, <2>2, RollbackKeeps
  <1>5. on \in BOOLEAN
    BY DEF Callbacks
  <1> HIDE DEF on, d
  <1>6. /\ cache' \in [Keys -> CacheEntry]
        /\ NoGhosts(cache', muts \ {m}, Watched)
        /\ \A k \in Keys :
             cache'[k] = cache[k] \/ (k \in Watched => \A x : EntryFresh(cache'[k], x))
    BY <1>1, <1>3, <1>4, <1>5, CallbacksKeep
  <1>7. /\ muts' \subseteq Mutation
        /\ Counted'
        /\ \A x \in muts' : /\ DOMAIN x.prev = x.a.drops
                            /\ x.a \in PageAt(x.from).acts
                            /\ x.st = "refetching" => Waits(x)
                            /\ x.st \in {"applied", "refetching"} =>
                                 0 < x.v /\ x.v <= server'[x.a.item].v
    BY <1>1, Over, MutsKeep
  <1>8. Typed'
    BY <1>1, <1>2, <1>6, <1>7, Primed DEF Typed
  <1>9. Made' /\ Backed' /\ GhostInv'
    BY <1>1, <1>2, <1>6, <1>7, Primed, OldFrame DEF IInv, Backed
  <1>10. FreshInv'
    <2>1. Always(route, panel) \subseteq Keys /\ Always(route, panel) \subseteq Watched
      BY <1>2, WatchedKeys, OldFrame DEF Fixed
    <2> QED BY <1>1, <1>2, <1>6, <2>1, Primed DEF IInv, FreshInv
  <1> QED BY <1>7, <1>8, <1>9, <1>10 DEF IInv

(* The callback that waited for the refetches leaves the page. *)
LEMMA LeaveKeeps == ASSUME IInv, NEW m \in muts, Leave(m) PROVE IInv'
  <1> DEFINE rest == muts \ {m}
  <1>1. /\ view' = view /\ admin' = admin /\ server' = server /\ acked' = acked
        /\ writes' = writes /\ faults' = faults /\ m.st = "refetching"
    BY DEF Leave, limits
  <1>2. /\ Typed /\ Fixed /\ Backed /\ cache \in [Keys -> CacheEntry] /\ acked \in [Ids -> Nat]
        /\ \A i \in Ids : acked[i] <= server[i].v
    BY DEF IInv, Typed, Backed
  <1>3. Waits(m) /\ WellFormed(m.a) /\ m.a.drops = {}
    BY <1>1, Over DEF IInv, Made
  <1>4. m.a.push \in Routes
    BY <1>3 DEF Waits, WellFormed
  <1>5. \A k : Pending(k, rest) <=> Pending(k, muts)
    BY <1>3 DEF Pending, Under
  <1>6. NoGhosts(cache, rest, Watched)
    BY <1>5 DEF IInv, GhostInv, NoGhosts
  <1>7. CASE m.a.push = route
    <2>1. muts' = rest /\ cache' = cache /\ due' = due /\ route' = route /\ panel' = panel
      BY <1>7 DEF Leave, tab
    <2>2. /\ muts' \subseteq Mutation
          /\ Counted'
          /\ \A x \in muts' : /\ DOMAIN x.prev = x.a.drops
                              /\ x.a \in PageAt(x.from).acts
                              /\ x.st = "refetching" => Waits(x)
                              /\ x.st \in {"applied", "refetching"} =>
                                   0 < x.v /\ x.v <= server'[x.a.item].v
      BY <1>1, <2>1, Over, MutsKeep
    <2>3. Typed'
      BY <1>1, <1>2, <2>1, <2>2, Primed DEF Typed
    <2>4. Made' /\ Backed' /\ GhostInv' /\ FreshInv'
      BY <1>1, <1>2, <1>6, <2>1, <2>2, Primed, OldFrame DEF IInv, Backed, FreshInv
    <2> QED BY <2>2, <2>3, <2>4 DEF IInv
  <1>8. CASE m.a.push # route
    <2>1. muts' = Unhook(rest) /\ Reach(cache, m.a.push, acked)
      BY <1>8 DEF Leave
    <2>2. /\ \A o \in muts' : \E x \in rest : Stays(o, x)
          /\ \A o, q \in muts' : o.n = q.n => o = q
          /\ \A k : Pending(k, muts') <=> Pending(k, rest)
      BY <2>1, UnhookKeeps
    <2>3. NoGhosts(cache, muts', Watched)
      BY <1>6, <2>2 DEF NoGhosts
    <2>4. /\ route' \in Routes /\ panel' \in Ids \cup {None}
          /\ cache' \in [Keys -> CacheEntry] /\ due' \in [Keys -> [Ids -> Nat]]
          /\ \A i \in Ids : \A k \in Keys : due'[k][i] <= server'[i].v
          /\ NoGhosts(cache', muts', WatchedBy(Observers(route', panel')))
          /\ FreshInv'
      BY <1>1, <1>2, <1>4, <1>8, <2>1, <2>3, ReachKeeps
    <2>5. /\ muts' \subseteq Mutation
          /\ Counted'
          /\ \A x \in muts' : /\ DOMAIN x.prev = x.a.drops
                              /\ x.a \in PageAt(x.from).acts
                              /\ x.st = "refetching" => Waits(x)
                              /\ x.st \in {"applied", "refetching"} =>
                                   0 < x.v /\ x.v <= server'[x.a.item].v
      BY <1>1, <2>2, MutsKeep
    <2>6. Typed'
      BY <1>1, <1>2, <2>4, <2>5, Primed DEF Typed
    <2>7. Made' /\ Backed' /\ GhostInv'
      BY <1>1, <1>2, <2>2, <2>4, <2>5, Primed
    <2> QED BY <2>4, <2>5, <2>6, <2>7 DEF IInv
  <1> QED BY <1>7, <1>8

(* What a write missed its refetch is marked, and otherwise as it was. *)
LEMMA MissesKeep ==
  ASSUME NEW m, NEW c \in [Keys -> CacheEntry], NEW ms, NoGhosts(c, ms, Watched)
  PROVE  /\ Misses(m, c) \in [Keys -> CacheEntry] /\ NoGhosts(Misses(m, c), ms, Watched)
         /\ \A k \in Keys : Misses(m, c)[k] = c[k] \/ \A x : EntryFresh(Misses(m, c)[k], x)
         /\ \A k \in Keys :
              m.live /\ k \in Always(route, None) /\ (~Callbacks(m) \/ m.from # route) =>
                \A x : EntryFresh(Misses(m, c)[k], x)
  <1> DEFINE b == Misses(m, c)
             overlooked(k) == /\ m.live /\ k \in Always(route, None)
                              /\ ~Callbacks(m) \/ m.from # route
  <1>1. b = [k \in Keys |-> IF overlooked(k) THEN [c[k] EXCEPT !.missed = TRUE] ELSE c[k]]
    BY DEF Misses
  <1> HIDE DEF b, overlooked
  <1>2. \A k \in Keys :
          /\ b[k] \in CacheEntry
          /\ b[k].edited = c[k].edited /\ b[k].has = c[k].has
          /\ b[k].invalid = c[k].invalid /\ b[k].st = c[k].st /\ b[k].failed = c[k].failed
          /\ overlooked(k) => b[k].missed
          /\ ~overlooked(k) => b[k] = c[k]
    <2> SUFFICES ASSUME NEW k \in Keys
                 PROVE  /\ b[k] \in CacheEntry
                        /\ b[k].edited = c[k].edited /\ b[k].has = c[k].has
                        /\ b[k].invalid = c[k].invalid /\ b[k].st = c[k].st
                        /\ b[k].failed = c[k].failed
                        /\ overlooked(k) => b[k].missed
                        /\ ~overlooked(k) => b[k] = c[k]
      OBVIOUS
    <2>1. c[k] \in CacheEntry
      OBVIOUS
    <2>2. b[k] = IF overlooked(k) THEN [c[k] EXCEPT !.missed = TRUE] ELSE c[k]
      BY <1>1
    <2> QED BY <2>1, <2>2 DEF CacheEntry
  <1>3. b \in [Keys -> CacheEntry]
    BY <1>1, <1>2
  <1>4. NoGhosts(b, ms, Watched)
    BY <1>2 DEF NoGhosts, Settling
  <1>5. \A k \in Keys : overlooked(k) => \A x : EntryFresh(b[k], x)
    BY <1>2 DEF EntryFresh
  <1> QED BY <1>2, <1>3, <1>4, <1>5 DEF b, overlooked

(* What onSuccess leaves in the cache before it invalidates. *)
Answered(m) == ReplaceRow(cache, m.a.sets, m.a.item, Applied([v |-> m.v - 1], m.a.w))
LEMMA AnsweredKeeps ==
  ASSUME IInv, NEW m \in muts, m.st = "applied"
  PROVE  /\ Answered(m) \in [Keys -> CacheEntry]
         /\ \A k \in Keys : /\ ~Under(k, m.a.keys) => Answered(m)[k] = cache[k]
                            /\ Answered(m)[k].edited => Answered(m)[k].has
  <1> DEFINE a == m.a
             row == Applied([v |-> m.v - 1], a.w)
  <1>1. /\ cache \in [Keys -> CacheEntry] /\ m \in Mutation /\ WellFormed(a)
        /\ 0 < m.v /\ m.v \in 0..WritesBound /\ a.item \in Ids
        /\ \A k \in Keys : cache[k].edited => cache[k].has
    BY Over DEF IInv, Typed, Backed, GhostInv, NoGhosts, Mutation, WellFormed
  <1>2. row \in Row_
    BY <1>1, BoundNat DEF Applied, Row_
  <1>3. \A k \in a.sets : Under(k, a.keys)
    BY <1>1 DEF WellFormed, Under
  <1> HIDE DEF row
  <1>4. Answered(m) = ReplaceRow(cache, a.sets, a.item, row)
    BY DEF Answered, row
  <1> DEFINE ks == a.sets
             i == a.item
             d == ReplaceRow(cache, ks, i, row)
  <1>5. /\ d \in [Keys -> CacheEntry]
        /\ \A k \in Keys : (k \notin ks => d[k] = cache[k]) /\ (d[k].edited => d[k].has)
    <2>1. /\ i \in Ids /\ cache \in [Keys -> CacheEntry]
          /\ \A k \in Keys : cache[k].edited => cache[k].has
      BY <1>1
    <2> HIDE DEF ks, i
    <2> QED BY <1>2, <2>1, ReplaceRowKeeps
  <1> HIDE DEF d
  <1>6. /\ d \in [Keys -> CacheEntry]
        /\ \A k \in Keys : (~Under(k, a.keys) => d[k] = cache[k]) /\ (d[k].edited => d[k].has)
    BY <1>3, <1>5
  <1> QED BY <1>4, <1>6 DEF d

(* The four ways a successful answer goes on: the whole page reloads, the callback *)
(* waits, the page is left, or it stays and its observers owe the write.           *)
LEMMA SucceedKeeps == ASSUME IInv, NEW m \in muts, Succeed(m) PROVE IInv'
  <1> DEFINE a == m.a
             ack == [acked EXCEPT ![a.item] = IF @ < m.v THEN m.v ELSE @]
             on == Callbacks(m)
             row == Applied([v |-> m.v - 1], a.w)
             d == ReplaceRow(cache, a.sets, a.item, row)
             c == IF on THEN Invalidate(d, Invalidated(a)) ELSE cache
             rest == muts \ {m}
             done == [m EXCEPT !.st = "refetching"]
  <1>1. /\ view' = view /\ admin' = admin /\ server' = server /\ acked' = ack
        /\ writes' = writes /\ faults' = faults /\ m.st = "applied"
    BY DEF Succeed, limits
  <1>2. \/ /\ cache' = [k \in Keys |-> IF k \in WatchedBy(Observers(route, None))
                                       THEN Fetch(NoEntry) ELSE NoEntry]
           /\ due' = DueOnShow(route, ack)
           /\ panel' = None /\ muts' = {} /\ UNCHANGED route
        \/ /\ Waits(m) /\ cache' = c /\ due' = due /\ muts' = rest \cup {done}
           /\ route' = route /\ panel' = panel
        \/ /\ a.push \notin {NoPush, route} /\ Reach(c, a.push, ack) /\ muts' = Unhook(rest)
        \/ /\ "reload" \notin a.how /\ ~Waits(m) /\ a.push \in {NoPush, route}
           /\ panel' = IF Closes(a) /\ m.live THEN None ELSE panel
           /\ Shows(Misses(m, c), route, panel')
           /\ due' = DueOnAck(m, ack) /\ muts' = rest /\ route' = route
    BY DEF Succeed, tab
  <1>3. /\ Typed /\ Fixed /\ Backed /\ view \in Views /\ cache \in [Keys -> CacheEntry]
        /\ due \in [Keys -> [Ids -> Nat]]
    BY DEF IInv, Typed, Fixed
  <1>4. /\ m \in Mutation /\ a \in AllActs /\ WellFormed(a) /\ (~on => a.drops = {})
        /\ 0 < m.v /\ m.v \in 0..WritesBound /\ m.v <= server[a.item].v /\ a.item \in Ids
        /\ \A k \in Keys : cache[k].edited => cache[k].has
    BY <1>1, Over DEF IInv, Backed, GhostInv, NoGhosts, Mutation, WellFormed
  <1>5. /\ ack \in [Ids -> Nat] /\ \A i \in Ids : ack[i] <= server[i].v
    <2>1. acked \in [Ids -> Nat] /\ m.v \in Nat
      BY <1>3, <1>4, BoundNat DEF Typed
    <2> QED BY <1>3, <1>4, <2>1 DEF Backed
  <1>7. on \in BOOLEAN
    BY DEF Callbacks
  <1> HIDE DEF row, on
  <1>8. /\ d \in [Keys -> CacheEntry]
        /\ \A k \in Keys : /\ ~Under(k, a.keys) => d[k] = cache[k]
                           /\ d[k].edited => d[k].has
    BY <1>1, AnsweredKeeps DEF Answered, row
  <1> HIDE DEF d
  <1>9. /\ c \in [Keys -> CacheEntry]
        /\ NoGhosts(c, rest, Watched)
        /\ \A k \in Keys : c[k] = cache[k] \/ (k \in Watched => \A x : EntryFresh(c[k], x))
        /\ on => \A k \in Keys : Under(k, a.keys) /\ k \in Watched => \A x : EntryFresh(c[k], x)
    BY <1>4, <1>7, <1>8, CallbacksKeep
  <1> HIDE DEF c, ack
  <1>10. Always(route, panel) \subseteq Keys /\ Always(route, panel) \subseteq Watched
    BY <1>3, WatchedKeys, OldFrame
  <1>11. CASE /\ cache' = [k \in Keys |-> IF k \in WatchedBy(Observers(route, None))
                                          THEN Fetch(NoEntry) ELSE NoEntry]
              /\ due' = DueOnShow(route, ack)
              /\ panel' = None /\ muts' = {} /\ UNCHANGED route
    <2>1. /\ Fetch(NoEntry) \in CacheEntry /\ ~Fetch(NoEntry).edited
          /\ \A x : EntryFresh(Fetch(NoEntry), x)
      BY RowTypes, FetchEntry
    <2>2. cache' \in [Keys -> CacheEntry] /\ \A k \in Keys : ~cache'[k].edited
      BY <1>11, <2>1, RowTypes
    <2>3. /\ due' \in [Keys -> [Ids -> Nat]]
          /\ \A i \in Ids : \A k \in Keys : due'[k][i] <= server[i].v
      BY <1>3, <1>5, <1>11 DEF DueOnShow, Backed
    <2>4. Typed'
      BY <1>1, <1>3, <1>5, <1>11, <2>2, <2>3, Primed DEF Typed
    <2>5. Made' /\ Backed'
      BY <1>1, <1>3, <1>5, <1>11, <2>3, Primed
    <2>6. Counted'
      <3>1. /\ \A o \in muts' : \E x \in muts : Stays(o, x)
            /\ \A o, q \in muts' : o.n = q.n => o = q
        BY <1>11
      <3> QED BY <1>1, <3>1, MutsKeep
    <2>7. GhostInv'
      BY <1>1, <1>3, <2>2, Primed DEF NoGhosts
    <2>8. FreshInv'
      <3>1. \A k \in Always(route, None) : k \in Keys /\ cache'[k] = Fetch(NoEntry)
        BY <1>3, <1>11, WatchedKeys
      <3>2. \A k \in Always(route', panel') : EntryFresh(cache'[k], due'[k])
        BY <1>11, <2>1, <3>1
      <3> QED BY <1>1, <1>3, <3>2, Primed
    <2> QED BY <2>4, <2>5, <2>6, <2>7, <2>8 DEF IInv
  <1>12. CASE /\ Waits(m) /\ cache' = c /\ due' = due /\ muts' = rest \cup {done}
              /\ route' = route /\ panel' = panel
    <2>1. Stays(done, m) /\ done.n = m.n /\ done.a = m.a
      BY <1>1, <1>4, <1>12 DEF Mutation, Stays
    <2> HIDE DEF done
    <2>2. /\ \A o \in muts' : \E x \in muts : Stays(o, x)
          /\ \A o, q \in muts' : o.n = q.n => o = q
      <3>1. \A o \in rest : \E x \in muts : Stays(o, x)
        BY Over
      <3>2. \A o, q \in muts : o.n = q.n => o = q
        BY DEF IInv, Counted
      <3> QED BY <1>12, <2>1, <3>1, <3>2
    <2>3. /\ muts' \subseteq Mutation
          /\ Counted'
          /\ \A x \in muts' : /\ DOMAIN x.prev = x.a.drops
                              /\ x.a \in PageAt(x.from).acts
                              /\ x.st = "refetching" => Waits(x)
                              /\ x.st \in {"applied", "refetching"} =>
                                   0 < x.v /\ x.v <= server'[x.a.item].v
      BY <1>1, <2>2, MutsKeep
    <2>4. NoGhosts(cache', muts', Watched)
      BY <1>9, <1>12 DEF NoGhosts, Pending
    <2>5. Typed'
      BY <1>1, <1>3, <1>5, <1>9, <1>12, <2>3, Primed DEF Typed
    <2>6. Made' /\ Backed' /\ GhostInv'
      BY <1>1, <1>3, <1>5, <1>12, <2>3, <2>4, Primed, OldFrame DEF Backed
    <2>7. FreshInv'
      BY <1>1, <1>3, <1>9, <1>10, <1>12, Primed DEF IInv, FreshInv
    <2> QED BY <2>3, <2>5, <2>6, <2>7 DEF IInv
  <1>13. CASE a.push \notin {NoPush, route} /\ Reach(c, a.push, ack) /\ muts' = Unhook(rest)
    <2>1. a.push \in Routes
      BY <1>4, <1>13 DEF WellFormed
    <2>2. /\ \A o \in muts' : \E x \in rest : Stays(o, x)
          /\ \A o, q \in muts' : o.n = q.n => o = q
          /\ \A k : Pending(k, muts') <=> Pending(k, rest)
      BY <1>13, UnhookKeeps
    <2>3. NoGhosts(c, muts', Watched)
      BY <1>9, <2>2 DEF NoGhosts
    <2>4. /\ route' \in Routes /\ panel' \in Ids \cup {None}
          /\ cache' \in [Keys -> CacheEntry] /\ due' \in [Keys -> [Ids -> Nat]]
          /\ \A i \in Ids : \A k \in Keys : due'[k][i] <= server'[i].v
          /\ NoGhosts(cache', muts', WatchedBy(Observers(route', panel')))
          /\ FreshInv'
      BY <1>1, <1>3, <1>5, <1>9, <1>13, <2>1, <2>3, ReachKeeps
    <2>5. /\ muts' \subseteq Mutation
          /\ Counted'
          /\ \A x \in muts' : /\ DOMAIN x.prev = x.a.drops
                              /\ x.a \in PageAt(x.from).acts
                              /\ x.st = "refetching" => Waits(x)
                              /\ x.st \in {"applied", "refetching"} =>
                                   0 < x.v /\ x.v <= server'[x.a.item].v
      BY <1>1, <2>2, MutsKeep
    <2>6. Typed'
      BY <1>1, <1>3, <1>5, <2>4, <2>5, Primed DEF Typed
    <2>7. Made' /\ Backed' /\ GhostInv'
      BY <1>1, <1>3, <1>5, <2>2, <2>4, <2>5, Primed
    <2> QED BY <2>4, <2>5, <2>6, <2>7 DEF IInv
  <1>14. CASE /\ "reload" \notin a.how /\ ~Waits(m) /\ a.push \in {NoPush, route}
              /\ panel' = IF Closes(a) /\ m.live THEN None ELSE panel
              /\ Shows(Misses(m, c), route, panel')
              /\ due' = DueOnAck(m, ack) /\ muts' = rest /\ route' = route
    <2> DEFINE b == Misses(m, c)
    <2>0. /\ b \in [Keys -> CacheEntry] /\ NoGhosts(b, rest, Watched)
          /\ \A k \in Keys : b[k] = c[k] \/ \A x : EntryFresh(b[k], x)
          /\ \A k \in Keys : m.live /\ k \in Always(route, None) /\ (~on \/ m.from # route) =>
                              \A x : EntryFresh(b[k], x)
      BY <1>9, MissesKeep DEF on
    <2> HIDE DEF b
    <2>1. panel' \in {None, panel} /\ panel' \in Ids \cup {None}
      BY <1>3, <1>14 DEF Typed
    <2>2. /\ cache' \in [Keys -> CacheEntry]
          /\ NoGhosts(cache', rest, WatchedBy(Observers(route, panel')))
          /\ \A k \in Always(route, panel') :
               \/ k \in Watched /\ cache'[k] = b[k]
               \/ \A x : EntryFresh(cache'[k], x)
      <3>1. Shows(b, route, panel')
        BY <1>14 DEF b
      <3> QED BY <1>3, <2>0, <3>1, ShowsKeeps
    <2>3. \A k \in Keys :
            due'[k] = IF m.live /\ k \in Always(route, None) THEN ack ELSE due[k]
      BY <1>14 DEF DueOnAck
    <2>4. due' = [k \in Keys |-> due'[k]]
      BY <1>14 DEF DueOnAck
    <2>5. /\ due' \in [Keys -> [Ids -> Nat]]
          /\ \A i \in Ids : \A k \in Keys : due'[k][i] <= server[i].v
      <3>1. \A k \in Keys : due'[k] \in [Ids -> Nat]
        BY <1>3, <1>5, <2>3
      <3>2. \A i \in Ids : \A k \in Keys : due'[k][i] <= server[i].v
        BY <1>3, <1>5, <2>3 DEF Backed
      <3> QED BY <2>4, <3>1, <3>2
    <2>6. /\ muts' \subseteq Mutation
          /\ Counted'
          /\ \A x \in muts' : /\ DOMAIN x.prev = x.a.drops
                              /\ x.a \in PageAt(x.from).acts
                              /\ x.st = "refetching" => Waits(x)
                              /\ x.st \in {"applied", "refetching"} =>
                                   0 < x.v /\ x.v <= server'[x.a.item].v
      BY <1>1, <1>14, Over, MutsKeep
    <2>7. Typed'
      BY <1>1, <1>3, <1>5, <1>14, <2>1, <2>2, <2>5, <2>6, Primed DEF Typed
    <2>8. Made' /\ Backed' /\ GhostInv'
      BY <1>1, <1>3, <1>5, <1>14, <2>2, <2>5, <2>6, Primed, OldFrame
    <2>9. FreshInv'
      <3> SUFFICES ASSUME NEW k \in Always(route, panel'), k \in Watched, cache'[k] = b[k]
                   PROVE  EntryFresh(b[k], due'[k])
        BY <1>1, <1>3, <1>14, <2>2, Primed
      <3>1. k \in Always(route, panel) /\ k \in Keys
        <4>1. k \in Always(route, panel)
          BY <1>3, <2>1, PanelWatches DEF Always, WatchedBy
        <4> QED BY <1>10, <4>1
      <3>2. EntryFresh(c[k], due[k])
        BY <1>9, <3>1 DEF IInv, FreshInv
      <3>3. CASE m.live /\ k \in Always(route, None) /\ (~on \/ m.from # route)
        BY <2>0, <3>1, <3>3
      <3>4. CASE m.live /\ k \in Always(route, None) /\ on /\ m.from = route
        <4>1. a \in PageAt(route).acts
          BY <3>4 DEF IInv, Made
        <4>2. Under(k, a.keys)
          BY <1>3, <1>14, <3>4, <4>1, ActsOfPage DEF Waits
        <4> QED BY <1>9, <2>0, <3>1, <3>4, <4>2
      <3>5. CASE ~(m.live /\ k \in Always(route, None))
        BY <2>0, <2>3, <3>1, <3>2, <3>5
      <3> QED BY <3>3, <3>4, <3>5
    <2> QED BY <2>6, <2>7, <2>8, <2>9 DEF IInv
  <1> QED BY <1>2, <1>11, <1>12, <1>13, <1>14

-----------------------------------------------------------------------------
(* The boards of the global approvals page. What is not on screen there comes back    *)
(* without a refetch, so its entry must keep its promise while nobody watches it.     *)

(* An entry without a mark reflects what was due when it was last watched. *)
Kept(e, d) ==
  /\ /\ e.has /\ e.st = "idle" /\ ~e.failed /\ ~e.late /\ ~e.edited
     /\ ~e.missed /\ ~e.partial /\ ~e.invalid
     => \A i \in Ids : e.data[i].v >= d[i]
  /\ e.st = "answered" /\ ~e.late /\ ~e.missed => \A i \in Ids : e.ans[i].v >= d[i]
AllKept(c, owed) == \A k \in Keys : ~Aborts(k) => Kept(c[k], owed[k])
KeptInv == coll = GlobalApprovals(MyId).of => AllKept(cache, due)

(* It does after a step that keeps the view and every entry's promise. *)
LEMMA KeptPrimed ==
  ASSUME view' = view, admin' = admin
  PROVE  /\ coll' = coll /\ KeptInv' <=> (coll = GlobalApprovals(MyId).of => AllKept(cache', due'))
  <1>1. Keys' = Keys /\ coll' = coll /\ \A k : Aborts(k)' <=> Aborts(k)
    BY DEF Keys, coll, Aborts
  <1>2. AllKept(cache, due)' <=> AllKept(cache', due')
    BY <1>1 DEF AllKept, Kept
  <1> QED BY <1>1, <1>2 DEF KeptInv

(* A fresh entry keeps its promise; one that is mounted is fresh if it did. *)
LEMMA KeptEntry ==
  ASSUME NEW e \in CacheEntry, NEW d
  PROVE  /\ EntryFresh(e, d) => Kept(e, d)
         /\ Kept(NoEntry, d)
         /\ \A eager \in BOOLEAN : Kept(e, d) => EntryFresh(MountEntry(e, eager), d)
  <1>1. Kept(NoEntry, d)
    BY DEF Kept, NoEntry
  <1>2. EntryFresh(e, d) => Kept(e, d)
    BY DEF Kept, EntryFresh
  <1>3. ASSUME NEW eager \in BOOLEAN, Kept(e, d)
        PROVE  EntryFresh(MountEntry(e, eager), d)
    <2>1. CASE e.st # "idle"
      <3>1. MountEntry(e, eager) = [e EXCEPT !.late = TRUE]
        BY <2>1 DEF MountEntry
      <3> QED BY <2>1, <3>1 DEF CacheEntry, EntryFresh
    <2>2. CASE e.st = "idle" /\ (eager \/ ~e.has \/ e.invalid)
      BY <2>2, FetchEntry DEF MountEntry
    <2>3. CASE e.st = "idle" /\ ~(eager \/ ~e.has \/ e.invalid)
      BY <1>3, <2>3 DEF MountEntry, Kept, EntryFresh
    <2> QED BY <2>1, <2>2, <2>3
  <1> QED BY <1>1, <1>2, <1>3

(* Whatever page is shown, entries keep their promises, and what comes on screen is *)
(* fresh.                                                                           *)
LEMMA ShowKept ==
  ASSUME NEW c \in [Keys -> CacheEntry], NEW r, NEW p, NEW collected, NEW eager,
         cache' = Show(c, r, p, collected, eager),
         NEW k \in Keys, ~Aborts(k), NEW d, Kept(c[k], d)
  PROVE  /\ Kept(cache'[k], d)
         /\ k \in Coming(r, p) => EntryFresh(cache'[k], d)
  <1> DEFINE e == IF k \in collected THEN NoEntry
                  ELSE IF k \in Leaving(r, p) THEN UnmountEntry(k, c[k]) ELSE c[k]
             now == k \in eager
  <1>1. cache'[k] = IF k \in Coming(r, p) THEN MountEntry(e, now) ELSE e
    BY DEF Show
  <1>2. e \in {NoEntry, c[k]} /\ now \in BOOLEAN
    BY DEF UnmountEntry
  <1> HIDE DEF e, now
  <1>3. e \in CacheEntry /\ Kept(e, d)
    BY <1>2, RowTypes, KeptEntry
  <1>4. MountEntry(e, now) \in CacheEntry /\ EntryFresh(MountEntry(e, now), d)
    BY <1>2, <1>3, MountOfEntry, KeptEntry
  <1> QED BY <1>1, <1>3, <1>4, KeptEntry

(* The same, with what a mount makes due. *)
LEMMA ShowsKept ==
  ASSUME view \in Views, NEW c \in [Keys -> CacheEntry], NEW r, NEW p, Shows(c, r, p),
         AllKept(c, due), r = route \/ p = None, NEW ack,
         due' = IF r = route THEN due ELSE DueOnShow(r, ack)
  PROVE  AllKept(cache', due')
  <1>1. PICK collected, stale : cache' = Show(c, r, p, collected, Always(r, p) \cup stale)
    BY DEF Shows
  <1> SUFFICES ASSUME NEW k \in Keys, ~Aborts(k) PROVE Kept(cache'[k], due'[k])
    BY DEF AllKept
  <1>2. Kept(c[k], due[k])
    BY DEF AllKept
  <1>3. Kept(cache'[k], due[k])
    BY <1>1, <1>2, ShowKept
  <1>4. CASE r # route /\ k \in Always(r, None)
    <2> DEFINE e == IF k \in collected THEN NoEntry
                    ELSE IF k \in Leaving(r, p) THEN UnmountEntry(k, c[k]) ELSE c[k]
    <2>1. k \in Coming(r, p)
      BY <1>4, WatchedKeys DEF Coming
    <2>2. cache'[k] = MountEntry(e, k \in Always(r, p) \cup stale)
      BY <1>1, <2>1 DEF Show
    <2>3. (k \in Always(r, p) \cup stale) = TRUE
      BY <1>4
    <2>4. e \in CacheEntry
      BY RowTypes DEF UnmountEntry
    <2> HIDE DEF e
    <2>5. cache'[k] = MountEntry(e, TRUE)
      BY <2>2, <2>3
    <2>6. cache'[k] \in CacheEntry /\ EntryFresh(cache'[k], due'[k])
      BY <2>4, <2>5, MountOfEntry
    <2> QED BY <2>6, KeptEntry
  <1>5. CASE ~(r # route /\ k \in Always(r, None))
    BY <1>3, <1>5 DEF DueOnShow
  <1> QED BY <1>4, <1>5

LEMMA ReachKept ==
  ASSUME view \in Views, NEW c \in [Keys -> CacheEntry], NEW r, NEW ack, Reach(c, r, ack),
         AllKept(c, due)
  PROVE  AllKept(cache', due')
  <1>1. CASE r = route
    BY <1>1 DEF Reach
  <1>2. CASE r # route
    <2>1. Shows(c, r, None) /\ due' = DueOnShow(r, ack)
      BY <1>2 DEF Reach
    <2> QED BY <1>2, <2>1, ShowsKept
  <1> QED BY <1>1, <1>2

(* What is invalidated owes nothing to anyone. *)
LEMMA InvalidateKept ==
  ASSUME NEW c \in [Keys -> CacheEntry], NEW ks, NEW k \in Keys, Under(k, ks), NEW d
  PROVE  Kept(Invalidate(c, ks)[k], d)
  <1> DEFINE e == c[k]
             on == k \in Watched
  <1>1. Invalidate(c, ks)[k] = InvalidateEntry(e, on) /\ e \in CacheEntry /\ on \in BOOLEAN
    BY DEF Invalidate
  <1> HIDE DEF e, on
  <1>2. InvalidateEntry(e, on) \in CacheEntry
    BY <1>1, InvalidateOfEntry
  <1>3. CASE ~e.has /\ e.st # "idle"
    <2>1. InvalidateEntry(e, on) = [e EXCEPT !.invalid = TRUE, !.late = TRUE]
      BY <1>3 DEF InvalidateEntry
    <2> QED BY <1>1, <1>3, <2>1 DEF CacheEntry, Kept
  <1>4. CASE on
    <2>1. EntryFresh(InvalidateEntry(e, on), d)
      BY <1>1, <1>4, InvalidateOfEntry
    <2> QED BY <1>1, <1>2, <2>1, KeptEntry
  <1>5. CASE e.has /\ ~on
    <2>1. InvalidateEntry(e, on) = [e EXCEPT !.invalid = TRUE, !.late = @ \/ e.st # "idle"]
      BY <1>5 DEF InvalidateEntry
    <2> QED BY <1>1, <1>5, <2>1 DEF CacheEntry, Kept
  <1>6. CASE ~e.has /\ e.st = "idle" /\ ~on
    BY <1>1, <1>6 DEF InvalidateEntry, Kept
  <1> QED BY <1>1, <1>3, <1>4, <1>5, <1>6

(* What the callbacks of a mutation leave alone keeps its promise. *)
LEMMA CallbacksKept ==
  ASSUME cache \in [Keys -> CacheEntry], NEW m, NEW d \in [Keys -> CacheEntry],
         NEW on \in BOOLEAN, \A k \in Keys : ~Under(k, m.a.keys) => d[k] = cache[k],
         NEW c, c = IF on THEN Invalidate(d, Invalidated(m.a)) ELSE cache
  PROVE  /\ \A k \in Keys : c[k] = cache[k] \/ \A x : Kept(c[k], x)
         /\ on => \A k \in Keys : Under(k, m.a.keys) => \A x : Kept(c[k], x)
  <1> DEFINE ks == Invalidated(m.a)
  <1>1. \A k : Under(k, m.a.keys) => Under(k, ks)
    BY DEF Under, Invalidated
  <1>2. CASE on
    <2>1. c = Invalidate(d, ks)
      BY <1>2
    <2> HIDE DEF ks
    <2>2. \A k \in Keys : Under(k, ks) => \A x : Kept(c[k], x)
      BY <2>1, InvalidateKept
    <2>3. \A k \in Keys : ~Under(k, ks) => c[k] = d[k]
      BY <2>1, InvalidateKeeps
    <2> QED BY <1>1, <1>2, <2>2, <2>3
  <1>3. CASE ~on
    BY <1>3
  <1> QED BY <1>2, <1>3

(* Showing something else of the same page, or another page of the global approvals, *)
(* makes nothing due.                                                                *)
LEMMA ShowsHere ==
  ASSUME NEW c \in [Keys -> CacheEntry], NEW r, NEW p, NEW collected, NEW eager,
         cache' = Show(c, r, p, collected, eager), NEW owed, AllKept(c, owed)
  PROVE  AllKept(cache', owed)
  BY ShowKept DEF AllKept

(* All that a global approvals page watches is read without a signal. *)
LEMMA GlobalReads ==
  ASSUME view \in Views, coll = GlobalApprovals(MyId).of, NEW r \in GlobalRoutes, NEW p,
         NEW k \in WatchedBy(Observers(r, p))
  PROVE  k \in Keys /\ ~Aborts(k)
  <1>1. PICK s \in Ids : r = GlobalApprovalsPage(s).at
    BY DEF GlobalRoutes
  <1>2. PICK page \in Site \cup {ElsewherePage} :
          PageAt(r) = ViewOf(coll, page) /\ (page.at = r \/ page = ElsewherePage)
    BY PageOfView
  <1>3. PICK o \in PageAt(r).queries \cup {x[2] : x \in PageAt(r).panel} : o.q.key = k
    BY WatchedKeys DEF WatchedBy
  <1>4. coll = <<"approvals", MyId>>
    BY GlobalKey
  <1>5. \A at : \A x \in DashboardShell(at) : x.q.of # coll
    BY <1>4, ShellOf
  <1>6. CASE page = ElsewherePage
    <2>1. PageAt(r).queries = {} /\ PageAt(r).panel = {}
      BY <1>2, <1>5, <1>6, ViewFields, ElsewhereFields DEF PageWatches
    <2> QED BY <1>3, <2>1
  <1>7. CASE page # ElsewherePage
    <2>1. GlobalApprovalsPage(s) \in Site
      BY SitePages DEF ItemPages
    <2>2. page = GlobalApprovalsPage(s)
      BY <1>1, <1>2, <1>7, <2>1, RoutesNamePages
    <2>3. PageAt(r).panel = {}
      <3>1. GlobalApprovalsPage(s).panel = {}
        BY DEF GlobalApprovalsPage, Page
      <3> QED BY <1>2, <2>2, <3>1, ViewFields
    <2>4. o \in GlobalApprovalsPage(s).queries /\ o.q.of = <<"approvals", MyId>>
      BY <1>2, <1>3, <1>4, <1>5, <2>2, <2>3, ViewFields DEF PageWatches
    <2>5. o.q = GlobalApprovals(s)
      BY <2>4 DEF GlobalApprovalsPage, listBoardsApiV1BoardsGet, List, Read, Watch, Page
    <2>6. o \in AllWatches
      BY <2>1, <2>4, InAllWatches
    <2>7. \A q \in view.watches : q.key = k => q = o.q
      BY <1>3, <2>6, ViewForm, KeysNameReads
    <2> QED BY <2>5, <2>7, GlobalKey, WatchedKeys DEF Aborts
  <1> QED BY <1>6, <1>7

(* When the boards change the new entry is fresh though nothing reads it again. *)
LEMMA BoardsChangeKeeps ==
  ASSUME IInv, KeptInv, NEW p \in view.pages, BoardsChange(p)
  PROVE  IInv'
  <1> DEFINE r == p.at
  <1>1. /\ view' = view /\ admin' = admin /\ route' = r /\ panel' = panel
        /\ server' = server /\ muts' = muts /\ acked' = acked /\ due' = due
        /\ writes' = writes /\ faults' = faults
        /\ r # route /\ r \in GlobalRoutes /\ coll = GlobalApprovals(MyId).of
    BY DEF BoardsChange
  <1>2. Typed /\ Fixed /\ view \in Views /\ cache \in [Keys -> CacheEntry] /\ r \in Routes
    BY PageRoutes DEF IInv, Typed, Fixed
  <1>3. PICK collected \in SUBSET Coming(r, panel), eager \in SUBSET Coming(r, panel) :
          cache' = Show(cache, r, panel, collected, eager)
    BY DEF BoardsChange, Collectable
  <1> HIDE DEF r
  <1>4. /\ cache' \in [Keys -> CacheEntry]
        /\ NoGhosts(cache', muts, WatchedBy(Observers(r, panel)))
    BY <1>2, <1>3, ShowKeeps DEF IInv, GhostInv
  <1>5. Typed'
    BY <1>1, <1>2, <1>4, Primed DEF Typed
  <1>6. Made' /\ Backed' /\ Counted' /\ GhostInv'
    BY <1>1, <1>2, <1>4, Primed DEF IInv, Made, Backed, Counted
  <1>7. ASSUME NEW k \in Always(r, panel)
        PROVE  EntryFresh(cache'[k], due[k])
    <2>1. k \in WatchedBy(Observers(r, panel)) /\ k \in Coming(r, panel)
      BY <1>1, <1>2, WatchedKeys DEF Coming
    <2>2. k \in Keys /\ ~Aborts(k)
      BY <1>1, <1>2, <2>1, GlobalReads
    <2>3. Kept(cache[k], due[k])
      BY <1>1, <2>2 DEF KeptInv, AllKept
    <2> QED BY <1>2, <1>3, <2>1, <2>2, <2>3, ShowKept
  <1>8. FreshInv'
    BY <1>1, <1>2, <1>7, Primed
  <1> QED BY <1>5, <1>6, <1>8 DEF IInv

-----------------------------------------------------------------------------
(* Every step keeps the promises of the approvals. *)

(* An entry nobody read yet promises nothing. *)
LEMMA EmptyKept == \A x : Kept(NoEntry, x) /\ Kept(Fetch(NoEntry), x)
  BY RowTypes, FetchEntry, KeptEntry

(* Nothing was read when the tab opens. *)
LEMMA KeptInit == Init => KeptInv
  <1> SUFFICES ASSUME Init, NEW k \in Keys PROVE Kept(cache[k], due[k])
    BY DEF KeptInv, AllKept
  <1>1. cache[k] = Fetch(NoEntry) \/ cache[k] = NoEntry
    BY DEF Init
  <1> QED BY <1>1, EmptyKept

(* A step of one read. *)
LEMMA ReadsKept ==
  ASSUME IInv, AllKept(cache, due), NEW k \in Keys,
         Answer(k) \/ AnswerInPart(k) \/ Deliver(k) \/ FailRead(k) \/ Poll(k) \/ Focus(k)
  PROVE  AllKept(cache', due')
  <1>1. /\ cache \in [Keys -> CacheEntry] /\ cache[k] \in CacheEntry
        /\ \A i \in Ids : due[k][i] <= server[i].v
    BY DEF IInv, Typed, Backed
  <1>2. due' = due /\ cache' = [cache EXCEPT ![k] = cache'[k]]
    BY <1>1 DEF Answer, AnswerInPart, Deliver, FailRead, Poll, Focus, Entry
  <1>3. ~Aborts(k) => Kept(cache[k], due[k])
    BY DEF AllKept
  <1>4. ~Aborts(k) => Kept(cache'[k], due[k])
    <2>1. CASE Answer(k)
      <3>1. cache'[k] = [cache[k] EXCEPT !.st = "answered", !.ans = server]
        BY <1>1, <2>1 DEF Answer, Entry
      <3> QED BY <1>1, <3>1 DEF CacheEntry, Kept
    <2>2. CASE AnswerInPart(k)
      <3>1. cache'[k] = [cache[k] EXCEPT !.st = "partial"]
        BY <1>1, <2>2 DEF AnswerInPart, Entry
      <3> QED BY <1>1, <3>1 DEF CacheEntry, Kept
    <2>3. CASE Deliver(k)
      <3> DEFINE x == Cancel(cache[k])
                 y == SetData(x, cache[k].ans)
                 part == cache[k].st = "partial"
      <3>1. cache'[k] = [y EXCEPT !.failed = FALSE, !.edited = FALSE, !.partial = part]
        BY <1>1, <2>3 DEF Deliver, Entry
      <3>2. x \in CacheEntry /\ x.st = "idle" /\ x.late = cache[k].late
            /\ x.missed = cache[k].missed
        BY <1>1, RowTypes DEF Cancel, CacheEntry
      <3>3. cache[k].ans \in [Ids -> Row_] /\ part \in BOOLEAN
        BY <1>1 DEF CacheEntry
      <3>4. part \/ cache[k].st = "answered"
        BY <2>3 DEF Deliver
      <3> HIDE DEF x
      <3>5. /\ y \in CacheEntry /\ y.data = cache[k].ans /\ y.st = "idle"
            /\ y.late = cache[k].late /\ y.missed = cache[k].missed
        BY <3>2, <3>3, SetDataEntry
      <3> HIDE DEF y
      <3>6. /\ cache'[k].data = cache[k].ans /\ cache'[k].st = "idle"
            /\ cache'[k].late = cache[k].late /\ cache'[k].missed = cache[k].missed
            /\ cache'[k].partial = part
        BY <3>1, <3>3, <3>5 DEF CacheEntry
      <3> HIDE DEF part
      <3> QED BY <1>3, <3>4, <3>6 DEF Kept
    <2>4. CASE FailRead(k)
      <3> DEFINE x == Cancel(cache[k])
      <3>1. cache'[k] = [x EXCEPT !.failed = TRUE, !.invalid = TRUE]
        BY <1>1, <2>4 DEF FailRead, Entry
      <3>2. x \in CacheEntry /\ x.st = "idle"
        BY <1>1, CancelEntry
      <3> HIDE DEF x
      <3>3. cache'[k].failed /\ cache'[k].st = "idle"
        BY <3>1, <3>2 DEF CacheEntry
      <3> QED BY <3>3 DEF Kept
    <2>5. CASE Poll(k) \/ Focus(k)
      <3>1. cache'[k] = Fetch(cache[k])
        BY <1>1, <2>5 DEF Poll, Focus, Entry
      <3> QED BY <1>1, <3>1, FetchEntry DEF Kept
    <2> QED BY <2>1, <2>2, <2>3, <2>4, <2>5
  <1>5. \A x \in Keys : x # k => cache'[x] = cache[x]
    BY <1>1, <1>2
  <1> QED BY <1>2, <1>4, <1>5 DEF AllKept

(* A write whose refetch was missed leaves a mark, and what is marked promises nothing. *)
LEMMA MissesKept ==
  ASSUME NEW m, NEW c \in [Keys -> CacheEntry], NEW k \in Keys
  PROVE  \/ \A x : Kept(Misses(m, c)[k], x)
         \/ /\ Misses(m, c)[k] = c[k]
            /\ m.live /\ k \in Always(route, None) => Callbacks(m) /\ m.from = route
  <1> DEFINE over == /\ m.live /\ k \in Always(route, None)
                     /\ ~Callbacks(m) \/ m.from # route
  <1>1. Misses(m, c)[k] = IF over THEN [c[k] EXCEPT !.missed = TRUE] ELSE c[k]
    BY DEF Misses
  <1>2. CASE over
    <2>1. Misses(m, c)[k] = [c[k] EXCEPT !.missed = TRUE] /\ c[k] \in CacheEntry
      BY <1>1, <1>2
    <2>2. Misses(m, c)[k].missed
      BY <2>1 DEF CacheEntry
    <2> QED BY <2>2 DEF Kept
  <1>3. CASE ~over
    BY <1>1, <1>3
  <1> QED BY <1>2, <1>3

(* mutate edits no list ahead of the answer of a decision about an approval. *)
LEMMA MutateKept ==
  ASSUME IInv, coll = GlobalApprovals(MyId).of, NEW a \in Acts, Mutate(a)
  PROVE  \A k \in Keys : cache'[k] = cache[k] /\ due'[k] = due[k]
  <1>1. a \in AllActs /\ a.w.of = coll
    BY OldFrame, ActsOfPage DEF IInv, Typed, Fixed
  <1>2. a.drops = {}
    BY <1>1, ActsKnown, GlobalKey DEF WellFormed
  <1>3. cache' = OptimisticRemove(cache, {}, a.item) /\ due' = due
    BY <1>2 DEF Mutate
  <1> QED BY <1>3 DEF OptimisticRemove, Under

(* The server refused the write, or its answer was lost. *)
LEMMA ErrorKept ==
  ASSUME IInv, AllKept(cache, due), NEW m \in muts, Error(m)
  PROVE  AllKept(cache', due')
  <1> DEFINE on == "settled" \in m.a.how /\ Callbacks(m)
             d == Rollback(cache, m.prev)
  <1>1. /\ cache' = IF on THEN Invalidate(d, Invalidated(m.a)) ELSE cache
        /\ due' = due /\ cache \in [Keys -> CacheEntry] /\ on \in BOOLEAN
    BY DEF Error, IInv, Typed, Callbacks
  <1>2. /\ m.prev \in Snapshots /\ \A k \in DOMAIN m.prev : Under(k, m.a.keys)
        /\ \A k \in Keys : cache[k].edited => cache[k].has
    BY Over DEF IInv, Made, GhostInv, NoGhosts, Mutation, WellFormed, Under
  <1>3. d \in [Keys -> CacheEntry] /\ \A k \in Keys : ~Under(k, m.a.keys) => d[k] = cache[k]
    BY <1>1, <1>2, RollbackKeeps
  <1> HIDE DEF on, d
  <1>4. \A k \in Keys : cache'[k] = cache[k] \/ \A x : Kept(cache'[k], x)
    BY <1>1, <1>3, CallbacksKept
  <1> QED BY <1>1, <1>4 DEF AllKept

(* The four ways a successful answer goes on. *)
LEMMA SucceedKept ==
  ASSUME IInv, AllKept(cache, due), NEW m \in muts, Succeed(m)
  PROVE  AllKept(cache', due')
  <1> DEFINE a == m.a
             ack == [acked EXCEPT ![a.item] = IF @ < m.v THEN m.v ELSE @]
             on == Callbacks(m)
             d == Answered(m)
             c == IF on THEN Invalidate(d, Invalidated(a)) ELSE cache
  <1>1. \/ \A k \in Keys : cache'[k] = Fetch(NoEntry) \/ cache'[k] = NoEntry
        \/ cache' = c /\ due' = due
        \/ Reach(c, a.push, ack)
        \/ /\ "reload" \notin a.how /\ ~Waits(m) /\ a.push \in {NoPush, route}
           /\ Shows(Misses(m, c), route, panel') /\ due' = DueOnAck(m, ack)
    BY DEF Succeed, Answered
  <1>2. /\ view \in Views /\ cache \in [Keys -> CacheEntry] /\ on \in BOOLEAN
        /\ m.st = "applied"
    BY DEF IInv, Typed, Fixed, Callbacks, Succeed
  <1>3. d \in [Keys -> CacheEntry] /\ \A k \in Keys : ~Under(k, a.keys) => d[k] = cache[k]
    BY <1>2, AnsweredKeeps
  <1> HIDE DEF on, d
  <1>4. /\ \A k \in Keys : c[k] = cache[k] \/ \A x : Kept(c[k], x)
        /\ on => \A k \in Keys : Under(k, a.keys) => \A x : Kept(c[k], x)
    BY <1>2, <1>3, CallbacksKept
  <1>5. c \in [Keys -> CacheEntry]
    BY <1>2, <1>3, InvalidateKeeps
  <1>6. AllKept(c, due)
    BY <1>4 DEF AllKept
  <1> HIDE DEF c, ack
  <1>7. CASE \A k \in Keys : cache'[k] = Fetch(NoEntry) \/ cache'[k] = NoEntry
    BY <1>7, EmptyKept DEF AllKept
  <1>8. CASE cache' = c /\ due' = due
    BY <1>6, <1>8
  <1>9. CASE Reach(c, a.push, ack)
    BY <1>2, <1>5, <1>6, <1>9, ReachKept
  <1>10. CASE /\ "reload" \notin a.how /\ ~Waits(m) /\ a.push \in {NoPush, route}
              /\ Shows(Misses(m, c), route, panel') /\ due' = DueOnAck(m, ack)
    <2> DEFINE b == Misses(m, c)
    <2>1. /\ b \in [Keys -> CacheEntry]
          /\ \A k \in Keys :
               \/ \A x : Kept(b[k], x)
               \/ /\ b[k] = c[k]
                  /\ m.live /\ k \in Always(route, None) => on /\ m.from = route
      <3>1. \A k \in Keys : b[k] \in CacheEntry
        BY <1>5 DEF Misses, CacheEntry
      <3>2. b = [k \in Keys |-> b[k]]
        BY DEF Misses
      <3> QED BY <1>5, <3>1, <3>2, MissesKept DEF on
    <2>2. PICK collected, eager : cache' = Show(b, route, panel', collected, eager)
      BY <1>10 DEF Shows
    <2>3. \A k \in Keys :
            due'[k] = IF m.live /\ k \in Always(route, None) THEN ack ELSE due[k]
      BY <1>10 DEF DueOnAck
    <2> HIDE DEF b
    <2>4. AllKept(b, due')
      <3> SUFFICES ASSUME NEW k \in Keys, ~Aborts(k),
                          b[k] = c[k],
                          m.live /\ k \in Always(route, None) => on /\ m.from = route
                   PROVE  Kept(b[k], due'[k])
        BY <2>1 DEF AllKept
      <3>1. CASE m.live /\ k \in Always(route, None)
        <4>1. a \in PageAt(route).acts
          BY <3>1 DEF IInv, Made
        <4>2. Under(k, a.keys)
          BY <1>2, <1>10, <3>1, <4>1, ActsOfPage DEF Waits
        <4> QED BY <1>4, <3>1, <4>2
      <3>2. CASE ~(m.live /\ k \in Always(route, None))
        BY <1>6, <2>3, <3>2 DEF AllKept
      <3> QED BY <3>1, <3>2
    <2> QED BY <2>1, <2>2, <2>4, ShowsHere
  <1> QED BY <1>1, <1>7, <1>8, <1>9, <1>10

(* Whatever happens, an entry of the approvals keeps its promise. *)
LEMMA KeptStep == IInv /\ KeptInv /\ [Next]_vars => KeptInv'
  <1> SUFFICES ASSUME IInv, KeptInv, [Next]_vars PROVE KeptInv'
    OBVIOUS
  <1>1. view' = view /\ admin' = admin
    BY DEF Next, vars, Go, BoardsChange, OpenPanel, ClosePanel, SetPanel, RemoteWrite, Mutate,
           ServerTakes, Succeed, Leave, Error, Answer, AnswerInPart, Deliver, FailRead, Poll, Focus,
           Entry, RedirectToOnboarding, RedirectToDashboard, RedirectTo
  <1> SUFFICES ASSUME coll = GlobalApprovals(MyId).of, AllKept(cache, due)
               PROVE  AllKept(cache', due')
    BY <1>1, KeptPrimed DEF KeptInv
  <1>2. view \in Views /\ cache \in [Keys -> CacheEntry]
    BY DEF IInv, Typed, Fixed
  <1>3. CASE \/ UNCHANGED vars
             \/ \E i \in Ids : RemoteWrite(i)
             \/ \E m \in muts : ServerTakes(m)
    <2>1. cache' = cache /\ due' = due
      BY <1>3 DEF vars, RemoteWrite, ServerTakes
    <2> QED BY <2>1
  <1>4. CASE \E p \in view.pages : Go(p)
    BY <1>2, <1>4, ReachKept DEF Go
  <1>5. CASE \E p \in view.pages : BoardsChange(p)
    <2>1. PICK r, collected, eager :
            cache' = Show(cache, r, panel, collected, eager) /\ due' = due
      BY <1>5 DEF BoardsChange
    <2> QED BY <1>2, <2>1, ShowsHere
  <1>6. CASE ClosePanel \/ \E i \in Ids : OpenPanel(i)
    <2>1. PICK p, collected, eager :
            cache' = Show(cache, route, p, collected, eager) /\ due' = due
      BY <1>6 DEF ClosePanel, OpenPanel, SetPanel, Shows
    <2> QED BY <1>2, <2>1, ShowsHere
  <1>7. CASE \E a \in Acts : Mutate(a)
    BY <1>7, MutateKept DEF AllKept
  <1>8. CASE \E m \in muts : Succeed(m)
    BY <1>8, SucceedKept
  <1>9. CASE \E m \in muts : Leave(m)
    <2>1. (cache' = cache /\ due' = due) \/ \E r : Reach(cache, r, acked)
      BY <1>9 DEF Leave
    <2> QED BY <1>2, <2>1, ReachKept
  <1>10. CASE \E m \in muts : Error(m)
    BY <1>10, ErrorKept
  <1>11. CASE \E k \in Keys : \/ Answer(k) \/ AnswerInPart(k) \/ Deliver(k)
                              \/ FailRead(k) \/ Poll(k) \/ Focus(k)
    BY <1>11, ReadsKept
  <1>12. CASE RedirectToOnboarding \/ RedirectToDashboard
    BY <1>2, <1>12, ReachKept DEF RedirectToOnboarding, RedirectToDashboard, RedirectTo
  <1> QED BY <1>3, <1>4, <1>5, <1>6, <1>7, <1>8, <1>9, <1>10, <1>11, <1>12 DEF Next

-----------------------------------------------------------------------------
(* The theorems. *)

(* Every step keeps the invariant. *)
LEMMA StepKeeps == IInv /\ KeptInv /\ [Next]_vars => IInv'
  <1> SUFFICES ASSUME IInv, KeptInv, [Next]_vars PROVE IInv'
    OBVIOUS
  <1>1. CASE Next
    BY <1>1, GoKeeps, BoardsChangeKeeps, PanelKeeps, RemoteWriteKeeps, MutateKeeps, ServerTakesKeeps, SucceedKeeps,
       LeaveKeeps, ErrorKeeps, ReadsKeep, RedirectsKeep DEF Next
  <1>2. CASE UNCHANGED vars
    <2>1. /\ view' = view /\ admin' = admin /\ route' = route /\ panel' = panel
          /\ server' = server /\ cache' = cache /\ muts' = muts /\ acked' = acked /\ due' = due
          /\ writes' = writes /\ faults' = faults
      BY <1>2 DEF vars, tab, limits
    <2>2. Typed /\ Fixed
      BY DEF IInv, Typed
    <2> QED BY <2>1, <2>2, Primed, OldFrame
            DEF IInv, Typed, Made, Backed, Counted, GhostInv, FreshInv, Acts
  <1> QED BY <1>1, <1>2

(* The invariant holds in every state. *)
THEOREM Inductive == Spec => [](IInv /\ KeptInv)
  BY InitHolds, KeptInit, StepKeeps, KeptStep, PTL DEF Spec

(* The tab stays well formed: every mutation in flight is one a page of the site    *)
(* offers, every entry of the React Query cache has the form TanStack gives it, and *)
(* what is on screen is a route of the site.                                        *)
THEOREM TypesCorrect == Spec => []TypeOK
  <1>1. IInv => TypeOK
    BY DEF IInv, Typed, Fixed, TypeOK, Routes, CacheEntry, Mutation
  <1> QED BY <1>1, Inductive, PTL

(* After the optimistic deletes of createOptimisticListDeleteMutation, whatever fails, *)
(* is refused, overlaps or is left half way by a navigation: once none is in flight, a *)
(* list at rest on screen shows what the server answered. Neither a removal made ahead *)
(* of the answer nor the rollback of one is left behind.                               *)
THEOREM GhostsVanish == Spec => []NoGhostRows
  <1>1. IInv => NoGhostRows
    <2> SUFFICES ASSUME IInv, \A m \in muts : m.a.drops = {},
                        NEW k \in Watched, AtRest(k), cache[k].edited
                 PROVE  FALSE
      BY DEF NoGhostRows
    <2>1. k \in Keys
      BY OldFrame, WatchedKeys DEF IInv, Typed, Fixed
    <2>2. ~Pending(k, muts)
      BY DEF Pending, Under
    <2>3. Settling(cache[k], k \in Watched)
      BY <2>1, <2>2 DEF IInv, GhostInv, NoGhosts
    <2> QED BY <2>3 DEF Settling, AtRest
  <1> QED BY <1>1, Inductive, PTL

(* A list or a detail read with refetchOnMount "always" and at rest on screen shows      *)
(* every answered write that its page made, and on a page just shown those answered      *)
(* before, however reads, invalidations, dialogs, navigations and changes of the boards  *)
(* interleave. Except, until its next answer, a read that failed, that joined one under  *)
(* way (late), that left out the row's board (partial), that an optimistic delete edited *)
(* or rolled back (edited), or that a write got no refetch for because its callbacks     *)
(* were dropped by a second decision or were about the key of other boards (missed).     *)
THEOREM OwnWritesRead == Spec => []ReadYourWrites
  <1>1. IInv => ReadYourWrites
    <2> SUFFICES ASSUME IInv, NEW o \in Observers(route, panel), "always" \in o.how,
                        AtRest(o.q.key), ~cache[o.q.key].edited, ~cache[o.q.key].missed,
                        ~cache[o.q.key].partial, NEW i \in Ids
                 PROVE  cache[o.q.key].data[i].v >= due[o.q.key][i]
      BY DEF ReadYourWrites
    <2>1. o.q.key \in Always(route, panel)
      BY DEF Always, WatchedBy
    <2>2. EntryFresh(cache[o.q.key], due[o.q.key])
      BY <2>1 DEF IInv, FreshInv
    <2> QED BY <2>2 DEF EntryFresh, AtRest
  <1> QED BY <1>1, Inductive, PTL

=============================================================================

# mural-mcp in TLA+

A verification project for `mural-mcp`, the MCP server that lets AI agents read
governed Mural boards.  It holds TLA+ modules translated from the source under
`src/app`, TLC configurations that check them on small instances, and proofs,
checked by TLAPS, of what must hold for every instance.

The server is a set of asyncio coroutines over MongoDB collections, and it may run
as several replicas.  Each document write is atomic, nothing spans two of them,
and no lock, transaction or unique index guards a read that a later write depends
on.  So the questions that unit tests with fakes hardly reach are about what
happens *between two awaits*; the models are cut along exactly those lines.

- [Inventory](#inventory)
- [Modules](#modules): which module models what, and how to read it
- [Runs](#runs): what each run asks and shows, bounds, fairness
- [What the code does not keep](#what-the-code-does-not-keep)
- [Proofs](#proofs)
- [What is assumed of the environment](#what-is-assumed-of-the-environment)
- [What the properties do not say](#what-the-properties-do-not-say)
- [Not modelled](#not-modelled)
- [Plan](#plan)

To check a run: `tlc -config AccessConcurrent.cfg MCAccessRequests`.
To check the proofs of a component: `tlapm AccessRequestsProofs.tla`, and so for each of
the modules named `...Proofs`.

## Inventory

| Component | State it keeps | Operations | Interacts with | What is hard | What makes it correct |
|---|---|---|---|---|---|
| **Board access requests** `integration/mural/access_request_service.py`, `mongo_store.py`, the approval and admin routers | collection `access_requests` | request, approve, reject; list, get | guard reads the same collection | check-then-act and read-modify-write over an await; several reviewers | one open request per user and board, decisions whole and final, grants only by approval |
| **Board guard** `guard.py`, `di/providers/integration.py` | none (allow list from the environment) | `check(user, board)` | access requests; called by board loading | latest request versus any approved one | opens a board only by allow list or approval |
| **Mural linking and OAuth** `integration/linking/*`, `connection_test_service.py` | collections `oauth_states`, `mural_tokens` | authorization URL, callback, valid token (with refresh), disconnect, test | Mural's token endpoint; board loading | two-step external calls, rotated refresh tokens, lost answers, crash between answer and store, expiry | a state is used once and by its owner, and what it buys is its owner's; tokens handed out outlive their use; a new link or a disconnect sticks |
| **Personal access tokens** `identity/*`, token router | collection `personal_access_tokens` | mint, verify, list, revoke | both resolvers of a caller's identity | verify reads, checks and writes in three steps, revocation in between | a revoked or expired token is refused; revocation never undone; only the owner revokes |
| **Authentication** `auth/*`, `infra/auth`, `infra/mcp/auth.py`, `infra/rest/auth/*` | none | resolve a principal | personal tokens; every component takes its user from it | the principal is made of what was verified an await earlier | the principal is the token's owner, all the way to Mural |
| **Board loading** `integration/mural/service.py` (`_load`, `_fetch_widgets`) | locals of a call | guard, token, pages | guard, OAuth client, Mural's widgets endpoint | edits between pages, failure after some pages, unbounded loop, two forms of `next` | guard before any contact with Mural; a result is a whole board; every call ends |
| **MCP tools** `infra/mcp/tools.py` | none | summary, region, connections, find | authentication, board loading and views | three authorities (token, grant, link) in three collections that change during a call | no authority that ended before the call serves it; errors become tool errors, nothing partial is returned |
| **Parsing and tree** `board/parsing/{parser,parent_id,tables,models}.py` | `WidgetTree` of a call | expand tables, place cells, place widgets, resolve | views | three sources of parents, synthetic nodes | every node in one place, what a parent names resolves |
| **Spatial grouping** `board/parsing/spatial.py` | locals | proximity, union-find, anchors, groups | tree | loops over mutated parents, ties, zero areas | groups are the connected components, every widget placed once |
| **Summary** `board/parsing/summary.py` | none | regions with labels and counts | tree, rendering | two recursions that must agree; a heading size written down twice | listed regions resolve, counts and labels agree with renderings |
| **MSX rendering** `board/rendering/*` | none | subtree, widgets, connections | tree | recursion over a tree built from external data; roles and texts by type | no node twice, none missing; the two ends of an arrow agree; what is rendered is found |
| **Schemas** `board/parsing/schemas.py` | none | validate a widget | parsing, summary, search, registry | which types have which texts; one odd widget fails a board | a board is read whole or not at all |
| **Configuration, wiring, HTTP entry point, tracing, logging, TLS** | – | – | – | – | see [Not modelled](#not-modelled) |

The hazards behind these, with the line where each bites and the properties that
would catch it, are in `PROJECT.json` under `hazards`.

## Modules

One action is the code of one coroutine from an await to the next; a store
operation is one step on the collection.  `handler` (or `call`) maps each call in
progress to a program counter and the locals it holds, so any two calls interleave
at every await, whether they share a process or not.  `Abandon` ends a call at an
await without its next write: a stopped process, a client that went away, a
database that did not answer.  Definitions with the comment *Mutation*
repeat the definition below them with a plausible bug; `PROJECT.json` pairs each with
a property it breaks.  Variables marked *history* record what happened and do not
influence a step (but that `issued_to` keeps a state id from being issued
twice, and a consent from being given before there is a URL to follow).

| Module | Models | Notes |
|---|---|---|
| `AccessRequests` | `BoardAccessRequestService`, its store, both routers, the guards | `RequestAccessRead` / `Build` / `Create` are `request_access` between its awaits; `GetPending` / `Update` are `approve` and `reject`. Refusals (404, 409, 422) change nothing and are guards. `Latest` is a set: with equal dates MongoDB's order is open |
| `AccessWorkflow` | the promise to a user: one status per user and board | the abstract specification `AccessRequests` implements when calls do not overlap (`ImplementsWorkflow`) |
| `Linking` | `LinkingService`, `OAuthClient`, their stores, `MuralConnectionTestService`, the linking router | a request to Mural has two halves: Mural acts (`MuralExchange`, `MuralRefresh`), the handler acts on the answer (`ReceiveToken`); either may be lost. A grant is one consent at Mural, with a code of its own that buys it once; a callback brings any code, Mural's or not, beside any state, and what is sent to Mural is the code alone. Tokens of a grant are numbered by generation. The histories `consent` and `bought` say who gave a grant, and for whom and with which state its code was exchanged. `RefreshPolicy` names the three ways the code must cope with: a rotated, a lasting, or no refresh token in the answer (`linking_concurrent` rotates, `linking_relink` and `mural_mcp` keep) |
| `PersonalTokens` | `PersonalTokenService`, its store, the accepting end of both resolvers | `VerifyRead` / `VerifyCheck` / `TouchLastUsed` and `RevokeRead` / `RevokeWrite`; a secret is as good as the id of its token (SHA-256 and 256 random bits) |
| `BoardLoad` | `BoardService._load` and `_fetch_widgets` under the four tools | what the guard and the token store answer is reduced to `granted` and `link`, which change at any time and start as the database has them; the lookup of the link, the refresh and the storing of what it returned are steps of their own (`GetStoredToken`, `SendRefresh`, `StoreRefreshed`); a widget of no schema (`Unreadable`) fails the call; Mural's paging is external: widgets in a fixed order, pages of any size up to `PageSize`, of which only the last may leave nothing, a cursor that names the last one sent |
| `WidgetTree` | table expansion, `ParentIdStrategy`, `build_tree`, `WidgetTree.resolve` | operators only; an id is a tuple tagged with its kind, as the code's ids of different kinds never coincide |
| `SpatialTree` | distance, anchors, placement of a cluster, and a *reference* for the whole strategy with graph connectivity in place of union-find; and, for each widget, what it hangs on (`HolderNear`), stated without the sort and the lists of `_anchor` and `group` | extends `WidgetTree` |
| `SpatialGrouping` | the union-find itself, one assignment a step, then collection and placement | checked against the reference in `SpatialTree` |
| `WidgetText` | what a widget says: the texts and font sizes of the schemas, the role and content of the registry's renderings, the search's text fields, `_infer_label` | operators only; a text is the set of its words, for no property depends on their order |
| `BoardViews` | the four methods of `BoardService` after loading: `BoardSummary.build`, `_render_node`, `render_connections`, `search_widgets` | the rendering is a walk with an explicit list of nodes to come; a line is the id of its node. Uses the reference tree of `SpatialTree`, which `SpatialGrouping` shows the code to build |
| `MuralMcp` | the service as a whole: the four tools and the REST routers over the collections they share, the principal's way from the token's claims to Mural | instances of `AccessRequests`, `PersonalTokens` and `Linking`; its actions are theirs, under the control of a tool call (`session`) or of the portal. REST in its default mode, where the portal may assert any user: what the token mode allows is among that |
| `AccessRequestsProofs`, `LinkingProofs`, `PersonalTokensProofs`, `BoardLoadProofs`, `SpatialTreeProofs`, `SpatialGroupingProofs`, `BoardViewsProofs`, `MuralMcpProofs` | | invariants, lemmas and theorems about the module they are named after (`SpatialTreeProofs`: also about `WidgetTree`); see [Proofs](#proofs) |

The `MC` modules give the instances: symmetry, boards to look at, requested lifetimes.  The
refinement mappings are in `AccessRequests` (to `AccessWorkflow`) and in `MuralMcp` (to
`BoardLoad`).

Composition: `AccessRequests` and the guard share one module because they share one
collection.  `BoardLoad` sees the guard and the link as values that change at any
time; `MuralMcp` has the components themselves in their place and is shown to implement
`BoardLoad` (`ImplementsBoardLoad`: `granted` is what `Permits` answers, `link` is the stored
document as `IsExpired` sees it, and a tool call's place follows from the OAuth client's), so
what `board_pages` shows of `BoardLoad` is about them.  The mapping leaves out the pages of
a board, which `MuralMcp` has one of.  `BoardViews` builds on the tree modules by EXTENDS.

## Runs

| Run | Configuration | Asks | Shows |
|---|---|---|---|
| access_concurrent | `AccessConcurrent` | what survives any overlap | two calls at a time over two requests, users, boards and reviewers, tied dates, abandoned calls: documents are never torn between decisions, references follow policy, grants come from approvals, requests only move forward |
| access_serial | `AccessSerial` | the promised workflow | with one call at a time: one open request per pair, final decisions, status and guard agree, and the whole implements `AccessWorkflow` |
| linking_concurrent | `LinkingConcurrent` | callbacks, expiry, rotation | two users, two grants, two overlapping calls, repeated and late callbacks, in any session and with any code beside any state, lost answers: a state buys one exchange, and tokens are of a grant bought in a callback of their user with that user's own state; a token handed out outlives its use; the stored refresh token is live or its successor on its way; a user's last word, link or disconnect, stands unless two calls of that user overlapped (`LastWordStands`) |
| tokens_concurrent | `TokensConcurrent` | revocation and lifetime | two calls at a time, five kinds of requested lifetime |
| board_pages | `BoardPages` | guard, paging under edits | calls of two users, up to three widgets, one of them unreadable, pages of one or two as Mural likes, any edits, grants and links that change: guard before contact, whole boards, and every call ends |
| spatial_union_find | `SpatialUnionFind` | union-find is exact and ends | all lists of up to five widgets in a row, four of chosen shapes, boards with a table: the groups and the tree are the reference's (`GroupingIsExact`), and every table, widget and group hangs where it should, once (`PlacedOnce`) |
| board_renderings | `BoardRenderings` | the views agree | all nestings of a few widgets with areas, tables, cells (with a `parent_id` and without) and arrows, in both modes: a region has all that its mode puts in it (`RegionIsWhole`; by proximity that is without a table's cells, see below), counts, lists and arrows agree; and all pairs of neighbours with and without each of their texts, at, below and without the size of a heading: they agree in words too (`WordsAreFound`, `LabelIsHeading`) |
| mural_mcp | `MuralMcp` | a tool call among the portal's calls | a tool call and a REST call at a time, of two users and for two boards: Mural is asked only on authorities that were each in force at some time of the call; the token's owner, the user the guard is asked about, the user whose link is used and the user whose callback bought its grant are one (`SamePrincipal`); and the composition implements `BoardLoad` |
| access_duplicate, access_double_decision, linking_relink, spatial_cells | `AccessDuplicate`, `AccessDoubleDecision`, `LinkingRelink`, `SpatialCells` | a statement of the docs | refuted, see below |

### Bounds, and why they are enough

- **Calls at a time: 2.** Every race in the code is between a read and a later write
  of one call and one write of another; two calls show each of them.  The proofs hold
  for any number.
- **Requests: 2 concurrent, 3 serial.** Two make a pair with an earlier and a later
  request; the third lets a rejected pair be asked again twice.
- **Clock.** `AccessRequests` counts readings (`MaxClock` at least the number of
  requests that can be created, plus a tie).  In `Linking` a unit is the 30 second
  request time-out: `Leeway = 2` is the code's 60 seconds, `Lifetime = 4` is shorter
  than Mural's, so that expiry, refresh and expiry of the refreshed token all happen
  within `MaxClock = 4`: a token
  obtained at 0 needs a refresh at 2, and the refreshed one at 4.  In `PersonalTokens` lifetimes of 3 (default) and 4 (maximum)
  lie inside `MaxClock = 6` and the requested values go below, at and above them.
- **Generations of a grant (`MaxGen`): 2** refreshes, the least in which a refresh
  token obtained by a refresh is itself used.
- **Widgets.** Three on a board that is read in pages of one or two: an empty board, a full
  and a short last page, a widget that is removed or added before, at and after the cursor.
  Up to five for
  union-find, the least in which halving skips a node on a chain that two links have
  made; up to four for the views.
- **The composition.** One tool call, one REST call, and one each of request, token and OAuth
  state: enough for every authority to be given and taken between any two steps of the tool
  call, by the same user or the other.  With one state only one of the users is linked at a time,
  so the other's calls find no link, or would find the wrong one; two grants of one or two users
  are `linking_concurrent`'s.  A clock of one lifetime makes a link stale once.
- **One tool call at a time in `BoardPages`**: overlapping tool calls share only the link
  and the grants, which change at any time there anyway.
- Bounds sit in guards (`clock < MaxClock`, `n \in Gens`, the supply of ids) and are
  named CONSTANTS.

`CHECK_DEADLOCK FALSE` is given where the system may really stop within the bounds:
the supply of request ids or the clock is used up (`AccessRequests`), or the
algorithm is done (`SpatialGrouping`).

Symmetry is used for users, handlers and ids, which the modules treat alike, and not
in runs with liveness properties.  `Unanswered`, the VIEW of `linking_concurrent` and
`mural_mcp`, does not tell apart states that differ in the answer of a finished call of the OAuth
client: no action and no property reads it.

### Fairness

- `BoardLoad`: weak fairness of what a call's own coroutine does next.  Every await
  in it ends: requests to Mural carry a 30 second time-out (`common/http_client.py`)
  and a database operation is answered or fails.  No fairness is assumed of users, of
  edits or of anything else, and `EveryCallEnds` holds although a board may be edited
  for ever: a cursor moves on with every page, past finitely many widget ids.  What
  it does rest on is that set being finite: a board to which widgets were added beyond
  every cursor, faster than they are read, would be read for ever.
- `SpatialGrouping`: weak fairness of `Next`; it is sequential code.
- `AccessRequests`, `Linking` and `PersonalTokens` have no fairness: a call may be
  abandoned at every await, and their properties are safety properties.

## What the code does not keep

Each of these is a run that ends in a counterexample, of the fewest steps.

1. **Two open requests** (`AccessDuplicate`).  Two overlapping `POST /approvals/boards`
   of one user for one board both find no open request and both create one;
   `exceptions.py` promises a refusal.
2. **Two decisions** (`AccessDoubleDecision`).  `approve` and `reject` that overlap both
   find the request pending; the later write replaces the earlier, and both callers
   are told they succeeded.  What the store then holds is still one of the two
   decisions as a whole (`DecisionNotTorn`, proved).
3. **A refresh undoes a new link** (`LinkingRelink`): `store_tokens` is an upsert by user,
   whatever the document has become since it was read.  It brings back a deleted
   document in the same way; `LastWordStands` shows that both need an overlap of two calls of
   that user.
4. **Cells of a table in spatial mode** hang nowhere (`SpatialCells`), though a comment
   says that `tables.expand` places them.

Seen while modelling, in the model's definitions but without a run of their own:
a refused refresh is a `MuralApiError` where `connection_test_service.py` documents
`MuralTokenError` (`MuralRefuses`); a cluster whose second-largest widget has no area
gets no anchor whatever the docstring's ratio (`HasAnchor`); the summary's "widget
counts" include a table's rows and slots (`CountDescendants`); `find_widgets` renders
the subtrees of its matches, not leaf nodes (`SearchWidgets`, `RenderNode`); and
`get_connections` leaves out arrows with one free end (`ConnectionOf`).  A comment's message
and an image's caption are rendered but not searched, so `WordsAreFound` speaks of sticky
notes, shapes and texts; a heading without words labels its region with nothing, though its
neighbours have words (`InferLabel`); `BoardParseError` is not among the exceptions a tool turns
into a `ToolError` (`Return`); and no route calls `LinkingService.disconnect`, so that in
`MuralMcp` a link ends at Mural or gives way to a new one.

## Proofs

A theorem holds for every set of users, boards, ids and overlapping calls and every value of
the other constants that the module's assumption admits.  Each is about the specification
the runs check, and each invariant below was checked with TLC before it was proved.

A property speaks of what is stored, but a write replaces what is stored by what a call
computed from a read of an earlier time.  So none of the properties is inductive: a state in
which a call holds an odd copy satisfies it, and the next step does not.  What the
invariants add is, for each await of the code, what a call still knows of the store when it
goes on.

**`AccessRequestsProofs`** (from `ConstantsAssumption`).

| Theorem | States |
|---|---|
| `Invariant` | `Spec => []IInv`, which the others rest on |
| `TypeCorrect`, `DecisionsAreWhole`, `PolicyIsFollowed`, `GrantsAreApproved` | `TypeOK`, `DecisionNotTorn`, `ReferencesFollowPolicy`, `GrantNeedsApproval` |
| `RequestsOnlyMoveForward` | `RequestsMoveForward`, of every step from `IInv` |

`IInv` adds `CreatingOK` (a request about to be created is pending, without references, and
its id is nobody else's), `UpdatingOK` (a decided copy is of a stored request, differs from
the stored document in the decision only — also when another decision was stored since — and
the decision is an admissible one) and `HistoryOfStored` (an id has a history only when it
is stored).

The second part of the module states what the two findings about this component take away, and what
would bring it back.  `NoOverlap` says that no two calls *of the same user for the same
board* are in progress at a time; calls for other pairs interleave as they like.  That is what a
lock per pair, or a unique index with a conditional update, would enforce, and what a server that
works on one call at a time has anyway (`OneCallAtATime` has no such hypothesis).  Reads of the
clock differ here (`ClockStep = 1`), for with tied dates MongoDB's order decides which request
is the latest.

| Theorem | States, given `ClockStep = 1`, of `Spec /\ []NoOverlap` |
|---|---|
| `OneRequestIsOpen`, `StatusAgrees` | `OneOpenRequest`, `StatusAgreesWithGuard` |
| `DecisionsAreFinal` | `DecisionIsFinal` |
| `WorkflowIsImplemented` | `ImplementsWorkflow`: the initial state maps to `AccessWorkflow`'s, and each action to one of its steps or a stutter |
| `OneCallAtATime` | all four of `Spec` alone, if there is one handler |

The invariant `SInv` says that requests of a pair have different dates, only the latest may be
other than rejected (`OpenIsLatest`), a call that files a request still finds all of the
pair's rejected and earlier (`FilingOK`), and one that decides still finds its request pending
(`DecidingOK`).  In the refinement only `RequestAccessCreate` and
`Update` move the abstract status; the other actions stutter.

**`PersonalTokensProofs`** (from `TokensAssumption`): `TypeCorrect`, `RevocationIsForGood`
(`RevocationSticks`), `RevokedTokensAreRefused` (`RevokedIsRefused`), `LifetimeIsKept`
(`AcceptedWithinLifetime`), `LastUseIsRecorded` (`LastUsedIsRecent`), and `OwnersRevoke` for
the action property `OnlyOwnerRevokes`.  `IInv` says what the copy that a verification read still has
in common with the document (`ReadingOK`: the expiry; a revocation missing from the copy was stored
after the call began; the document's `last_used_at` is at most one late write behind the copy's), that
a write of `last_used_at` under way is `WriteDelay` old at most and of a call that began before
any revocation (`TouchingOK`), that a revoke in progress is its owner's (`RevokingOK`), that no date is
ahead of the clock (`NothingFromFuture`), and that lifetimes are capped (`LifetimeCapped`).

**`LinkingProofs`** (from `LinkingAssumption` and, where ages are concerned,
`TimingAssumption`), in layers, each inductive given the ones before it:

| Layer | Says | Theorems on it |
|---|---|---|
| types | | `TypeCorrect` |
| `Ownership` | a stored state is unused and of the user it was issued to; every token, stored or in a call, is of a grant whose code was exchanged in a callback of this user with a state issued to this user, and with nothing else | `GrantsAreOwned`, `StatesAreUsedOnce`, `TokensAreOwned` |
| `Ages` | a stored expiry is at most one wait later than Mural's, and a token in a call is at most as many waits old as the call has had since it was issued | `TokensAreTimely`; `LeewaySuffices` (`TokenOutlivesCall`) for any leeway of two waits and lifetime of more than three |
| `Refreshes` | the refresh token a call was answered and is about to store is one Mural takes, and under rotation the only one it takes of that grant, and nobody else's | `RefreshesAreKept`, `RefreshTokensStayUsable` (`RefreshTokenUsable`) |
| `LastWords` | two calls of one user are known to overlap, and the refresh of a user without overlaps is of the grant that is stored | `OverlapsAreKnown`, `LastWordIsKept` (`LastWordStands`) |

`Refreshes` is the long one, and its conjuncts depend on the policy.  Where Mural rotates, what a call
holds between the answer and `store_tokens` must be unique (`HeldUnique`: it is not stored, no refresh
under way has sent it, no other call holds it), or one of two refreshes could replace the
token that the other has just made the live one.  Where it does not, what must be shown is that
nothing ever becomes useless (`KeptUsable`).

**`BoardLoadProofs`** (from `BoardAssumption`): `TypeCorrect`, `GuardComesFirst`
(`GuardBeforeContact`) and `BoardIsReadWhole` (`ResultIsWholeBoard`), for boards of any number of
widgets, pages of any sizes and any edits.  `ReadSoFar` is the loop invariant of
`_fetch_widgets`: what was read is in Mural's order, lies before the cursor, was on the board at some
time of the call, and has all that stayed and lies before the cursor.  `PageIsNext` says what a page
adds to it, and `BoardBetween` that the board of the moment lies between what stayed and what
ever was there.

**`SpatialTreeProofs`** (for every board that `IsBoard`).  The trees are made by loops that append
to the lists of a dictionary, for tables, cells, other widgets and clusters in turn, and each
loop is a recursive function in the model.

| Theorem | States |
|---|---|
| `ParentIdTreeIsTree` | the tree of `ParentIdStrategy` is a tree on every nested board |
| `SpatialTreeIsTree` | so is the tree of the spatial strategy, on every board, nested or not |

`IsTree` says that the lists are lists of nodes, that a node is once in one list at most, and that
no way from holder to holder is a cycle.  The proofs give each stage the pairs of holder and
held that its lists stand for (`ListsAre`: `PairsOf` the tables, `ParentIdPairs`, `SpatialPairs`), show
that a stage adds its pairs to the lists (`ExpandLists`, `PlaceClusterIs`) and that no node is held by two
of them (`OneHolder`).  That a node is not below itself comes from `IsNested` for one strategy, and
for the other from the three levels that its tree has above the slots of a table.
`ComponentsPartition`: the reference clusters share no place and leave none out.

A recursive function is, in TLA+, *some* function that satisfies its equation.  The induction theorems
of the library cannot be used here, so the lemmas show that such a function exists and what it
has at each place by a smallest counterexample (`UpTo`, over `0..n`) and then only
use the equation.

**`SpatialGroupingProofs`** (from `BoardsAssumption`), for lists of every length.

| Theorem | States |
|---|---|
| `TypeCorrect`, `FindsEnd` | `TypeOK`, `ChainsHaveRoots` |
| `ClustersAreExact` | when the clusters are placed they *are* the connected components of the proximity graph, each in board order, in the order of their first widgets |
| `GroupsAndTreeAreExact` | `GroupingIsExact`: in the end the clusters are the list of components, and the tree is the reference's |
| `WidgetsArePlacedOnce` | `PlacedOnce`: a table hangs under its parent, a group on the top level, any other widget that is no cell on what `HolderNear` says, each once |

Where a chain of parents ends is a recursive matter, so the proof never asks.
It speaks of *sets* of places: those that no chain enters or leaves (`IsUnion`) and those that
nearness does not leave (`IsClosed`).  `SetsWithin`: every closed set is a union, so nothing
is joined that should not be.  `SetsJoin`: every union has, of two near places compared so far, both
or none.  `FindStays`: a find is in the same unions as the place it began with, which halving does not
change.  Two roots are kept apart by the set of what leads to the one (`RootsApart`).  `TreeOK` is the
invariant of the placement: after `k` clusters the tree is the reference's after `k`, because an
ascending list is determined by its elements and so the collected clusters are the reference's
lists (`GroupsAreComponents`).  That no node is twice in
the lists comes from `SpatialTreeIsTree`; where it is, from `HolderNearIs`: what `group` makes of a cluster's
sorted areas is what the reference says without a sort (`HeadForIs`, `AnchorDwarfs`).

**`BoardViewsProofs`** (from its `BoardsAssumption`), for boards of every size and depth.

| Theorem | States |
|---|---|
| `Invariant` | `Spec => []VInv`, which the others rest on |
| `TypeCorrect` | `TypeOK`: no walk meets an id that the tree does not resolve |
| `RegionsAreWhole` | `RegionIsWhole`, in both modes |
| `CountsAre`, `CountsAreRenderings` | what `_count_descendants` returns in any tree; `CountIsRendering` |
| `ReadIsFound`, `LabelsAreHeadings` | `WordsAreFound`, `LabelIsHeading` |
| `ListedRegionsAreFound`, `EndsAgree` | `ListedIsFound`, `ConnectionsAgree` |

What is in a region is said four times in the code and in the model: by the renderer's recursion, by the
count's, by the adjacency, and on the board itself by what holds what (`Within`).  The proofs
bring each to one set: `Below(n)`, the least set with `n` and the children of each of its
nodes.  `Walking` is the loop invariant of the renderer: what has been rendered and what is below each
of the nodes still to render do not overlap, and are together what is below the region.  It needs that
the subtrees of two children are disjoint and that a node is not below its own child (`BelowIs`), which is what
`IsTree` gives.  `Size`, one less than the cardinality of `Below`, satisfies the equation of
`_count_descendants`, and only one function does in a tree (`CountsAre`).  `WithinIs`
takes the way from a node up, from holder to holder, to the way from the region down; that the
holder on the board is the one in the tree is `HolderByParent` for one mode and `HolderBySpace` for
the other.  `VInv` adds that what
a summary listed is what it would list again, and that a search still has each of its matches among
the rendered or the waiting nodes.  The labels are a matter of the first place at which a test holds, of
which the two tests, of the renderer and of the summary, must agree on every widget.

**`MuralMcpProofs`** (from `MuralMcpAssumption`, which is the components' assumptions and that tool and
REST calls are different calls).  `ComponentsRun`: each step of the service is a step of
each component or leaves it alone, so that the components' theorems are used as they stand
(`AP`, `PP`, `LP` are instances of their proof modules).  `OnePrincipal` (`SamePrincipal`) and
`ContactsAreAuthorised` (`ContactIsAuthorised`) carry what a tool call was told at one await to
the awaits after it: `Sessions` (the principal is the owner of a token that was accepted in this
call), `LoadsOwn` (the OAuth client works for the principal), `Authorities` (what a call has
passed was in force at some time since it began).  `BoardLoadIsImplemented`
(`ImplementsBoardLoad`) goes through the actions of the service and shows for each which step of
`BoardLoad` it is; that a token found fresh is stored (`GetStoredToken`) or that a refreshed
one is (`StoreRefreshed`) comes from `LinkingProofs`.  `GuardComesFirst` carries the theorem of that name from
`BoardLoadProofs` over this refinement: the guard comes first also where grants and links are documents that
the portal's calls change.

### Assumptions on constants

| Assumption | What it says | Why |
|---|---|---|
| `ConstantsAssumption`, `TokensAssumption`, `LinkingAssumption`, `BoardAssumption` | types of the constants; `None`, `NoRequest` are no values of the types they are added to (no date is `None`); a page has room for a widget; `0 < DefaultTtl <= MaxTtl` | as the code's types and defaults have it |
| `TimingAssumption` | `2 * Delay <= Leeway`, `3 * Delay < Lifetime` | see [What is assumed of the environment](#what-is-assumed-of-the-environment) |
| `SpatialAssumption` | the gap is a number, the ratio of an anchor a positive one | the code's defaults, 100 and 3, in integers |
| `BoardsAssumption` of `SpatialGrouping` | `IsBoard` of every list: an id names one widget, a row id one row of one table; a parent is a widget or none; a table is not put into another; boxes are integers | what Mural sends; the code's dictionaries take unique ids for granted, and a second table with a row of the same id would take its slots away |
| `BoardsAssumption` of `BoardViews` | `IsBoard`; `IsNested`: no widget is inside itself, going from a cell to the table that has its row, whatever the cell's `parent_id`, and from any other widget to its parent; a widget is of a kind, and has the texts of its kind | a parent inside its own child would not be reached from the top level, and a region in it would have no end; the schemas are declarative |

TLC evaluates each of them on the instances of the runs.

### Only model-checked

Every invariant and action property that a passing run checks is proved, for every value of the constants.
What is left to TLC:

- **Liveness** (`EveryCallEnds`, `GroupingEnds`): weak fairness needs ENABLED, which the prover does not do.
- **The statements that are refuted**: their runs are counterexamples.

## What is assumed of the environment

- **MongoDB**: one operation on one document is atomic; a read sees the latest
  acknowledged write (the primary).  Dates have millisecond precision.
- **uuid4** never repeats an id; a SHA-256 hash names one secret.
- **Mural's token endpoint**: a code is good once; a refresh token is rotated or
  lasts (a run each), or is not given (`RefreshPolicy` has it, no run does: such a link ends
  with its access token, and the code promises no more); it may refuse at any time.
- **Timing** (`TimingAssumption`): an answer and the request that follows take no longer
  together than the leeway — two time-outs of 30 seconds against 60 — and a token
  lives longer than three of them.  `TokenOutlivesCall` depends on it.
- **FastMCP** gives a tool the access token that came with the request of its call, as it was
  verified (`get_access_token`).
- **Code and state** come to the callback as two query parameters, and the program never compares
  them, nor the code with the user: Mural's redirect pairs a code with the state of the URL that was
  followed, and users follow their own URLs.  The model does *not* assume it: a callback may bring any code
  beside any state.  So `TokensOfOwnGrant` and `SamePrincipal` say for whom and with which state
  a grant was bought, and that nobody else has tokens of it.  Who *gave* the grant they say only
  where the code came back beside a state of its giver (`AsGiven`), from which it then follows at once.
- **Mural's widgets endpoint** lists widgets in an order that edits do not change, and a
  cursor names the place to go on from.
- **Mural's boards** (`IsBoard`, `IsNested`): ids are unique, row ids are unique on the board, no
  widget is inside its own child, a table is not inside another one but for its cells.  A cell is
  in the table that has its row; its `parent_id` may be anything, as the code does not look at it.
- **Personal tokens** (`WriteDelay`): a write of `last_used_at` lands within a bound of
  its decision.  `LastUsedIsRecent` is therefore throttle plus delay; the throttle alone
  is not a bound.

## What the properties do not say

- `RefreshTokenUsable` exempts grants of which the answer to a refresh was lost.  Where Mural rotates,
  such a link is dead until the user links again; the code has no remedy.
- `TokenOutlivesCall` is about one vendor call, made within `Delay` of `get_valid_token`.  The pages of
  a long board use the same token later; when it expires there the page fails, and with it the
  whole call (`ResultIsWholeBoard`).
- `GuardBeforeContact` and `ContactIsAuthorised` are about the grant before the first request to Mural.
  One that is taken back during the pages does not stop them.
- `RegionIsWhole` says of the spatial mode what that mode places: a table's cells are in no region of it
  (`CellsArePlaced`, refuted).

## Not modelled

- **Trusted-header mode**: the server believes the header; there is nothing to check.
- **Text**: free-text reasons, tags, attributes, wording of errors, bounds and centroids of
  regions, case folding and substrings in a search (a word matches or does not).
- **Schemas**: which inputs pydantic accepts; `Unreadable` widgets stand for the others.
- **Configuration, dependency injection, request scope, tracing, logging, TLS, health**:
  start-up, wiring and I/O.  The flags that matter are CONSTANTS.  Trace ids and request-scoped
  objects live in context variables whose copying is a matter of the web framework, of asyncio
  and of FastMCP, so a model would be of those and not of this code.
- **Listings and status** (`list_pending`, `get_for_user`, `list_for_user`,
  `get_connection_status`): single reads that change nothing.
- **`spatial_group_N` across edits**: the number is the position of a cluster in one
  call's list; the source promises nothing about it after an edit.
- **Very deep boards**: Python's recursion limit in `_render_node` and `_count_descendants`.

## Plan

Done, in this order of importance: access requests and guard with proofs; linking;
personal tokens; board loading; trees, spatial grouping and views; the texts of widgets;
the composition; the proofs of the state machines, of the two refinements, of the trees, and of what
is rendered of them.

What could follow, when the code moves on:

1. A conditional update in `mongo_store.py`, or a lock per pair: `NoOverlap` of `AccessRequestsProofs`
   would become an invariant, and the violation runs would pass.
2. Cells in spatial mode, once `spatial.py` places them: `CellsArePlaced` would join the run of
   `SpatialGrouping`, and `SpatialPairs` the pairs of the cells.
3. Two regions of one summary asked for by two overlapping calls, if trees come to be cached between
   calls; today each call builds its own.

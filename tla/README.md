# Verification of the conversational AI proof of concept

TLA+ models of the program in this repository, checked with TLC on small
instances, and theorems about them checked with TLAPS. Run TLC and `tlapm` in
this directory; `PROJECT.json` lists every run, the lines each definition
models, the hazards, the findings and the theorems.

## The system

| Component | State | Operations | Talks to |
|---|---|---|---|
| Chat widget (`services/ui/src/widget`) | the proposal on the card, disabled buttons, thread id in sessionStorage | send a message, approve | Journey API over HTTP |
| Journey API (`orchestrator/app/api.py`) | none of its own | `/chat`, `/approve/{id}` | the graph, the governance agent |
| Graph and checkpointer (`graph.py`, `state.py`) | one checkpoint per thread: messages, phase, intent, pending proposal, last result; lazily built globals | router, three agent nodes, `get_graph` | Postgres (or memory), the models |
| Agents (`agents/*.py`, `mcp_client.py`) | a cached agent each | model-driven tool calls within a fixed tool set | Gateway over MCP |
| Gateway front door (`auth.py`, `rate_limit.py`, `asgi.py`) | one counter and window start per API key, in memory | admit, 401, 429 | the MCP app |
| Gateway tools (`tools/*.py`, `middleware/*.py`) | connection pool, HTTP clients | `get_*` reads, `propose_order`, `submit_order`, `create_case` | analytics views, the mocks, the audit trail |
| Audit trail (`db/init/001`) | append-only rows, a partial unique index on the idempotency key of success rows | INSERT, lookup by key | |
| Bluemarble mock | catalogue, `product_order` rows | `get_catalog`, `create_order`, `get_order` | |
| Salesforce mock | case rows | `create_case`, `get_case` | |

A customer's message goes widget -> `/chat` -> router -> one agent -> Gateway
reads; a proposal comes back, is kept in the checkpoint and shown on the card.
Approving it goes widget -> `/approve` -> the governance agent -> `submit_order`
with the key `idem-<proposal id>` -> eligibility, spend and catalogue reads ->
the policy gate -> an order in Bluemarble -> a row in the audit trail.

What is hard here: every handler is a chain of awaits over shared state (the
checkpoint, the trail, the order system) without locks or compare-and-set; two
or more orchestrator replicas serve one thread; the order system and the trail
are two systems without a common transaction; the POST has a timeout; the
language models decide how often and in what order tools are called.

What makes each part correct:

- *write path*: callers of one key agree on the order; a success is real and on
  record; a refused call never orders; nothing is ordered that did not pass the
  gate on data of the call, and nothing refused that passed it; refusals and
  failures leave the key free; every call ends.
- *journey*: no order without the customer's approval; repeated approvals agree;
  a proposal acted on is closed, a shown one stays open, no message is lost.
- *widget*: the card shows the proposal that `/approve` would accept; no approval
  is carried through twice; each control comes back.
- *tools*: no agent works with a result the trail does not hold; no case on
  record is missing in the CRM.
- *compensation*: a follow-up case the customer is told of is open and names the
  order that was made; the run ends, whatever the CRM does.
- *lazy initialisation*: one thread store in memory; over Postgres a graph on a
  connection that is open and kept; every request gets a graph or an error.
- *front door*: the limit bounds admissions, and refusals are deserved.

## Modules

| Module | Models |
|---|---|
| `OrderPromise` | what the write path promises its callers, abstractly: orders may be made more than once per key, one of them is put on record and never replaced, success is told from the record only, a refused call has no order |
| `OrderPromiseProofs` | what follows from the promise alone, for whoever keeps or uses it |
| `SubmitOrder` | `submit_order`, idempotency lookup, audit row and unique index, the mock's `create_order`; properties |
| `MCSubmitOrder` | instances: prices of `db/init/003` in cents, request sets |
| `SubmitOrderProofs` | inductive invariant, safety theorems, refinement of `OrderPromise` and what it entails |
| `SubmitSerialProofs` | one order per key and no orphan when calls do not overlap; free keys; a success fits its request |
| `Conversation` | what the assistant promises a customer who does one thing at a time, abstractly: propose, approve, and only then execute |
| `Journey` | `/chat`, `/approve`, graph, agents and the checkpoint of one thread, on top of `OrderPromise` as the Gateway |
| `MCJourney` | instances |
| `JourneyProofs` | types, no order without approval, repeated approvals agree, true reports, the promise kept within the journey |
| `ChatWidget`, `MCChatWidget` | one browser tab on top of `Journey` |
| `ChatWidgetProofs` | widget and server together are a journey, and what follows; what a customer who does one thing at a time can rely on, refinement of `Conversation` |
| `GatewayTools` | every tool but `submit_order`, with the CRM mock; part of `AgentRuns` |
| `AgentRuns`, `MCAgentRuns` | the agents' runs against `GatewayTools` and `OrderPromise`, with the compensation of the governance agent |
| `AgentRunsProofs` | results on record, real cases and follow-ups, the promise kept within the runs |
| `GraphInit`, `MCGraphInit` | the lazily built graph and checkpointer |
| `GraphInitProofs` | one store in memory, a sound graph without overlap |
| `RateLimit`, `MCRateLimit` | key check and fixed-window limiter |
| `RateLimitProofs` | the limiter's two bounds |

Every mutant operator (`Mutant...`) stands before the definition it is a broken
variant of; it is not part of any specification.

### SubmitOrder

One action per await of the handler. `pc` is the place in `submit_order`;
`eligibility`, `spend` and `verdict` are its locals; `wire[c]` is the POST of
call `c` (`none`, `sent`, `created`, `rejected`); `trail[c]` the row it wrote,
as what it says happened, and `rowKey[c]` that row's column `idempotency_key`;
`reply[c]` its answer. An order is named by the call whose POST created it, so
`orders` is the set of calls whose POST arrived. Correlation and payload columns
of the row, and the rest of the order, are not modelled: no property
distinguishes them.

- The gate is decided in `ReadCatalog`, in the same step that sends the POST or
  turns to the refusal, because there is no await between them.
- The code subtracts two floats and rounds to cents. `Delta` adds an error of at
  most one `Tick`, a tenth of a cent, to the exact difference and rounds it.
- A refusal's row has `outcome_status` 'success' like that of an order
  (`Succeeded`). What keeps its key free is that its key column is NULL: `KeyColumn`
  is what the handler writes there, and `IndexAdmits` and the lookup compare it.
- `RecordAudit` is the commit of the row and `Return` the answer, so a crash or
  a broken connection may fall between them (`AuditRaises` at `return`).
  `LateCommit` is an INSERT that the database commits after the caller was given
  an error or the process died.
- `CreateOrder` is enabled as long as the POST is `sent`, also after the caller
  has timed out or died: the mock does not know.
- `ReadFails` covers what the reads raise; they are outside the `try` block, so
  nothing is recorded. An unknown customer is raised at the eligibility read, an
  unknown offer at the catalogue read. The catalogue itself does not change:
  nothing in the repository writes it after seeding.
- `Refresh` changes a customer's row at any time. The views' owner is outside
  the repository; the handler reads twice, and the two reads may see two rows.
- The blank key is in the model: the lookup skips it, the unique index does not.

`Faults` names the failures an instance allows, `Overlap` whether calls overlap.
`KeysIdentify` says of an instance that no key stands for two requests, which is
what `SuccessFitsRequest` needs: a key is a proposal id of 24 random bits, and
the lookup compares nothing else. It holds of the requests of `submit_serial`.

### OrderPromise and its three uses

`SubmitOrder` implements it (`PromiseKept`: `executed` is `orders`, `recorded`
is the success row of a key, `told` the order in the reply, `refused` the calls
answered `blocked` or `escalated`). `Journey` and `AgentRuns` use it as their
Gateway: they take its actions for the calls their agents make, with `refused`
read off the outcome of a call. So they compose, and rest on nothing of
`SubmitOrder` but this promise and, for liveness, `EveryCallEnds`.

Its properties (`AnswersAgree`, `RecordsAreReal`, `AnswersOnRecord`,
`RefusalsHold`, `NothingWithdrawn`) are proved of the promise itself, in
`OrderPromiseProofs`. `SubmitOrder` has them because it keeps the promise;
`Journey`, `ChatWidget` and `AgentRuns` because everything they do to the
Gateway's variables is a step of the promise or a stutter, which is proved of
each.

### Journey

One thread; threads share nothing but the Gateway. `ckpt` is the latest
checkpoint: the pending proposal and the set of requests whose messages are in
it. Phase, intent and last result are left out: phase and last result are
written and shown, never read by a decision, and intent is consumed by the edge
right after it is written (`Route`). `local[r]` is the state a request carries.
LangGraph itself is not in the repository; from its use, `ainvoke` reads the
latest checkpoint once and writes its whole state after the input and after each
node, and `aupdate_state` reads and writes back. These are separate steps
(`ChatLoad`, `ChatInput`, `Route`, `AgentEnds`; `ApproveLoad`, `ApprovePut`),
and the last writer wins.

The models choose freely: any route, any number of calls of the tools the agent
is bound to (`Tools`), in parallel or none. The one thing trusted is that the
governance agent passes the key its prompt contains, which is the key of the
proposal in the state it read. Requests come from any number of tabs and overlap
as they like; `ChatWidget` is the one tab.

`Dies` ends a request between two awaits and leaves the checkpoint as last
written; `Restart` is a process without `POSTGRES_HOST`, whose `MemorySaver`
forgets the thread as well. Calls the request has made to the Gateway go on.

### ChatWidget

Extends `Journey` with what `chat.js` keeps: `card` is `currentProposal`,
`waiting` the requests whose fetch is in progress. `Send` and `Approve` are the
two gestures, guarded by the control they disable: the composer does not stop an
approval, nor the button a message. `ChatAnswered` shows the proposal of the
answer or hides the card (`renderProposal`); `ApproveAnswered` hides it whatever
the status, since a 404 and a 409 are JSON as well; `FetchFails` is a connection
that broke or a body that is not JSON: the exception leaves the handler (there is
no `catch`) through its `finally`, which changes only the control. `Reload` loses the page and keeps the thread id.
`ClosedStaysClosed`, `TurnsKept` and `ShownStaysOpen` are properties of `Journey`
that need a customer who does one thing at a time; `Patient` says that the next
gesture is made when nothing is in progress, also not on the server.

`synced` is a history variable: an answered chat or a carried-through approval
sets it, a failed fetch or a reload clears it, and a 404 or 409 leaves it as it
is. It is what `CardIsPending` may rely on.

`ConversationKept` is the refinement of `Conversation`, for a patient customer.
`open` is the pending proposal of the checkpoint; `past` is every minted
proposal that is neither pending nor the draft of an agent at work, so a
proposal is over when it was approved, replaced, or drafted and never shown;
`approved` is what the approvals name, `asked` the promise's. A chat that ends
with a draft is `Offer`, a draft that is replaced, lost with its request or
taken back by a failing tool `Discard`, the click on the card `Approve`, a
`submit_order` call `Ask`, the update of the checkpoint after the governance
agent `Close`. The guards of `Ask` and `Close` say that the proposal is open and
approved at that moment; in the code both are checked once, before the agent
runs for seconds (`api.py:107-113`), and nothing checks them again.

### GatewayTools and AgentRuns

A call of a tool is at its view (`get_customer_usage`, `get_customer_profile`,
`get_order_eligibility`, and `propose_order`'s `_current_and_target_price`), at
the catalogue, at its `POST /Case`, at its audit row or on its way back. What is
returned is not modelled, only whether the customer and the offer exist; a case
has its flags and its order id, and no customer, whom neither `create_case` nor
the CRM looks up. `wire`
is the POST and lives on after a timeout or a crash, as in `SubmitOrder`;
`trail` is the call's row. An unknown customer leaves a row in the three reads
and none in `propose_order`, as in the code.

A run is one `ainvoke` of an agent. A *scripted* run is a governance run whose
approval asks for the simulated failure (`simulate_partial_failure`), and
whose model follows the steps of the prompt (`governance_agent.py`): submit,
`create_case` with `force_fail`, `create_case` with `is_compensation` and the
order id, reply. A *free* run is any agent with any of its tools, in parallel or
not, with any arguments (`Arguments`): customers and offers that exist or not,
and for `create_case` either value of both flags and any id of `OrderIds`, made
or not, or none; it need not be sensible. Several governance runs of one
proposal are approvals that overlap or follow a request that died. A run whose
request dies just takes no further step, which the safety properties allow at
any point; its tool calls go on. `submit_order` is `OrderPromise`.

### GraphInit

`get_graph` step by step: over `MemorySaver` one step, over Postgres three with
two awaits between them (`__aenter__`, `setup`), each reading the globals `cm`,
`saver` and `graph` of the moment. `Collect` is external: Python finalises the
generator of a context manager nobody refers to any more and with it closes the
connection. `raced` is a history variable, set when a second request starts
building while one is.

`SoundUnlessRaced` holds for any sequence of failed and successful attempts that
do not overlap. When two do overlap over Postgres, it can fail for good: `r1`
has connected, `r2` stores its own context manager, `r1` finishes `setup` and
caches a graph over its own saver, whose connection is then finalised, and `r2`
fails. Every later request gets that graph.

### RateLimit

The dispatch has no await between reading and writing the window, so it is one
step. Time is whole seconds and does not step back. `/health` bypasses both
checks and changes nothing, and is left out. Only the Gateway's own key reaches
the counter, because the key check runs first: Starlette runs the middleware
added last first (`asgi.py:34-35`), the reverse of the order drawn in
`docs/code-flow.md:27`.

## Runs

| Run | Instance | Shows |
|---|---|---|
| `submit_overlap` | 3 overlapping calls, keys `k1` and blank, a plan within and one over the threshold; reads, POST, timeout and crash faults | `TypeOK`, `SameKeySameOrder`, `SuccessIsReal`, `FailuresLeaveTheKeyFree`, refinement `PromiseKept` |
| `submit_gate` | 2 overlapping calls, the row changing between two eligible customers and a debtor with a higher spend; timeout and audit faults | `AnswersAreOnRecord`, `RefusedNeverOrders`, `OrdersPassedTheGate`, `RefusalsAreDeserved`, liveness `EveryCallEnds` |
| `submit_serial` | 3 calls one after the other, 4 keys and the blank one, unknown customer and offer; read and POST faults | `OneOrderPerKey`, `NoOrphanOrder`, `SuccessFitsRequest` |
| `submit_race` | 2 overlapping calls, no fault | violates `OneOrderPerKey` |
| `submit_timeout` | calls one after the other, timeout | violates `NoOrphanOrder` |
| `journey_any` | 2 chats, 2 approvals in any overlap, 2 proposals, 2 tool calls; requests die, tools fail, the orchestrator restarts and forgets | `TypeOK`, `OrdersWereApproved`, `ApprovalsAgree`, `ReportsAreReal` |
| `widget_patient` | 2 chats, 2 approvals, 2 proposals, 1 tool call, a patient customer; requests die, tools fail, answers are lost, the page is reloaded | `WidgetTypeOK`, `ClosedStaysClosed`, `TurnsKept`, `CardIsPending`, `ShownStaysOpen`, `NoSecondRun`, refinement `ConversationKept`, liveness `ControlsComeBack` |
| `widget_reopened` | 2 chats, 1 approval, no fault, a customer who goes on | violates `ClosedStaysClosed` |
| `agent_runs` | a scripted approval, and with it another of the same proposal or a run of any agent; all faults | `TypeOK`, `ResultsOnRecord`, `RecordedCasesExist`, `FollowUpIsReal`, `FollowUpsAgree`, `FollowUpStands`, liveness `ScriptEnds` |
| `followup_doubled` | 2 scripted approvals, no fault | violates `OneFollowUpPerOrder` |
| `graph_init` | 4 first requests, with and without Postgres; the database fails | `TypeOK`, `SoundUnlessRaced`, `OneMemory`, liveness `EveryRequestServed` |
| `rate_windows` | limit 2, window 3 s, 7 requests with the right or a wrong key over 9 s | `TwiceTheLimit`, `NoUndueRefusal` |

Bounds. Three calls are the fewest in which two race for a key and a third is
answered from the record; two suffice where the property is about one call and
its customer, the other being there to interleave. Three rows suffice for the gate:
`Good` is eligible and 10.00 below the smaller plan, `Debtor` ineligible and
within the threshold of the larger one, so that a mixture of two reads passes
where neither row does, and `Frugal` exactly 15.00, the threshold, below the
smaller plan. The refused attempt under `k1` in `submit_overlap` is the larger
plan's. Two proposals let one replace the other; two tool
calls let one repeat the other. In the widget two approvals let a lost answer be
followed by a second click, and two chats let one repair what the other left;
one tool call is enough there, since repeated orders are `journey_any`'s. Two
runs let two approvals of one proposal meet, or an approval meet any other
agent; a scripted run makes its two case calls, a free one `FreeSlots`, here one;
one order id in `OrderIds`, the scripted run's, lets a free case name it.
Four requests let two attempts at the graph fail, one succeed and one find it
cached. Seven requests over three windows of two let a
burst meet the next and a third follow. `MaxTime` and `MaxRequests` bound
`RateLimit`, and the finite sets of requests and calls everything else; nothing
is bounded in the proofs. Symmetry is used only
in runs without liveness properties.

`CHECK_DEADLOCK FALSE` everywhere: the system rests once every request of the
instance is over.

Fairness. `SubmitOrder` assumes weak fairness of each call's handler: asyncio
resumes a coroutine whose await is over, and each await ends, the database's by
an answer or an exception and the POST's by the 10 s client timeout
(`http_clients.py`). It assumes nothing of the order system. `Journey` assumes
that each request goes on and that each tool call ends, which is
`EveryCallEnds`; it does not assume that a request is ever sent, that a model
calls any tool or that the Gateway orders. `ChatWidget` assumes the same of the
server, and that `fetch` settles once the server has answered or the connection
broke; it does not assume that the customer does anything, nor any answer of a
request that is still at work. `AgentRuns` assumes that the handlers go on,
that a `submit_order` call ends (`EveryCallEnds`) and that the model of a
scripted run follows its script; the CRM owes nobody an answer. `GraphInit`
assumes that an await of the database ends. `RateLimit` has no liveness.

## Findings

- `submit_race`, `docs/eval-cases.md:12`: two overlapping `submit_order` calls
  with one key both order; the unique index then fails the second one.
- `submit_timeout`, `idempotency.py:2-4`: after a timeout the order may exist
  while the trail says failure and the key is free, so a retry orders again.
- `widget_reopened`, `graph.py:19-21`: a chat in flight during an approval puts
  the approved proposal back. The widget allows it: the composer stays enabled
  during `/approve`.
- `followup_doubled`, `idempotency.py:6-9`: `create_case` takes no idempotency
  key and looks nothing up, so two approvals of one proposal open two follow-up
  cases for the one order.

Seen while reading or checking, without a run:

- An approval in flight drops the newer proposal a chat has shown meanwhile
  (`governance_agent.py:78`, against `state.py:4-5`, "any pending proposal
  survive across turns"); approving that one answers 409.
- The fixed window admits up to twice the limit within 60 s, against
  `docs/eval-cases.md:14`; twice is the bound (`TwiceTheLimit`).
- A call answered from the cache writes no audit row, nor does one whose reads
  raise, nor a failing `propose_order` or `get_catalog`, against
  `audit_logging.py:4-5` ("Every tool call in this Gateway goes through
  record_audit(), with no exceptions").
- `docs/code-flow.md:52` has the graph "built once and cached"; overlapping first
  requests over Postgres build it more than once, with the outcome described
  under `GraphInit`. A cached graph whose connection the database drops later is
  not rebuilt either.
- `docs/demo-script.md:19` reloads the page "for a new thread_id"; `chat.js:12`
  reads the id back from `sessionStorage`, which a reload keeps, and so does the
  model.
- `docs/code-flow.md:27` gives the two middlewares in the reverse of the order
  they run in.
- `GOVERNANCE_AUTO_APPROVE_DELTA_EUR` is given to the orchestrator
  (`docker-compose.yml:81`) and read by the Gateway only.

## Proofs

For every set of calls, requests, keys, customers and prices, every subset of
the faults, overlapping or not (assumptions `RequestsAssumption`,
`PricesAssumption`, `SwitchesAssumption`: the constants are of the right kind
and `None` is none of them):

- `TypeCorrect`, `Agreement`, `RealSuccess`, `OnRecord`, `RefusalIsFinal`,
  `GateHolds`, `RefusalsDeserved`: the type invariant and the six safety
  invariants above.
- `Refinement`: `Spec => PromiseKept`.

The invariants speak of orders and answers and are silent on a call half way,
so none is inductive. `IInv` adds, per call, what each point of the handler
knows (`ReadingInv`: the rows read were true during the call and nothing has
happened outside yet; `GateInv`: what is on the wire passed the gate and what is
refused did not; `DecisionInv`: POST, decision, row and key column agree;
`ReplyInv`: answers are on the trail) and, between calls, the uniqueness of the
rows of orders (`UniqueIndex`). `RoundingIsExact` says that the rounding undoes
the float's error, `IndexGuardsOrders` that, only orders' rows having a key, the
index refuses an order's row for another order's and nothing else.
`Frame` shows that a step of one call leaves the invariant of the others alone,
since success rows only accumulate; each action then has a lemma of its own, one
step per conjunct. The refinement maps `Start` to `Ask`, `CreateOrder` to
`Execute`, a committed success row to `Record`, a success answer to `Tell`, a
`blocked` or `escalated` answer to `Refuse`, and every other step to a stutter.

Of the promise alone, for every set of calls and keys and with no assumption:
`PromiseAgrees`, `PromiseIsReal`, `PromiseRefuses` and `PromiseLasts`. One
inductive invariant, `PromiseInv`, ties the answers to the record and the record
to the orders; the last theorem is about steps and follows from the same lemma.
`RecordStands` and `RecordFitsKey` carry them over to `SubmitOrder`: the order
on record under a key is never exchanged for another, however calls race, retry
and time out. `JourneyLasts` carries them over to the journey.

`SubmitSerialProofs` adds, over the same invariant:

- `SerialOneOrder`, `SerialOnRecord`: under `Serial` (calls do not overlap; only
  reads and the order system fail) one key has one order, and the order of a
  finished call is on the trail. `submit_race` and `submit_timeout` lift one of
  the two conditions each. `AloneInv` says that the one call in progress owns its
  key, so the index admits its row, and that an order is on its way to the trail
  or there.
- `KeyStaysFree`: `FailuresLeaveTheKeyFree` whenever the database does not fail,
  overlapping or not: the call that made an order ends in an error only if
  another order of its key is on the trail. It rests on `KeyColumn`; with the key
  on every row a refusal would take it.
- `SuccessFits`: `SuccessFitsRequest`, of any instance.

For every number of requests, proposals and tool calls of one thread
(`JourneyAssumption`):

- `NoUnapprovedOrder`: the Gateway is asked for an order only by the handling of
  an approval and under the proposal that approval names. The invariant adds
  that the state the governance agent works on holds that proposal, and that
  only an approval reaches its node.
- `JourneyTypes`, `RepeatedApprovals`: types, for which only minted proposals may
  be carried or shown (`MintedInv`); and `ApprovalsAgree`, for which `AgreeInv`
  follows an order's id from the record to the call that was told it and to the
  approval that reports it.
- `JourneyPromises`, and of the widget `WidgetPromises`: every step of the
  journey is a step of `OrderPromise` or leaves its variables alone. With it
  `JourneyLasts` and `RealReports`: that a reported order exists and was made for
  the approved proposal is the promise's, and that a report says what its last
  call was told is `AgreeInv` and `RefusalInv` (no report before the agent has
  returned, and then the last call is over).
- `WidgetIsAJourney`: every step of `ChatWidget` is a step of `Journey` or leaves
  it alone, with the widget's types, because the card is always a proposal that
  was shown (`AnswerShown`). With it `WidgetOrdersApproved`,
  `WidgetApprovalsAgree` and `WidgetReportsReal`, patient customer or not.
- `PatientClosed`, `PatientTurns`, `PatientCard`, `PatientOpen`,
  `PatientRunsOnce`: five of the properties of `widget_patient`, under `Calm`: the
  customer is patient and no restart loses the thread. The invariant says that
  one request has the thread to itself (`Alone`), what its handler then knows of
  the checkpoint (`ChatInv`, `ApproveInv`), and that this is still so when the
  widget shows the answer (`WaitInv`, `SyncInv`). `widget_reopened` drops
  the first condition.
- `PatientConversation`: under `Calm` too, `ConversationKept`. `Alone` leaves one
  draft at most, that of the chat in progress, so a draft that is dropped goes to
  `past` and a new one cannot be what is pending. `PatientOver` then follows from
  `Conversation` and the types: what is over is not opened and not ordered.

For every number of runs of any cast (`RunsAssumption`, `FaultsAssumption`):

- `RunTypesHold`, `RecordFirst`, `CasesExist`: types, `ResultsOnRecord` and
  `RecordedCasesExist`. `CallInv` says what a call has done at each point of its
  handler.
- `RealFollowUp`, `FollowUpAgreement`: `FollowUpIsReal` and `FollowUpsAgree`, from
  `RunInv` (a scripted run has a follow-up only after it was told its order, and
  with that order's id) and `PromiseInv` (what was told is on record).
- `RunsPromise`: the runs use the write path within its promise.
- `FollowUpLasts`: `FollowUpStands`. A committed row stays with its call's
  arguments (`RowStays`), its case is open, and its order is the one on record
  after every step (`FollowUpInvHolds`), whatever later runs do.

For every number of requests (`NoneAssumption`): `GraphTypes`, `OneStore` and
`SoundGraph`. While no attempts overlap the one that is building owns the
globals, and once there is a graph nobody builds (`AloneInv`).

For every limit, window, set of keys and length of the run (`LimitAssumption`):
`AtMostTwice` and `RefusedWithCause`, the bounds `TwiceTheLimit` and
`NoUndueRefusal`. The counter forgets and the bounds speak of all requests so
far; `LimitInv` says that the count is what was admitted since the window began,
up to the limit, and that a span reaching into the window meets at most one limit
of earlier admissions.

Checked by TLC only: liveness (`EveryCallEnds`, `ControlsComeBack`, `ScriptEnds`,
`EveryRequestServed`), which is beyond the prover, and with it the fairness part
of each specification: the refinements proved are of safety specifications. Every safety and action
property that a passing run checks is also a theorem.

## Not modelled

- The Gateway's connection pool and HTTP clients: `get_pool` is first called by
  the lifespan, before any request is served, so its lock is never contended;
  the clients are created without an await. Their failures are faults.
- What the widget only displays: panel, bubbles, badge, typing indicator.
- The language models' words, and phase, intent and last result, which decide
  nothing.
- Late commits of the other tools' rows: no tool reads those rows, and they carry
  no key.
- The collision of two proposal ids: `SuccessFitsRequest` says what holds
  without one.
- Model and tracing configuration, the home page, infrastructure and scripts
  have no behaviour of their own. What the deployment fixes of concurrency is
  used: two or more orchestrator replicas, one Gateway task.

## Plan

1. Done: `OrderPromise`, `SubmitOrder`, their runs and proofs; `Journey` over
   `OrderPromise`, its runs and first theorem; `RateLimit`.
2. Done: `ChatWidget` over `Journey`; `GatewayTools` and `AgentRuns` over
   `OrderPromise`; `GraphInit`; restarts, lost answers and reloads; keys and the
   requests they stand for.
3. Done: types and safety of `Journey`, `ChatWidget`, `AgentRuns` and
   `GraphInit`; the serial properties of `SubmitOrder`; those of a patient
   customer; the bounds of `RateLimit`.
4. Done: the promise's own theorems and what they entail of its keeper and its
   users; refusals in the promise; reports; `Conversation` and its refinement.
5. Left: the audit trail as an abstraction of its own, refined by `SubmitOrder`
   and `GatewayTools` alike. Liveness under fairness stays with TLC.

# Verification of nomi-agent

TLA+ models of the orchestrator and the web platform of nomi-agent, the TLC instances that check
them, and TLAPS proofs about them. Paths below are relative to the repository; `orchestrator/` stands for
`packages/orchestrator/src/`.

## 1. The system

nomi-agent gives each user one AI agent in a Docker container. A single Node process, the
*orchestrator* (NestJS), starts and stops the containers, hands them the messages that arrive from
Slack, from webhooks and from schedules, and proxies their calls to the LLM. State is in Postgres
(Supabase), in the Docker daemon, and in two SQLite files per user that the container mounts. The
*platform* (Next.js) is the UI and a thin API in front of the orchestrator.

The orchestrator has no locks, no queues and no transactions: handlers, cron jobs and socket
callbacks interleave at every `await`, act on rows they read earlier, and mostly ignore the errors
Postgres returns. That is what the models are about.

### Inventory

| Component | State | Operations | Interacts with | What makes it correct |
|---|---|---|---|---|
| ContainerManagerService | Docker containers, `instances.internal_token_jti` | `startContainer`, `stopContainer`, inspections | called by all handlers; Docker; InternalTokenService | one container per user; container, row, LLM label and token agree; failure leaves something the next operation repairs |
| InstancesService | row of `instances`, `user_api_keys`, `onboarding_progress`, first-week schedules | create, restart, delete, updateConfig, updateContainerId, updateLastActivity | ContainerManager, workspace files | the row tells the truth about the container |
| MessageDispatchService | none | dispatch | ContainerManager, SessionDb | a message reaches a container that runs and uses the selected LLM |
| SessionDbService | `inbound.db`, `outbound.db` | writeInbound, waitForReply, markDelivered, bootstrapWorkspace | the agent in the container | messages in order; each reply goes once, to its message; waits end |
| InternalTokenService | `internal_token_jti`, JWTs | issue, verify, revoke | ContainerManager, LLM proxy | a revoked token stays revoked; a running container's token is accepted |
| SchedulerService | `schedules`, run logs | runDueSchedules (1 min), stopIdleContainers (5 min) | dispatch, ContainerManager | due schedules run, once; idle containers stop |
| MonitorService | none | detectCrashedContainers (5 min) | ContainerManager | a row whose container died is repaired |
| WebhooksService | none | handleTelegram, handleSlack | ContainerManager, InstancesService | a message starts the container |
| SlackSocketService | 60 s set of seen events | handleMessage, sendMessage | `channels`, dispatch | a message is dispatched once, to a user who connected its workspace |
| ChannelsService, channels page | `channels`, state of the page | connectSlack, listChannels, disconnectChannel | Slack, SlackSocketService | one row per user and type; disconnecting stops messages |
| BillingService, platform billing webhook | `subscriptions`, `payments` | five events, three of them twice | Lemon Squeezy | late and repeated events give access only after a purchase and an active status |
| LLM proxy (controller, budget, routing, forwarder, recorder) | `usage_logs` | POST messages | InternalTokenService, Anthropic, Ollama | budget respected, right backend, usage recorded |
| Usage tap | per-stream parser | transform, flush, snapshot | forwarder | counts do not depend on how the stream is cut |
| Platform API routes | `onboarding_progress`, forwards the rest | onboarding, its status, instances, config, restart, channels | orchestrator over HTTP | who completed the onboarding has an instance until it is deleted; nothing decided is lost |
| Platform UI | session cookie, state of each page in each tab | middleware, login, signup, callback, five onboarding steps, dashboard, settings | platform API, Supabase Auth | no redirect goes round for ever; a page shows what the server has |
| Configuration, crypto, auth guard | - | - | - | not modelled |
| `infra/ollama` | - | - | - | not modelled |
| Agent engine (`packages/engine`, an empty submodule) | `messages_out` | external | SQLite files | environment of SessionMailbox |

What is hard to test here, line by line, is the list `hazards` of `PROJECT.json`.

## 2. Modules

| Module | Lines of the system | Role |
|---|---|---|
| `ContainerManager` | container-manager.service.ts, internal-token.service.ts | one action per round trip of `startContainer` and `stopContainer` |
| `InstanceLifecycle` | instances, dispatch, scheduler (idle), monitor, webhooks | extends ContainerManager with every handler that changes the row or the container, crashes and container deaths; states the properties |
| `InstanceLifecycleInvariant` | - | the inductive invariants `IInv` and, for handlers that do not overlap, `SeqInv` |
| `InstanceLifecycleProofs` | - | the theorems, those about handlers that do not overlap at its end |
| `MCInstanceLifecycle` | - | the lifecycle as TLC runs it |
| `TokenRegistry` | internal-token.service.ts, its contract | the abstract register of tokens that InstanceLifecycle implements |
| `SessionMailbox`, `SessionMailboxProofs` | session-db.service.ts, the tail of dispatch | the two SQLite files, the waits for replies, the agent as environment |
| `ScheduleRunner`, `ScheduleRunnerProofs` | scheduler.service.ts (schedules) | overlapping cron ticks over the table `schedules` |
| `LlmProxy`, `LlmProxyProofs` | llm-proxy/ (controller, routing, budget, forwarder, recorder), the key part of updateConfig | concurrent calls of one user's agent |
| `UsageTap`, `UsageTapProofs` | usage-tap.ts | the stream parser, fed chunk by chunk |
| `Billing`, `MCBilling`, `BillingProofs` | billing.service.ts, the platform's billing webhook, the guard | two consumers of the store's events over one table |
| `Channels`, `MCChannels`, `ChannelsProofs` | channels.service.ts, slack-socket.service.ts, the channels page | connects and disconnects of several tabs, the table, and the routing of Slack messages by it |
| `Site` | middleware, login, signup, callback, logout | tabs, the session they share, the rows the pages read |
| `Wizard` | onboarding page and its steps, `/api/onboarding`, `/api/onboarding/status` | extends Site |
| `Dashboard` | dashboard and settings pages, their routes, getConfig and updateConfig as they see them | extends Site |
| `Platform`, `PlatformProofs` | - | composes Wizard and Dashboard, states the properties |

Names of the kind `CountingUnchecked` or `SetStatusOfAll`, marked "a plausible slip" or "mutant", are
not part of any specification: each is a definition as a slip would make it, and `PROJECT.json` says
which property then fails.

### 2.1 InstanceLifecycle and ContainerManager

*State.* `row` is the user's row of `instances` (id, status, container_id, internal_token_jti,
active_llm, and last_activity as one of null, recent, old). `docker` is the container that holds the
user's name: id, state, the token in its environment, its instance and LLM labels. `pc` and `loc` are
the control point and the locals of each handler in flight; `Slots` bounds how many there are.
`minted` counts ids, `solo` is a history variable that names the slot of the last handler as long as
no other handler, container death or crash came between its steps. `mended` and the local `seen` are
history too: they say which failing calls were past when a handler began.

*One user.* Rows, container names, workspaces and tokens are per user and no handler touches two
users except by looping over them, so a second user would add nothing.

*Atomicity.* Code between two awaits is one action. The first action of a handler is its first
database read; every later write is by `user_id` or by `id` exactly as in the code, which decides
what happens when the row was deleted or recreated in between.

*Docker* is modelled by what dockerode returns: a reference resolves by id or by name; stop of a
container that does not run answers 304, which dockerode rejects, so `remove` is skipped; remove of a
running container and create with a taken name answer 409; a container adopted by name is recorded
under its *name*, because `existing.id` of a handle made from a name is that name (`ByName`).

*Failures.* Any call to Docker or to Postgres may fail although it could succeed, up to `MaxFaults`
times, before it has taken effect or after. Each action says what its caller makes of that (`Fails` next
to `Succeeds`):

| Call | What a failure does |
|---|---|
| inspect in `stopContainer` | caught; no label is known, nothing is stopped or revoked, the caller goes on |
| stop, remove in `stopContainer` | caught; the container may run on, the token is revoked all the same |
| revoke | thrown and caught; the token stays good |
| inspect, remove in `startContainer` | caught; a token is issued and the name may be taken |
| issue | thrown; the token may be on record |
| `createContainer` | thrown, for whatever reason, with the token on record; the container may exist |
| `start` | thrown; the container may run |
| `isContainerRunning`, the label, `getTaskStatus` | not running, no label (the container is kept), stopped |
| first read of a handler | it ends, or finds no instance |
| a write through supabase-js whose error nobody looks at | lost, the handler goes on (`Write`) |

*Left out:* texts (name, CLAUDE.md), workspace files, instance_events and usage_logs, API-key rows,
token expiry, the branch on MAX_AUTO_RESTART (no code increments
`restart_count`), requests that end at a check without effect (409 on a second create, 404).

### 2.2 SessionMailbox

*State.* `inbox` is `messages_in`, `outbox` is `messages_out` (which message a row answers, whether it
has text, whether its deliver_after passed), `delivered` the table of that name, `waiter` the local
state of each `waitForReply`, `posted` what went to the channel. better-sqlite3 is synchronous, so
`writeInbound` and the first poll are one step, which is why a backlog is returned before the agent
has seen the message. `DeadlinePasses` may come at any moment after the first poll, which covers every
relation between the five minutes and the agent's pace; from then on the loop's next check of the clock
ends the wait. The agent may answer each message any number
of times, in any order, with or without text.

### 2.3 ScheduleRunner

*State.* The columns `is_active`, `next_run_at <= now` and `run_count`, the number of run logs, and per
tick its snapshot of the rows. A tick picks its schedules in any order (the query has no ORDER BY).
`dispatch` is one step that succeeds or throws; its inside is InstanceLifecycle.

### 2.4 LlmProxy

*State.* `llm` and `key` are what routing reads (`instances.active_llm`, `user_api_keys`), `handler` what
each updateConfig in flight has yet to write, `call` the control point and locals of each call, `hosted`
and `own` today's tokens in `usage_logs` by backend. `spent`, `open`, `lost` and `removed` are history
variables. A call is one slot from its arrival until its record is inserted: the recorder is not awaited,
so the agent's next call can pass the budget check before the last one is logged. Tokens of a call are a
number up to `MaxTokens`; how they are read off the stream is `UsageTap`.

*Broken streams.* The forwarder listens to the last stream of its pipe and to the response. An error of
the source stream (the upstream breaks off, the timer aborts) is emitted where nobody listens, which ends
the Node process: `ProcessDies`. A client that leaves makes the pipe stop without an event: the call is
`stalled` until the timer or for ever (`Abandon`). Whether `close` of the request still reports a client
that leaves depends on the version of Node; both outcomes are allowed. So the branch of the controller
for an abort after the headers (llm-proxy.controller.ts:118) is never taken.

### 2.5 TokenRegistry

The LLM proxy accepts a token while its jti is the one in the row. `TokenRegistry` follows the good token
to the one who has it: issued, it is with the handler that asked for it (`pending`) or with nobody
(`spent`, when `issue` failed after its write); the handler puts it into the container it creates (`held`)
or loses it; once spent it is given to nobody again, until it is revoked or a new one replaces it. In the
code this is spread over `startContainer`, `stopContainer`, restart and delete, each several round trips,
any of which may fail, be overtaken or cut off. `InstanceLifecycle!Registry` maps `live` to the jti of the
row, or none if there is no row, `issued` to the number of tokens minted, and `place` (`Place`) to where
the token of the row is found among the container and the handlers; a token issued for a row that went
meanwhile is `IssueInVain`. `ImplementsTokenRegistry` is checked as a property of `lifecycle_races` and
proved as `RegistryImplemented`. `TokensNeverRevive` says of every token, not the good one alone, that
it does not come back; that two containers or two handlers never have the good token is the register's
to say.

### 2.6 UsageTap

*State.* What the upstream sent, the pieces on the wire, the buffer of the tap and its three counters.
An event is six pieces: a name line, a newline, two halves of the data line and two newlines; a chunk is
any number of pieces, so it may end within a line and between the two newlines. `Ends` are the places
where the loop of `extractCompleteSseEvents` finds a separator: an empty line, unless its first newline
belongs to the separator before, since the search goes on behind it. `Event` and `Remainder` are its
slices, `Parse` is `parseEvent`, and `Tally` the loop over the events, a function of the place in the
buffer. The tap for unstreamed bodies collects everything and parses at the end. A response that breaks
off ends the process (2.4), so neither tap sees it.

### 2.7 Billing

*State.* `seen` is what the store has sent, `rows` the table `subscriptions` by `ls_subscription_id`,
`payments` the rows per order. An event is handled at any time after it was sent, any number of times,
so delay, repetition and reordering need no queue. `identified` says whether payloads repeat their
identifier in `attributes.id`, where the orchestrator looks for it; if not, as in the payload types of
the repository, which have it in `data.id` alone, all subscriptions share the row with key `''`. UNIQUE columns are guards: an insert that meets one does nothing, and no caller looks
at the error. The platform's upsert names a column that `subscriptions` does not have, so only its
`updateStatus` is left. `HasAccess` is `requireActiveSubscription`, which no route calls yet. `AccessIsReported` covers both kinds of payload, and
says no more than holds of the second: in the shared row a user can pass by the status that was reported
of another user's subscription. That this user bought one too, and that some active status was reported
under the key, always holds; where events name their subscription, the two are one and the same.

*Left out:* plans, periods, amounts; subscriptions bought by another way than the checkout, which puts
the user's id into `custom_data`; forged signatures.

### 2.8 Channels

*State.* Per tab the page, its connect and its disconnect (`conn`, `disc`: both can be under way, since
the dialog can be closed and opened again), the table `channels`, and per Slack event its stage. `order`
stands for `connected_at`: it lists the rows from the one connected last to the first, and a deleted row
keeps its place. A message that names the bot arrives as `message` and as `app_mention`.
`processedEvents` forgets a message after 60 seconds (`Expire`, at any time) and in a crash. `eligible`,
`handled`, `forgotten` and `doubled` are history variables. `DeleteInstance` removes the rows by CASCADE.

*Left out:* Telegram: the page sends no `botUsername`, which the DTO requires, so its connect is
rejected before it does anything. The dispatch itself is InstanceLifecycle and SessionMailbox.

### 2.9 Site, Wizard, Dashboard, Platform

*State.* `loc` is the path of each tab and whether it is requested, loading, reading (the settings page
between the two queries behind it), shown, shown without an instance or failed; `session` is the cookie that
all tabs share; `instance`, `apiKey` and `progress` are the rows the pages and the middleware read,
`deleted` is history. Wizard adds the page state of the onboarding, the request of its last step with its
control point (it goes on when the tab does not wait for it; `create` looks for a row in one step and
inserts one in the next, and answers may be lost), and `choice`, what the user last decided, for the
properties. Dashboard adds what the settings page shows, its request under way, the restart, and `behind`,
the tabs whose page cannot know what the server has: it was not loaded, a request failed, or another page's
change came after it. One such change is not a settings page's: the onboarding of a tab may save a key after
that of another tab was completed (`ConfiguresUnheard`).

*Other clients* of the orchestrator may create the instance (`CreateElsewhere`), between the look-up and
the insert of the onboarding too, which then fails with another error than "already exists"; and delete it
(`DeleteInstance`), which no page asks for. A deletion leaves `completed_at` and the key: the middleware
then lets the user in, the dashboard shows that there is no agent yet, and its link to the onboarding leads
back to the dashboard, so the pages offer no way to another instance. These calls count as faults, so one
bound limits both.

The status of the row changes by itself here (`ContainerTurns`); how is InstanceLifecycle. The settings
page sets what it shows from its own request, not from the answer, which is `Shows` against `Updated`.

*Left out:* a second submission from the same tab while the first is under way; steps before the last that
are still shown after another tab completed the onboarding; a single write of `create` whose error goes
unnoticed; texts. The answer of `getConfig` and its second query are one step (`LoadConfig`): a page whose
answer is on its way is overtaken by a change just as one that shows it already. Also left out: portal and checkout routes, which ask a *browser* client for the session, have none on the server, and
answer 401.

## 3. Properties and runs

| Run | Bounds | Checks |
|---|---|---|
| `lifecycle_races` | 2 handlers in flight, 3 requests, 1 container death, 1 crash, 1 failing call | `TypeOK`, `RunningHasContainer`, `TokensNeverRevive`, `ImplementsTokenRegistry`, `DispatchHeals`, `RestartHeals`, `StaleRowIsRepaired` |
| `lifecycle_sequential` | 1 handler at a time, 5 requests, 1 death, 1 failing call, no crash | `Coherent`, `NoTokenWithoutContainer`, `DispatchUsesSelectedLlm`, `StampedContainerStops` |
| `restarted_never_idle` | 1 handler, 2 requests | `IdleContainerStops`, violated |
| `mailbox_races` | 2 messages, 3 replies, 1 fault, 1 crash | `TypeOK`, `SeqsIncrease`, `FreshUnlessBacklog`, `RecordedBeforePosted`, `NoTextPassedOver`, `WaitsEnd` |
| `mailbox_answers` | 2 messages, 2 replies | `AnswersItsMessage`, violated |
| `schedules_overlap` | run_once, recurring and blank schedules; 2 ticks, 3 due times, 1 fault, 1 crash | `TypeOK`, `NeverOvercounts`, `OncePerDue`, `NoneLost`, `DueIsRun` |
| `run_once_twice` | the same without fault and crash | `RunOnceRunsOnce`, violated |
| `proxy_budget` | 2 calls at a time, 3 calls, limit 2, 2 tokens a call, 2 config requests, 1 fault, 1 midnight | `TypeOK`, `OvershootBounded`, `FallbackNeedsRemoval`, `CallsEnd` |
| `usage_tap_chunks` | 3 events, 2 models, 2 counts, chunks of any length | `TypeOK`, `CountsWholeEvents` |
| `billing_events` | 2 users, 2 subscriptions, all statuses | `TypeOK`, `AccessIsReported`, `TakingOverNeverGrants` |
| `channels_and_socket` | 1 user, 1 workspace, 2 tabs, 1 message as two events, 2 rows, 3 presses, 1 fault, 1 redelivery, 1 crash | `TypeOK`, `OneRowUnlessDoubled`, `HandledOnce`, `SentToConnected` |
| `platform_tabs` | 2 tabs, the onboarding in one of them, 1 login, 1 settings request, 1 fault or call of another client | `TypeOK`, `PostMatchesChoices`, `CompletedHasInstance`, `ShownMatchesServer`, `NavigationRests` |

*Why the bounds suffice.* A handler reads, acts on Docker and writes; every disturbance of it found
by hand needs one other handler in between, so two in flight show the races, and three requests give
a create and two that race, or a row that is created, deleted and created again. One failing call at any
point, with requests left after it, shows what it leaves behind and whether the next handler mends it. Cron jobs are not
bounded. For every invariant and every action property the proofs of section 4 remove the bounds: any
number of handlers, calls, ticks, tabs, users, messages, events of a response and failures. The bounds
matter for liveness, and for how much of a formula TLC had tried before it was proved.

In `billing_events` a row can be taken over from one user by another and two subscriptions share one
key. In `channels_and_socket` two connects overlap, and a third press disconnects or connects again; a
second user or workspace would meet the first only in `Route`, which picks among rows of one workspace
by their order, and two rows of one user show that already. In `platform_tabs` one settings request is
enough: the state a page is in after its answer is the state a page loaded then is in, so a second one
starts where a first one can. The account may exist from the start, so the
one login is by the mailed link, by Google or by password, and the session can end in either tab at any
time. In `usage_tap_chunks` three events give an event before and one after
the one that is cut, and a count stated twice.

*Two kinds of lifecycle properties.* With overlapping handlers or a crash almost nothing about row
*and* container holds at every moment: orphan containers, dead tokens and wrong statuses are all
reachable, and the state may stay so. What the design does achieve is repair: `DispatchHeals` and
`RestartHeals` say that from *any* state earlier races, crashes and faults left behind, a dispatch or
a restart that then has the system to itself ends in a good state. A dispatch repairs less: it may
deliver to an adopted container with a dead token or a foreign instance label. Nor does a restart repair
everything if a call of its own fails: when the `stop` does, it revokes the token, finds the container
running under the name and adopts it. `RestartHeals` says what is left then (a running container that the
row names) and what an unfailing restart achieves (`Serving`). `Coherent`,
`NoTokenWithoutContainer` and `DispatchUsesSelectedLlm` are the promises of the handlers to each
other while they do not overlap. They are false of handlers that do, and a failing call can break them as
well: a failed `stop` leaves a container running behind a row that has forgotten it, a failed
`createContainer` a token nobody has, a failed look at the label a container of the old LLM. The code does
not notice. What puts things right is a handler that then starts a container without a failure of its own;
`Astray` is the time in between, and the four properties speak of the rest, that is, also of the time after
a failure has been mended. TLC checks them with one slot; the
proofs need only that no two handlers are in flight at once (`Sequential`), however many slots there are.

*The web pages.* The middleware decides by `onboarding_progress`, which the platform writes, the pages
load what the orchestrator wrote: `CompletedHasInstance` says that through failures, several tabs, creates of other clients and requests that outlive their page
the first never promises what the second has not, until a deletion takes it away. `NavigationRests`
says that the redirects of middleware, onboarding page and login page end.

*Deadlock* is checked in `billing_events` and `platform_tabs`, and not where the system rests: when no
request is left and nothing is due, when the agent is done, when the response has ended, when no press of
a button and no event is left.

### Fairness

* A handler in flight takes its next step (weak fairness): the event loop runs callbacks whose I/O
  has completed, and every Docker and database call returns or fails.
* The cron jobs and the passing of time are strongly fair. The code's cron fires unconditionally;
  in the model a job must wait for a free slot, and slots are only a bound of the model.
  `StaleRowIsRepaired` needs the monitor and the handlers alone (`MonitoredSpec`), `StampedContainerStops`
  the idle job and time as well (`FairSpec`).
* The idle timeout passes only while no handler is in flight, since it is an hour and a handler takes
  seconds.
* SessionMailbox: the next iteration of a waiter's loop, its post and the passing of its deadline are
  weakly fair (Node's timers fire, the clock advances). Nothing is assumed of the agent.
* LlmProxy: database calls return and the request timer fires. Nothing is assumed of the upstream, the
  client or the user.
* Platform: a request that passes the middleware is answered and a page loads what it shows. Nobody has
  to press a button, and no request of the last onboarding step has to come back.
* ScheduleRunner: steps of a tick are weakly fair, the cron tick strongly, for the reason above.

### Findings

1. *A restarted container never idles out* (`restarted_never_idle`). The idle job's
   `.lt('last_activity', cutoff)` never matches NULL and `restart` does not stamp `last_activity`.
   `StampedContainerStops` shows that the claim holds once it was stamped.
2. *Replies go to the wrong message* (`mailbox_answers`). `delivered` is written and never read, so
   the first reply ever written is returned for every later message as well. `FreshUnlessBacklog`
   is what remains true: with no older text row, the reply was written after the message.
3. *run_once runs twice* (`run_once_twice`) when two ticks overlap. `OncePerDue` shows that without
   overlap or crash it does not.

### Seen while modelling

Not findings: nothing in the repository says otherwise in so many words, or nothing checks it. They
are in the models as the code has them.

* "Try again" on the last onboarding step shows the spinner and sends nothing (onboarding/page.tsx:613):
  the effect that posts depends on the data, which has not changed.
* The dashboard does not render while an instance is `creating` or `error`: its table of statuses has no
  entry for them. The page fails until it is loaded again.
* The onboarding never connects Telegram: the platform sends no `botUsername`.
* When the store's payload has no `attributes.id`, all subscriptions share the row with key `''`, and a
  `subscription_created` takes it over from whoever had it. `TakingOverNeverGrants` is what remains.
* The status `unpaid`, like any the orchestrator does not know, becomes `active`.
* Two overlapping connects of one user insert two Slack rows. After that no lookup finds "the" row
  (`.single()`), and every further connect adds one.

## 4. Proofs

`InstanceLifecycleProofs` proves, for every set of slots and every bound,

| Theorem | Statement |
|---|---|
| `Inductive` | `Spec => []IInv` |
| `TypeCorrect` | `Spec => []TypeOK` |
| `RunningRowsHaveContainers` | `Spec => []RunningHasContainer` |
| `RevocationIsFinal` | `Spec => TokensNeverRevive` |
| `DispatchReachesContainer` | `Spec => DispatchHeals` |
| `RestartRepairs` | `Spec => RestartHeals` |
| `RegistryImplemented` | `Spec => ImplementsTokenRegistry` |

and, for handlers that do not overlap in a process that does not crash,

| Theorem | Statement |
|---|---|
| `SequentialInductive` | `Spec /\ []Sequential => [](IInv /\ SeqInv)` |
| `SequentialCoherent` | `Spec /\ []Sequential => []Coherent` |
| `SequentialTokens` | `Spec /\ []Sequential => []NoTokenWithoutContainer` |
| `SequentialLlm` | `Spec /\ []Sequential => DispatchUsesSelectedLlm` |

from the assumptions named in the modules: NULL markers differ from ids, the markers for a missing
row and container are not records, bounds are naturals, `Operations` are known ones, and there is a slot.

*The argument.* `TypeOK` is not inductive: `RestartRunning` writes `loc[s].ref`, which must be a
container reference by then. `LocalsKnown` says which locals are set at which control point. With it
`RunningHasContainer` is inductive: every write of status 'running' is paired with a container.
`TokensNeverRevive` needs `TokenMinted`: tokens on record are among those minted, so that the token
of `StartIssue` is new. The repair properties need `SoloInv`: while slot `s` has had the system to
itself, what it read is still true. It is stated per control point in `Undisturbed` (the reference
read still equals the row's, the container created carries the token on record, a container once
stopped does not run) and proved one action at a time. Part of it holds whatever fails; what the handler read of the LLM,
what the container it created carries and that a stopped container does not run hold only as long as no call of
its own has failed (`Unfailing`), and so does the strong half of `RestartHeals`. A step of another slot ends the
solo run (`EnterUndisturbed`), and `OwnStepEnds` and `OtherSlotStays` reduce the two action
properties to the step that ends the handler. `RegistryImplemented` needs `TokensApart`:
a token that a handler is about to give to a container is given by no other handler and in no container yet,
so what is spent stays spent. Every step is one of the register's or leaves it alone (`PlaceMoves`).

*The sequential argument.* `Coherent` speaks of moments at which no handler is in flight, and says nothing
of how one gets from the one to the next. `Held(s)` says it for each control point of a handler that is the only one,
in three layers. `Kept` holds whatever fails: the references, ids and tokens in its hands are those of the
row. `Trusted` holds while none of its own calls has failed: the LLM it read is the row's, and what it
created carries what the row says (`Matches`). `Steady` holds unless a call has failed and no handler has
started a container, without a failing call of its own, since (`Astray`): up to its first effect a running container is the one the
row names (`Intact`, `Named`); from the stop on none runs (`Down`); no token is on record without a container
(`Backed`), but between issue and create. Why a start mends everything: `StartStart` ends `Astray` only for a
handler that saw every failure before it began, and what such a handler relies on is `Kept` and `Trusted`,
which need nothing of what went wrong before. `HeldStep` shows, action by action, that a step of the handler
keeps all this, with a container that dies and a call that fails at any point. `FaultsPast` ties the
history together: nobody has seen a failure that is still to come. `OneSlotIsSequential` connects the theorems to the run: with one slot and no crash, `Sequential`
always holds.

`LlmProxyProofs` proves `OvershootBounded`, from three assumptions: finitely many calls at once, a
positive limit, a natural bound on the tokens of one call. The property speaks of what the model used,
of which the log tells only part, so it is not inductive. `BudgetInv` splits it: `LogBounded` says that
what is logged plus all the outstanding calls may add stays below the bound (the budget check is made
against the log, and with the call let through at most one call per slot is outstanding), `LogMisses`
that what was used exceeds the log by at most one call per call lost. `FallbackNeedsRemoval` is an
action property of the calls and an ordering property of `updateConfig`: the key is saved before
`active_llm` is written, so as long as nothing was removed and nothing failed, whoever has read, written or is about to
write 'anthropic_byok' finds a key (`KeyIsThere`).

`SessionMailboxProofs` proves `TypeOK`, `SeqsIncrease`, `RecordedBeforePosted`, `NoTextPassedOver` and
`FreshUnlessBacklog` for any messages, failures and crashes. `MailboxInv` judges every waiter on its own
(`Good`): what it holds is a recorded row with a text, and what it has seen has none. All a waiter
needs of the others is that `outbox` and the recorded rows only grow. That `waitForReply` finds the
*oldest* row is the least-element principle of the library (`OldestIsOne`).

`ScheduleRunnerProofs` proves `TypeOK`, `NeverOvercounts`, `NoneLost` and `OncePerDue` for any schedules
and ticks. What a tick writes at its end it selected long before: `LogInv` bounds every value a tick may
still write by what has been logged. `Exclusive` holds as long as no two ticks overlapped: what the one
tick has yet to run was not dispatched since it fell due.

`BillingProofs` proves `TypeOK` (no user has two rows, no order two payments), `AccessIsReported` and
`TakingOverNeverGrants` for any users and subscriptions, from two assumptions: the key `''` is no
identifier, and the marker for a missing row is no row. `Named` is the strengthening: every row
belongs to the buyer of a subscription with its key, and an active one has a subscription with its key that
was reported active (`Activates`).

`ChannelsProofs` proves `HandledOnce` for any tabs, messages, redeliveries and crashes, by an account per
message that every step keeps (`Balanced`): dispatches done plus those under way are at most the times the
message was forgotten plus one if it is remembered. It also proves `OneRowUnlessDoubled` for any users,
tabs and faults: for every user without an overlap or a failed lookup, a connect about to write knows all
the user's rows (`Knows`) and is the only one about to write (`Alone`). `TypeOK` says in particular that
`order` lists every row ever inserted exactly once; updates and inserts permute and extend it. For
`SentToConnected` the invariant `RouteInv` compares the table with the history: whoever is connected with a team
now is counted for every message to it that was sent. `Route` takes the first row in `order` that
matches; that there is one, and whose it is (`RouteIsActive`), is the least-element principle again.

`PlatformProofs` proves `CompletedHasInstance` for any tabs, logins and failures: the request of the last
onboarding step gets past its creation only with an instance, or with one that was deleted since
(`PastCreation`, `Owned`), and no page, restart, change of the configuration or create of another client
takes one away. `PostMatchesChoices` needs to know how the data of the wizard
follow the choices at every step before the last, whatever way the user went back and forth
(`ChoicesKept`). `ShownMatchesServer` speaks of pages at rest; `ServerShown` also says what a page will
show once the answer under way arrives, and what one still loading has read (`Agrees`), which is why a page that left its request behind must
count as `behind`.

`UsageTapProofs` proves `TypeOK` and `CountsWholeEvents` for responses of any length, cut anywhere. `TapInv`
says that what is in the buffer and what is on the wire are stretches of the stream (`Holds`), that the
buffer begins where an event does, and that the counters are what the events before it say (`CountedTo`).
A chunk joins two stretches (`HoldsBoth`); in a stretch that begins an event the separators are at every
sixth place (`EndsOf`), each event is cut out as it was sent (`EventOf`), and the tally after its k-th
event is what the first `Whole + k` events say (`TallyOf`). The provers cannot use the library's induction
over numbers, so the two inductions are by least counterexample (`LeastExists`, from the well-foundedness
of `<` on the naturals): `TallyExists`, that the recursion of `Tally` has a solution, and `TallyOf`. The
assumptions: numbers of tokens are positive naturals, and the marker for a missing field is no number, no
model and no payload.

*Only model-checked:* the six liveness properties: the prover has no rule for fairness.

## 5. Done, left and not modelled

Done: everything in the table of section 2. What could follow: several dispatches of one Slack user end
to end, from the socket through the container to the reply.

*Not modelled:*

* Configuration, encryption of keys and tokens, the guard that compares the internal secret, signatures:
  library calls without state.
* `infra/ollama`: an experiment that the product does not run. The landing, privacy and terms pages,
  which only render.
* Workspace files, CLAUDE.md, `instance_events`, usage summaries: texts that nothing reads back.
* The expiry of a token after a day: nothing checks the age of a container, so a property would only
  restate it.
* That calls with the user's own key count towards the free budget: visible in LlmProxy, and nothing
  says which is meant.
* The decoding of a character cut apart between two chunks in the usage tap: the events that count carry
  no text.
* The agent (`packages/engine` is an empty submodule): it is the environment of SessionMailbox.

## 6. Running

    tlc -workers 2 -config LifecycleRaces.cfg MCInstanceLifecycle.tla
    tlc -workers 2 -config LifecycleSequential.cfg MCInstanceLifecycle.tla
    tlc -workers 2 -config MailboxRaces.cfg SessionMailbox.tla
    tlc -workers 2 -config SchedulesOverlap.cfg ScheduleRunner.tla
    tlc -workers 2 -config ProxyBudget.cfg LlmProxy.tla
    tlc -workers 2 -config UsageTapChunks.cfg UsageTap.tla
    tlc -workers 2 -config BillingEvents.cfg MCBilling.tla
    tlc -workers 2 -config ChannelsAndSocket.cfg MCChannels.tla
    tlc -workers 2 -config PlatformTabs.cfg Platform.tla
    for m in InstanceLifecycle LlmProxy SessionMailbox ScheduleRunner UsageTap Billing Channels Platform; do
        tlapm ${m}Proofs.tla
    done

`PROJECT.json` lists every run with its module and configuration, the mutant of the code each
property detects, and the source lines of each definition.

# Verification of the MemoFlow API

TLA+ models of the parts of `src/` whose correctness depends on the order in which
things happen: planning jobs and the sources they show the model, connector
connections, accounts and live sockets, documents with their versions, templates and
rewards, AI calls under their daily caps, suggestions, prompts, leads, and the start of
the process under its environment. TLC checks them on small
instances; TLAPS proves every safety property that holds for every value of the
constants (section 5): those of planning jobs, the contract they implement and the
sources they show, of connectors, the workspace, accounts, AI calls, suggestions, prompts
and leads. All source paths below are relative to `src/src/`.

## 1. Inventory

The API is one Node.js process (NestJS). Every handler runs until it awaits
PostgreSQL (TypeORM), MongoDB (Mongoose), Redis (BullMQ, limiter, quota, cache),
RabbitMQ, Composio or OpenRouter; at an await any other handler may run. Two workers
of the queues, HTTP requests, WebSocket handshakes, event listeners and the RabbitMQ
consumer all interleave this way. State that matters lives outside the process and
survives a restart.

| Component | State | Operations | Hard because | Correct when |
|---|---|---|---|---|
| **Planning jobs** `application/context`, `infrastructure/amqp`, `infrastructure/queue/context`, `persistence/context` | document in `planning_jobs`; BullMQ planning job and gather-timeout job; `ctx.gather.results` | submit, deliver, publish, consume a chunk, time out, plan, announce | BullMQ stalls and retries, duplicate and requeued messages, prefetch, lost confirms, crashes between two writes | one gather request and one provider call per job; chunks stored once and in order; nothing done for an account inactive since the phase began; a job ends unless a fault leaves nobody at work on it |
| **Connectors** `application/connectors`, `infrastructure/connectors` | row in `connector_connections`; connected accounts at Composio | connect, revoke, read with reconcile, webhook | a handler decides on a row it read before a call to Composio; stale and repeated webhooks; best-effort deletes | terminal stays terminal, revoked gives no access, active was authorised and nothing is left behind, but for what an overlapping handler undoes; a missed webhook heals |
| **Accounts** `application/auth`, `application/users`, `persistence/users`, `persistence/auth`, `infrastructure/auth` | row in `users` (password, `token_version`, `disabled_at`), rows in `auth_tokens`, Redis login counter, signed JWTs, mailbox | register, login, change, reset, verify, forgot, resend, logout, disable, enable | two registrations of one address; bcrypt between read and write; single-use tokens; row locks; a limiter that fails open | a session matches the password it was obtained with; a token is honoured once, never outdated, never while disabled; a lockout ends |
| **Planning WebSocket gateway** `presentation/context/planning.gateway.ts` | sockets, rooms, expiry timers | handshake, evict, expire, subscribe | eviction races the handshake | no socket outlives its session or its token |
| **Documents, sections** `application/documents`, `persistence/documents` | documents and ordered sections (PostgreSQL) | create, update, delete, add, edit, remove, reorder | order computed from a read; submitted ids checked against an earlier read | no section without its document; a reorder takes effect as a whole; deleted stays deleted |
| **Document versions** `application/document-versions`, `persistence/document-versions` | immutable snapshots (MongoDB), numbered per document | save, list, restore | two databases; a number taken twice; restore replaces all sections | numbers have no gap and no repetition; one race does not fail a save; a restore yields what was saved |
| **Templates** `application/templates`, `persistence/templates` | templates with ordered sections, published or not | create, edit, publish, delete, apply | applied while edited or published | applications do not overlap; an author never edits what is published |
| **AI quota and OpenRouter** `infrastructure/ai` | Redis counters per user, for all, and per day | check, reserve, call, retry, repair | every attempt reserves again; Redis may run a script and not answer; the day ends in between | no cap is exceeded; every call ends |
| **AI suggestions, cache, consent** `application/ai`, `persistence/ai`, `application/users` | suggestion rows, Redis answers, the notice version consented to | generate, cache, accept, reject, consent, withdraw | text, titles and cached answer are read at different times; two reviews of one suggestion | a suggestion was written for what its row says; one review wins |
| **Prompts** `persistence/ai/prompt.typeorm.repository.ts` | prompt versions per type, one active; cache per process | create, activate, look up | activation races another and a cache fill | one active prompt; a cache entry is at most its lifetime behind; what is created renders |
| **Planning sources** `application/context`, `persistence/documents/section-retriever.typeorm.ts` | candidates, budget and sources of a job | bind, retrieve, order, admit | two queries while the owner edits; the edges of the budget | what is shown fits, is the owner's and is shown once |
| **Gamification** `application/gamification`, `persistence/gamification` | experience, milestones, mission progress | handle an event | repeated and simultaneous events; separate transactions; documents deleted in between | a reward is granted once, and the level follows |
| **Leads** `application/leads`, `persistence/leads` | answers, signals, stored score | submit, consent, signal, recalculate, list | two recalculations store in the other order; pages, ties and limits | the score catches up with the facts; lists and statistics agree |
| **Configuration and start** `config`, `*.module.ts`, `main.ts` | the environment; the adapters of the process | validate, choose adapters, start or refuse | every factory reads the configuration for itself; empty values are converted | an accepted environment gives a whole process |
| **Audit log** `presentation/audit`, `application/audit` | append-only rows; events not yet stored | emit, record, lose | fire and forget | no row tells of a decision that was not made |
| **E-mail** | none | send | - | - |
| **REST controllers, DTOs, health, migrations** | none | validate, map, wire | - | - |

How they interact. A planning job is created by a request, run by a BullMQ worker,
fed by the result consumer, ended by one of them or by the timeout, and announced to
the owner's sockets; its phases re-read the account (disabled, AI consent) and the
owner's active connectors. Accounts emit `USER_DISABLED` and
`USER_SESSIONS_REVOKED` synchronously, and the gateway's listeners evict the sockets
of the user's room before the emitting step ends. Documents, planning and leads emit
events that gamification and the audit log listen to. Prompts, quota and cache sit
below both planning and suggestions.

## 2. What is modelled, and how it corresponds to the code

`PROJECT.json` names, for each definition, the lines it translates. The conventions
are the same everywhere: a handler's local variables are a record (or a program
counter); one action runs from one await to the next; a repository method that is
one database command or one transaction is one operator on a row; a failing call,
a stall or a crash spends one of `MaxFaults`. Definitions named `Bug_X` are
variants of `X` with a plausible mistake. They are no part of a specification: they
record which property notices the mistake.

### Planning jobs

- `PlanningJobStore` - the document and the methods of `PlanningJobMongooseRepository`.
  A compare-and-set is a condition (`CanClaimPending`, `StillGathering`, `CanAppend`)
  and the document it leaves; `UpdateStatus` is unconditional, as in the code, and
  error codes are left out.
- `PlanningTransport` - everything that touches one job, on either path:
  `SubmitCreate`, `SubmitEnqueue`, `SubmitMarkFailed` (the request);
  `Deliver`, `ClaimLegacy`, `LookupPrompt`, `Claim`, `CheckUser`, `Resolve`,
  `ClaimPlan`, `Publish`, `ScheduleTimeout`, `WriteFailure`, `Tell`, `Throw`,
  `Stall` (a delivery of the BullMQ job); `PlanCheck`, `Retrieve`, `PlanRecheck`,
  `PlanCall`, `PlanWrite` (`runClaimedPlanning`, shared by deliveries, the consumer and
  `executeLegacy`); `Receive`, `Find`, `AppendChunk`, `Finalize`, `Relay`, `Requeue`
  (the consumer, `chain` being its `jobChains` entry; a chunk that names another user is
  a `foreign` one, and is rejected); `Timeout`, `TimeoutTell`, `TimeoutError` (the
  delayed job). The account goes and comes back by `Deactivate` and `Reactivate`
  (disabled, deleted, consent withdrawn; enabled, consent given again). External:
  `EngineSend`, `Redeliver`, `Crash`. Two history variables are for the properties only:
  `lapsed`, the phases since whose beginning the account was never active, and `unsure`,
  set when a call that took effect is reported as failed.
- `JobLifecycle` - what a job promises whoever drives it: the allowed statuses in
  order, one request while gathering, one call in planning, completion only after
  the call, an ended job unchanged, events only of the status the job ended in. The code
  keeps less in two places, and the module names both: `FailAttempt` is the failure
  announced before a retry, and once `unsure` the job may have been recorded as failed
  while it goes on. `PlanningTransport` instantiates it with `status <- job.status`,
  `context <- job.ctx` and `told <- announced`.
- `PlanningSources` - what the plan of a job is made from: `Submit` binds the job to a
  document and a section, `SearchBound` and `SearchOther` are the two queries of the
  retriever (`RetrievalFails` when one throws), between which `Edit` may change or
  delete a section; `Prepare` collects the candidates with content, as positions in
  `Candidates`; `Admit` takes the next in the order `Before` and admits it into the
  budget of characters or drops it. A text is the length it has once redacted; which
  sections match is left open, and so are the lengths of headers and where a text is cut.

### Connectors

- `Connectors` - one user and provider: `ConnectRead`, `Link`, `Upsert`,
  `RevokeReplaced`; `ReadRow`, `Lookup`, `WriteStatus`, `Reread` (read, also the
  first half of a revoke); `Webhook`; `CheckRevoked`, `Delete`, `MarkRevoked`;
  external `ComposioMoves`, `Crash`. `events` holds every webhook ever sent, and each
  may arrive at any time and again, or never. Handlers overlap in any way: a handler
  writes the row by its id (`Write`), whatever it has read. Two history variables are for
  the properties only: `raced`, the accounts the row named when a handler wrote what it
  had decided on another one, and `overtaken`, the handlers under way when another one
  wrote a terminal status.

### Accounts and sockets

- `AccountStore` - the account's row and token rows, and the methods of
  `UserTypeOrmRepository` and `AuthTokenTypeOrmRepository` on them. A password
  stands for its hash.
- `Accounts` - the requests. `lock` is the row lock of `lockOwnerAndConsume`
  (`SELECT ... FOR UPDATE`): statements on the row, and inserts of tokens that refer
  to it, wait for it. `Register`, `CreateUser` (register: the unique index decides a race);
  `RegisterAttempt`, `FindByEmail`, `ClearCounter`, `Sign` (login); `Authenticate`,
  `WriteNewPassword`, `Sign` (change); `Logout`, `Emit`; `BeginWithToken`, `LockOwner`,
  `Consume` (reset, verify); `ForgotPassword`, `ResendVerification`, then the listener:
  `FindOwner`, `IssueToken`, `Mail`, whose errors are `Swallowed`; `FindUser`,
  `WriteDisabled`. Initially the address has an account and a session, or neither. The
  gateway: `Connect`, `Join`,
  `ReadAccount`, `Ready`, `ExpiryTimer`, `Subscribe`; `Evict` is part of every step
  that emits a revocation. External: `WindowEnds`, `JwtExpires`, `TokenExpires`,
  `IntervalPasses`, `QueryFails`, `Crash`.

### Documents, versions, templates and rewards

- `DocumentStore` - the rows of one document's sections and what a statement does to
  them. A section's content is `brief` or `long` (under `SECTION_GOAL_WORD_COUNT`, or
  not); rows are numbered as they are inserted. A listing is sorted by order and, where
  orders are equal, by `created_at`, which the rows of one transaction share: `Ages` is
  every way the tied rows may come in, and a snapshot is taken with any of them.
- `Documents` - the owner's requests, one record of locals each. `Begin` reads the
  document, and the section or version that is named; then `ReadMaxOrder`,
  `InsertSection` (create); `WriteSection`, `RereadSection` (update); `RemoveSection`;
  `ListSections`, `MoveRow`, `CommitReorder` (reorder); `SelectForSave`,
  `SaveDocument`, `ReinsertDocument` (update of the document, by TypeORM's
  `save`); `LockDocument`, `ClearRow`, then `DeleteDocument` or `ReplaceSections`
  (delete, restore); `TakeSnapshot`, `ReadMaxVersion`, `InsertVersion` (save).
  PostgreSQL is what its statements do under READ COMMITTED: `docLock` is the
  document row locked for update, with which the foreign key check of an insert
  conflicts; `rowLocks` are the sections a transaction has written, which other
  writers wait for; `DeadlockVictim` ends a cycle of waits with an error. What a
  transaction wrote is seen when it commits, so its writes are in its last action.
- `Templates` - one template and its row lock: `CreateTemplate`, `LockTemplate`,
  `SaveTemplate`, `RemoveTemplate`, and an application: `ReadTemplateSections`,
  `LockDocument`, `ApplyToDocument`. Sections are replaced as a whole, so their
  number stands for them. The author is no admin, and the owner of the document is
  neither; the two document types are equal, as others end the request early.
- `Rewards` - `GamificationListener`: each event emitted is handled in two
  transactions, `ApplyMilestoneRules` and `ApplyMissionProgress`, in any order with
  those of other events. The unique index on milestones serialises two awards of one
  kind, the guarded `UPDATE` two increments, so each is one action.
- `Workspace` - the three together, with `Delete`: deleting the document removes its
  milestones (and keeps their experience) in the same cascade.

`lastOrder`, `retired`, `placed`, `by`, `seen` and `revived` (a deleted document has come
back, by `ReinsertDocument`) are recorded for the properties only.

### AI calls, suggestions, prompts

- `Environment` - the raw variables as a record, their conversion and validation
  (`Accepted`), and what the modules' factories choose by them (`Wired`). A variable
  that is absent is `Unset`, an empty one `Blank`: they are converted differently. Strings
  that only hold a secret, a host or a name are present or not; a string of blanks is not
  told from an empty one, and Sentry's own variables are left out.
- `AiQuota` - a day's counters and the script in its two modes, `Spent` and `Reserve`.
- `AiGateway` - the process and its provider calls: `Boot`; `Generate`,
  `SubmitPlanning`, `SubmitFails`, `Plan` (who calls, or is refused); `Hook`, `Eval`, `EvalFails`,
  `EvalResent` (the reservation before every attempt); `Fetch`, `Retry`, `Repair`,
  `GiveUp`, `Reply`; external `Midnight` and `Expire`. Where the code asks whether time
  is left both answers are possible.
- `AuditLog` - an event is emitted, stored later and once, or lost with its process.
- `AiSuggestions`, which extends it - `Ask`, `LookUpPrompt`, `ReadContext`, `CacheHit`, `CacheMiss`,
  `Generated`, `NotGenerated`, `Insert` (a request); `BeginReview`, `CheckReview`,
  `Mark` (a review); `AcceptAiConsent`, `WithdrawAiConsent`; `Change` (edits and
  deletions), `Evict` (the cache), `Listen` (the audit listener). A generated text is
  known by what the model was shown.
- `Prompts` - `Create` with the check of the templates; an activation as a READ
  COMMITTED transaction, `Activate`, `Deactivate`, `MakeActive` or `Conflict`, `Commit`
  or `RollBack`, `ClearActiveCache`; a lookup on an instance, `Look`, `Read`, `Fill`.

### Leads

- `Leads` - `Submit`, `Upsert`, `UpdateConsent`, `RecordLeadSignal`,
  `ConnectorChanges` change a fact about a user; each is followed by a recalculation,
  `Start`, `Read`, `Save` (or `Fail`), which stores its score unless a later one
  has. The list, the detail and the statistics are operators on the state: `Ordered` is
  the query's `ORDER BY`, whose order is `Ahead`, and `ListLeads` a page of it.

The `MC` modules add the symmetry sets and the values of constants that are functions or
records. Symmetry is only used in runs without liveness properties.

## 3. Runs

| Run | Configuration | What it shows |
|---|---|---|
| `transport_faults` | `PlanningTransport_faults.cfg`, 2.8 M states | Chunks are stored once and a plan gets all of them (`ChunkStoredOnce`, `ContextComplete`), and nothing is done for an account that was not active at any moment since the phase began, while it is disabled and enabled at will (`InactiveNotServed`), under two failures, stalls or crashes and a duplicate; `TypeOK` |
| `transport_live` | `PlanningTransport_live.cfg`, 0.7 M states | One call and one request also when replies are lost (`PlannedOnce`, `RequestedOnce`), by the inductive `ClaimsInv`; both paths implement `JobLifecycle` (`LifecycleSpec`); an accepted job ends, unless a fault leaves nobody at work on it (`AcceptedJobEnds`); a scheduled timeout ends the gathering (`TimeoutEndsGathering`) |
| `planning_sources` | `PlanningSources.cfg`, 0.4 M states | What is shown fits the budget (`BudgetHolds`), and is the owner's, once and in order (`SourcesDistinct`), whatever is edited between the queries |
| `connectors` | `Connectors.cfg`, 1.1 M states | Two handlers that overlap in any way: only an overtaken one revives a connection (`NeverRevives`); revoked gives no access and active was authorised, unless the account was raced (`RowMatchesAccount`); only expired and raced accounts are left behind (`OrphansHadExpired`); `MissedWebhookHeals` |
| `accounts_safety` | `Accounts_safety.cfg`, 0.8 M states | An accepted session was obtained with the stored password, also when registrations race (`SessionsMatchPassword`); `SocketsCurrent`, `TokenHonouredOnce`, `LockoutBounded` |
| `accounts_live` | `Accounts_live.cfg`, 98 k states | `RevokedSocketDropped`, `SocketEndsWithToken` |
| `documents_safety` | `Workspace_safety.cfg`, 1.0 M states | `NoOrphanSections`, `ReorderTakesEffect`, `RestoredExactly`, `VersionsNumbered` (with one race a save does not fail), `AppliesDoNotClash`, `PublishedNotEdited`, `XpMatchesAwards` |
| `document_resurrected` | `Workspace_resurrected.cfg` | refutes `DeletedStaysDeleted`, see 4 |
| `ai_gateway` | `AiGateway.cfg`, 0.3 M states | Of 224 environments the sound ones start, and give a whole process (`ProcessIsWhole`); the configured caps bound what is sent (`CapsHold`); every call ends (`EveryCallEnds`) |
| `ai_suggestions` | `AiSuggestions.cfg`, 2.9 M states | `StoredForItsInput`; one review decides, and the audit log tells of no other (`DecisionStands`) |
| `prompts` | `Prompts.cfg`, 1.6 M states | `ExactlyOneActive`, `ActivationVisible`, `CreatedPromptsRender` |
| `leads` | `Leads.cfg`, 92 k states | `ScoreCatchesUp`, `PagesCoverLeads` |

**Bounds, and why they are enough.**

- *Transport.* Two deliveries: a stalled one and the one that replaces it, or a
  first attempt and its retry; the claims compare one document, so a third delivery
  meets what the second met. Two chunks are the least with an order (a data chunk
  and the terminal chunk it must precede), one duplicate is the least repetition,
  `Prefetch = 2` the least window in which order can be lost. Two faults allow a
  failure and a failure of its handling, or a requeue and a crash. `TimerAttempts`
  is 1 where its exhaustion matters and 2 where the retry does. The account goes and
  comes back without a bound. The proofs of
  section 5 remove all of these bounds from the safety properties and from the
  refinement.
- *Connectors.* Two handlers: one that decides on a row and one that changes it in
  between; two accounts, one and the one that replaces it; one failed call or crash;
  `MaxMoves = 2`, the least with which an account is authorised and then expires or fails,
  and a webhook of the first move can arrive after that of the second. Webhooks come from a
  set that only grows, so they are late, repeated and out of order without a bound. The
  proofs remove all of these bounds from the safety properties.
- *Accounts.* Three requests: one to mail a token and two that race for it, or a
  login, a change and a disable. Two passwords, an old and a new one; one token of
  each kind, as the properties are about one token at a time; one socket, as sockets
  do not see each other; `MaxAttempts = 1`, so that the second attempt is refused
  and audited and the third is refused silently.

  Three requests are also what a registration race needs: two that found the address
  free, and the login that uses the winner's account.
- *Planning sources.* Two sections in one document of the owner, one in another and one
  of somebody else, so that each query has rows to return and rows to leave; texts that
  fit, that are cut and that redaction empties; a budget of 14 characters with headers of
  2 or 3 and excerpts of 2 to 4, so that the last candidate meets every edge;
  one edit, as only the two queries can disagree.
- *AI gateway.* Two requests of two users against a user cap of 2 and a global cap of 3
  can spend either; one midnight and one Redis failure are the least that can separate a
  reservation from its day or its answer. The environments are those of `.env.example`
  and of a production server with one variable changed, and three with a provider.
- *AI suggestions.* Two users, a section each, two texts, two secrets and two titles: the
  least in which an answer could come from another user, prompt, text or title. Two
  reviews race; one edit or change of consent falls anywhere.
- *Prompts.* Two activations on two instances, which may be of one type; one lookup at a
  time, begun at any step of theirs; a lifetime of one tick of two. Two templates that must
  be refused: a system template that holds content, and a user template without its subject.
- *Leads.* Two leads and an administrator, two operations that overlap. Pages of one and
  of two, three of them, so that there is a last full page, an empty one and a page past
  either end; every filter of one criterion.
- *Workspace.* Three requests of any kind: two that race and one that deletes,
  restores or publishes between their steps; three saves are what it takes to lose a
  retry. Three sections at the start are the least for which two reorders can mix, and
  there is also a start without the document. What needs a fourth
  request is out of reach of this run, and once mattered: a late update brings a deleted
  document back, and an application or a restore that had found no row to lock goes
  on beside another. Four requests of the right kinds refute `AppliesDoNotClash` and
  `RestoredExactly` if nothing is said of this, so both are stated for a document that
  never came back (`~revived`). The theorems of section 5 have no bound on requests.

All runs but those of `Workspace` set `CHECK_DEADLOCK FALSE`: these models
handle a bounded number of requests, deliveries, calls or ticks and then really stop.
`Workspace` checks for deadlock: when all is answered and handled it stutters
(`Rest`), so a stop anywhere else, as in a cycle of waits that nobody ends, is an
error.

**Fairness.** Weak fairness on "the next step of a callback that began": Node.js
resumes a callback when its await ends, every client used here has a timeout, and a
wait for a row lock ends when the holder commits. Weak fairness on the delayed
gather-timeout job and on an armed socket timer: BullMQ and the event loop run what
is due. In `AiGateway` weak fairness on the next step of a call: Redis and the provider
answer or time out, and the worker takes up what was queued. Strong fairness in
`Connectors` on one thing the code does not do itself:
the owner keeps opening the connections page (`ReadRow`), which is the condition
under which `reconcile` promises to heal. Nothing external is fair: nobody must
submit, the context engine owes no answer, webhooks and mails may never come, no
account is ever disabled or enabled by necessity.

## 4. Where the code and its documentation disagree

The last of these is refuted by a run; the first five were met while modelling and are
traces of the same models, with the property that holds instead named: it allows what
the code does, in so many words, and nothing else.

1. *A job can stay in `gathering` for good*. `README.md:182`
   of the repository says a job stuck in `gathering` fails with
   `CONTEXT_ENGINE_TIMEOUT`. The timeout is scheduled last
   (`process-planning-job.use-case.ts:325`), after the claim, three lookups and the
   publish; a crash or an exception before that leaves no timeout, and the BullMQ
   retry fails `claimForGathering` and does nothing. `TimeoutEndsGathering` is what
   does hold: once scheduled, the timeout ends the gathering. So does `AcceptedJobEnds`:
   a job that does not end has met a fault, and nobody is at work on it any more
   (`Stranded`); a crash in the middle of planning leaves one in `planning` in the same
   way, and a failed prompt lookup of the legacy path one in `running`.
2. *A failed job can become completed*. A publish whose confirm
   is late ends in an unconditional `updateStatus(failed)` although the engine got
   the request; its chunks have claimed the job, and the plan writes `completed`
   over `failed`. The comment at `handle-context-result-chunk.use-case.ts:112`
   excludes that. `JobLifecycle` allows it only once `unsure`.
3. *Two terminal events*. A delivery that throws announces
   `planning.failed` (`planning.processor.ts:104`) before BullMQ retries it, and the
   retry, or the consumer, may then complete the job. `README.md:210` of the repository
   promises one terminal event per outcome. In the contract that event is `FailAttempt`;
   every other event is of the status the job has ended in (`LifecycleSpec`).
4. *A revoked connection can come back*, and a row can be wrong about its account, with
   two handlers at once. `applyStatus` looks at the row its caller read; the write finds
   the row by its id. `README.md:147` says terminal states never revive from a stale
   webhook. `NeverRevives` is what holds: it takes a handler that was under way when
   another one settled the row (`overtaken`); and by `RowMatchesAccount` the row is wrong
   only about an account it named when a handler wrote for another one (`raced`).
5. *An account is left at Composio*. `EXPIRED` is mapped to `revoked`, and a reconnect
   takes a revoked row's account for one already deleted; and of two connects at once both
   revoke the account both have read, and neither that of the other. The comment at
   `initiate-connection.use-case.ts:27` says no orphan is left; `OrphansHadExpired` says
   that only these two kinds are, when every call succeeded.
6. *A deleted document can come back* (`DeletedStaysDeleted`).
   `DocumentTypeOrmRepository.update` preloads the entity and saves it. `save` looks
   for the row once more and inserts the entity when a `DELETE` has committed in
   between: `PATCH` answers 200 and the document exists again, without sections or
   milestones. The repository's `README.md:75` and the comment at
   `get-document.use-case.ts:12` promise a 404 for what was deleted.

One comment is more pessimistic than the database. `section.typeorm.repository.ts:107`
says a plain create can commit in the middle of a restore and survive its `DELETE`.
The foreign key check of that insert takes a share lock that conflicts with
`FOR UPDATE` (`1783300000000-CreateDocumentsAndSections.ts:36` makes sections refer to
documents by a foreign key), so it waits for the restore or the restore for it; an insert
that committed first is seen by the `DELETE`, and `RestoredExactly` holds. What the
comment is right about is the order: the section is then inserted after the restored
ones, with an order computed before.

## 5. Proofs

Each proof module extends the module it is about. None of the properties is inductive
alone; the invariant that is says what every handler holds between two awaits, and the
proof has one lemma per action (or group of them), which shows what the action disturbs.
Every constant is arbitrary but for the assumptions named here, which TLC evaluates in
the runs. "Sets" below may be infinite unless the assumption says otherwise.

**Planning jobs** (`Planning_proofs`), for any deliveries, chunks, duplicates,
faults, timer attempts, any prefetch window and any set of lost replies.
`RunnersAssumption`: the consumer is not a delivery. `BoundsAssumption`: the bounds are
numbers, the prefetch and the attempts positive.

- The first lemmas state for each repository operation what it leaves of any document:
  the field it sets, and that all others stay.
- `TypeCorrect`: `Spec => []TypeOK`. `TypeInv` adds that `chain` is not empty when the
  consumer takes its head, and that a runnable timeout has an attempt left.
- `ClaimsHold`, and from it `PlannedOnceHolds` and `RequestedOnceHolds`. `calls <= 1` says
  nothing about why a second runner never gets to the provider. `ClaimsInv` is:
  - `Unsubmitted`: before the request handler runs there is no job to deliver;
  - `OneAsks`: while the job can be claimed for gathering nobody is between that
    claim and the publish; at most one delivery is; while it is, no request is out;
  - `OnePlans`: while the job can be claimed for planning nobody is in the planning
    phase; at most one runner is; until it calls, no call was made.
  Every unconditional `updateStatus` writes a terminal status, so no action leads a
  job back to where a claim succeeds (`AsksKept`, `PlansKept`). This holds with lost
  replies as well.
- `InactiveAccountsNotServed`, by `ServedInv`: who is past the check of a phase is there
  because the account was active after that phase began, and neither a deactivation nor
  a later phase takes that back; while the account is active nothing has lapsed.
- `ChunksStoredOnce` and `ContextsAreComplete`, by `ContextInv`. `StoredInv`: the array of
  data is what the numbers say, each once. `LineInv` is the argument about order: every
  chunk that is still awaited is in `chain \o queue`, and it stands there before every
  message with a later number, repetitions and requeues included. `HandledInv`: so when the
  terminal chunk is at work, all that was sent before it and not given back is stored.
- `LifecycleKept`: `Spec => LifecycleSpec`, step by step, lost replies included.
  `LifeInv` says who is alone with the job (`SubmitterAlone`, `GathererAlone`,
  `PlannerAlone`) and that what is told is stored (`TellersRight`), each until the job
  is `unsure`; from then on that it is where work may still be under way or has ended.

**Planning sources** (`Planning_proofs`), for any sections, documents and owners, any
texts, headers and connector contexts, any limits and edits. `SourcesAssumption`: the
limits are positive and an excerpt's least length no more than its greatest, there are
finitely many sections, and texts are lengths. `SourcesInv`, which TLC checked first, says:

- `BindingInv`, `RowsInv`: a bound section brings its document, so the two queries agree
  on the bound document although the section may go between them; hence no row of the
  one is a row of the other, and the bound section can only be the first row.
- `CountInv`: every candidate with text is waiting, shown or counted as dropped.
- `RenderedInv`: what is rendered and what is left are together the budget. The separator
  that `Budget` subtracts is the one `RenderedLength` adds, also for the first block.
- `PendingInv`: what waits is not ahead of what was admitted, shows no section again, and
  the bound section waits only while nothing was admitted.

From it `BudgetAlwaysHolds` and `SourcesAreDistinct`. The sum of the blocks is a
recursive function on `0 .. n`. That a function which satisfies such a recurrence exists is
shown once (`UpTo`, by induction over a set of numbers; `Iteration`), and `RenderedAppend`
follows from the recurrence; the induction is over a set, so no theorem with an operator as
parameter is needed.

**Workspace** (`Workspace_proofs`), for any requests, sections, versions, template sizes
and missions. `DocumentsAssumption` (`Nobody` is no request), `MaxSizeAssumption`,
`MissionAssumption`. All that the run checks is proved:

- `Orphans`, by `OrphanInv`: whoever holds the document row is in a transaction that
  locked it (`Holder`), and while that is a deletion every section is one it still has
  to come to or has locked (`Covered`), as whoever would add one waits.
- `WorkspaceTyped`, by `TypeInv`: the locks of a transaction are on rows of its
  statement, and a maximum that was read is at least the least there is.
- `AuthorsNeverEditPublished`, by `EditInv`: who is about to save a template holds its row.
- `VersionsAlwaysNumbered`, by `VersionsInv`: a save whose number was taken has missed a
  version, so a second failure needs two.
- `AwardsPaidOnce`, by `RewardInv`.
- `ReordersTakeEffect`, by `ReorderInv`: rows a reorder has come to are locked by it, and
  those the last one placed are where it put them.
- `AppliesKeptApart` and `RestoresExact`, by `GrantInv` (who should hold the document row
  and does not found none), `AppliedInv` (the maximum an application read is still the
  maximum), `SortedInv` and `ClearInv` (a restore has come to every section or still
  will). Rows of equal order may be listed in any order, when the version is taken and when
  it is read back, so what a restore yields is a listing of the new rows for some `Ages`:
  the one that ranks them as the version does. The attempt to prove these two without
  `~revived` failed at `GrantInv`, and the failing step was the trace of four requests
  that section 3 describes.

**Accounts** (`Accounts_proofs`), for any requests, sockets, passwords, tokens, attempts
and failures. `AccountsAssumption`, `TokensAssumption` (no token is of both kinds).
`AccountsInv` says what a request carries: the version it read is no newer than the
account's, and if it is the account's then so is the password; who is consuming a token
holds the row, and a locked row is not disabled; a token that can be consumed is of the
current epoch; a socket past its check is accepted or about to be evicted. From it
`SessionsNeverOutlivePassword`, `RevocationMissesNoSocket`, `ResetLinksWorkOnce` and
`LockoutsAreBounded`.

**AI calls** (`AiGateway_proofs`). `GatewayAssumption` (finitely many requests; numeric
variables are numbers or blank), `EnvironmentAssumption` (`Unset` is no number).
`CapsAreNeverExceeded`: a counter is dropped after its day, so it alone bounds nothing.
`CapInv` counts the attempts sent and those that hold a unit, against the caps always and
against the counter while a script may still charge that day. `EveryProcessIsWhole`: a
running process is wired by an environment that was accepted, whichever it is.

**Suggestions** (`AiSuggestions_proofs`). `SuggestionAssumption` and `TextAssumption`
(`Nothing` is no text). `SuggestionsFitTheirRows`: a text in the cache is found only
under the key of what it was written for, and a request's input does not change once
read. `OneReviewDecides`: a row leaves `pending` at most once, and what is told, in an
event or the log, is of a review that was answered.

**Prompts** (`Prompts_proofs`). `PromptAssumption` (initially one active prompt per type
at most, finitely many activations, a positive lifetime). `OneActivePromptPerType`: an
activation about to commit is the only one of its type and no row is left that it does
not deactivate. `ActivationsAreVisible`: what was read before the cache was cleared
carries an older generation than the instance's. `CreatedPromptsAlwaysRender`.

**Leads** (`Leads_proofs`). `LeadAssumption` (finitely many users, numbered as ids are
ordered), `NoneAssumption` (`None` is no row, number, answer or tier).
`ScoresCatchUp`: unless one failed, a recalculation that began no earlier than the last
change has stored its score or is still to; it is shut out only by one begun later.
`PagesAlwaysCoverLeads`: `Ahead` is a strict order of the leads (`AheadFacts`), so the
query's order exists: the place of a row is one more than the number of rows ahead of it
(`OrderExists`). A page is a stretch of that list (`PageFacts`), pages follow each other
without a gap (`PageNumbers`), and a filter splits the rows as the statistics do
(`FilterFacts`, `OutreachFacts`); for any number of pages, any size and every filter.

**Connectors** (`Connectors_proofs`), for any handlers that overlap in any way, accounts,
webhooks, failed calls and crashes. `ConnectorsAssumption`: the bounds are numbers and
`NoAccount` is no account. Nothing keeps the row as a handler has seen it, so
`ConnectorsInv` speaks of the account a handler has seen, and of the row only as far as the
two histories go:

- `HandlersInv`: what a handler is about to write is what Composio has said of the account
  it has seen; who is to mark the row has deleted that account.
- `ApartInv`: an account that a connect has made and not yet stored is nobody else's, so
  storing it puts an account into the row that no other handler has seen.
- `RowInv`: the row tells the truth about an account that was never raced.
- `OvertakenInv`: who may still write a status into a settled row was overtaken.
- `OrphansInv`: while no call failed, an account the row does not name had expired, was
  raced, or is next to be named or deleted.

From it `RowTellsTheTruth`, `TerminalStaysTerminal` and `OrphansAreExpired`.

**Only model-checked.** The liveness properties (`AcceptedJobEnds`,
`TimeoutEndsGathering`, `MissedWebhookHeals`, `RevokedSocketDropped`,
`SocketEndsWithToken`, `EveryCallEnds`): TLAPS does not reason about `ENABLED` and
fairness here. `DeletedStaysDeleted` is false (section 4). All that the other runs check
is proved.

## 6. Not modelled

- Within planning: the content of prompts, contexts and results, the validation of
  a chunk's envelope (a malformed message is dropped before any state changes), the
  connection management of the RabbitMQ clients beyond redelivery, several jobs at
  once (no two jobs share a document, and each has its own entry in `jobChains`).
- A query that commits in MongoDB or PostgreSQL and whose reply is lost, except where
  `LostReplies` names it (enqueue, publish).
- Within planning sources: the citations of a reply (`planning-citations.ts`), a filter on
  one value that drops ids which were not shown from the list and from the texts; titles,
  the mark of a text that was cut, and the cuts before redaction.
- Within connectors: signature checks, lists, several providers.
- Within accounts: the promotion of an administrator (an operator's command), the
  profile and the leaderboard (which only read), the per-IP throttle.
- Within leads: users who are disabled, whom the queries leave out as they do
  administrators; and that a page and its total are two queries, between which a lead may
  change (`lead-read.typeorm.repository.ts:70,82`): `PagesCoverLeads` is about one state.
- Within the AI components: the wording of prompts and replies, the parsing of JSON, the
  identity of models, the deletion of a user's suggestions with the user.
- Of the audit log, the events of accounts, connectors, prompts and templates: they take
  the way of those that are modelled, and their use cases are modelled without them.
- Within the workspace: titles, statuses and styles; several documents, templates or
  missions; lists, the leaderboard and
  the profile, which only read; the deletion of a user.
- E-mail text, controllers, DTO validation, health checks, migrations and the scripts
  that fill or check a database: mapping and wiring without a protocol.

## 7. Plan

In this order, the most important first:

1. Proofs: type correctness of the modules whose invariants imply it without saying so.
2. Two claims the workspace does not keep: `AppendedAtEnd` (a section is created at the
   end: two creations may read the same maximum) and `ReadAsPublished` (a template is
   read in two queries, and its sections may be some that were never published).
3. The audit events of the other components, emitted by their actions as those of
   `AiSuggestions` are.

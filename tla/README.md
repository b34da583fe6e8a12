# A TLA+ verification of the Bubbly Clouds API

This directory models the behaviour of the API in `src/` (a NestJS application that runs
in AWS Lambda over one DynamoDB table), checks the models with TLC on small instances and
proves their main properties with TLAPS for every size. `PROJECT.json` says which lines of
the code each definition stands for, which run checks what, which hazard of the code each
property is aimed at, and how each property fails when the code is changed the wrong way.

Paths below are relative to the repository: `src/...` is the application, `deploy/...` the
infrastructure and the analytics Lambdas.

## 1. The system

One Lambda function serves every HTTP request (`src/lambda.ts`); for development, and wherever
it is deployed so, the same application listens as a server (`src/main.ts`). Requests that
are served at the same time by different Lambdas share only the table: one DynamoDB table
(`deploy/lib/api-stack.ts:157-175`) with the key `(modelId, owner)`, the index `ownerIndex`
from owners to rows, and a time to live in `expiresAt`. There is no transaction and no
conditional write anywhere in the code: every operation is a sequence of single reads and
unconditional upserts and deletes, and another request, or the end of the Lambda, may come
between any two of them. What requests share beside it is what a process keeps: the
configuration, the public key of the auth service, and the tools of the agent. One after the
other uses them in a Lambda, at the same time in a server.

| Component | State | Operations | Talks to |
| --- | --- | --- | --- |
| Parties (`src/parties`) | a row per party: creator, size, promised entitlement | create (party, then its creator's member row), update (read, write back whole), delete, list, get | members, RevenueCat (does the creator have Plus) |
| Members (`src/members`) | a row per user and party | join by invite (and grant the promised entitlement, not awaited), list, leave or remove | invites, parties, RevenueCat |
| Invites (`src/invites`) | a row per invite, expiring | create (for the creator of a party with a free seat), public get | parties, members (counted for the free seat) |
| Sessions (`src/sessions`) | a row per user and game, expiring | upsert, get, list; each answer shows the other members' sessions of the same game | parties, members |
| Account (`src/account`) | none of its own | delete: find all rows of the user and of their parties, delete them list by list, tell the auth service | every repository, `batchDestroy`, auth service |
| Sudoku (`src/sudoku`) | a row per day and difficulty, a row per month | of the day, book of the month: find, else generate (or select and scramble) and insert | qqwing (wasm), seed files; cron jobs ask for tomorrow's and, on the 27th, for the next month's |
| DynamoDB adapter (`src/dynamodb`) | the table | upsert, find, query (pages, retries, expiry), destroy, batchDestroy | DynamoDB |
| RevenueCat client (`src/revenuecat`) | none | has, grant | RevenueCat |
| Guards (`src/guards`, `src/utils/fetchPublicKey.ts`) | the public key, cached once per process | let a request through or not, by token, API key or neither | auth service (key), configuration |
| Agent (`src/agent`) | a client map per process | invoke: a loop of answers and tool calls | Bedrock, a local MCP server |
| Analytics (`deploy/lib/analytics-lambda`) | exports in S3, a table of daily records, CloudWatch metrics | start an export, aggregate the latest one | DynamoDB export, S3, CloudWatch |
| Configuration and shell (`src/app*.ts`, `src/utils/fetchAppConfig.ts`, `deploy/lib/api-stack.ts`) | the configuration, read once per process | start, listen or serve an invocation, end | AppConfig |

What is hard about it, and why a test would seldom see it:

- **Interleaving.** The seat check of a join counts members in one access and writes the new
  one in another; an update writes back what it read; two first requests of a day both
  generate a sudoku.
- **Stale and empty reads.** The member count is a query of an index that lags; reads are
  eventually consistent; a read or query whose retries are spent answers "nothing there",
  not an error.
- **Ends at any step.** A Lambda times out after 15 seconds or dies, and leaves the writes it
  has made. The entitlement is granted by a promise nobody awaits.
- **Partial failure of bulk deletions**, with unprocessed items, lost answers and two nested
  retry loops.
- **Time.** A request computes the id of its day when it reads and again when it writes;
  rows expire at an hour, days and months end at midnight, and `setMonth` goes on into a
  month nobody meant when a month is too short.
- **Shared state of a process.** Fetches of the public key overlap and are stored in any order;
  the map of the agent's clients is there before the client in it is; a Lambda may end under
  any of this.

## 2. What makes each component correct

- Parties, members, invites: who founded a party and what it promises never changes;
  members are the founder and users of an invite the founder issued; only a member or the
  founder ends a membership; entitlements are the promised ones and go to members; a party
  is not overfull, or by how much; a deleted party stays deleted.
- Bulk deletion: a normal return means everything asked for was deleted, nothing else is
  ever deleted, one failed batch does not stop the others, and the call ends.
- Account: nothing of the user's that was there at the start is left when the auth service
  is told, but for rows that a query has failed to return; nothing of other people's is taken;
  a deletion that dies half way leaves no party that lacks other members or invites it had.
- Sudoku: one sudoku a day for everybody, from some moment on; none expires during its day.
- Book of the month: a book lives until its month is over, whenever in which month it was
  stored; the one the cron job asked for is there when its month begins; each level has its
  share of different puzzles. Scrambling keeps a puzzle a puzzle with that one solution.
- Sessions: nobody sees a session without being in a party with its owner, and an answer
  leaves out nobody who shares with the reader all along.
- Analytics: a day's record counts what happened on that day, once it is over; the run of the
  night counts all of it; a run that is repeated changes nothing that is shown.
- Guards: whoever is let in has shown what the route asks for, however the fetches of keys
  overlap and whatever the auth service and AppConfig change meanwhile.
- Agent: tools work for the user who has asked, whatever arguments the agent chooses; the agent
  gets one result for each function it has asked for, in order; what it is offered exists.
- Processes: every invocation ends, and on a server every request that is not the agent's.

## 3. The modules

| Module | Contents |
| --- | --- |
| `PartyContract` | abstract: parties, members, invites and grants with atomic operations |
| `PartyApi` | parties, members and invites as the code serves them, access by access |
| `PartyApiProofs` | theorems about `PartyApi`, among them that it implements `PartyContract` |
| `MCPartyApi`, `MCPartyApi_*.cfg` | its three instances for TLC |
| `DestroyContract` | abstract: what a bulk deletion promises its caller |
| `BatchDestroy` | `doBatchWrite` and `batchDestroy` of the adapter |
| `BatchDestroyProofs` | theorems, among them that it implements `DestroyContract` |
| `AccountDeletion` | `DELETE /account`, which deletes its lists as `DestroyContract` promises |
| `AccountDeletionProofs` | theorems about it |
| `DailySudoku` | the sudoku of the day: ids, generation, expiry, midnight |
| `DailySudokuProofs` | theorems about it |
| `Sessions` | one request for sessions, amid all the writes of the others |
| `SessionsProofs` | theorems about it |
| `Analytics` | the export of the table, its aggregation, the daily records and the dashboards |
| `AnalyticsProofs` | theorems about it |
| `Scramble` | the operations that scramble a sudoku, and what they are to keep |
| `BookOfTheMonth` | the book of the month: ids, expiry, selection, the end of months |
| `BookOfTheMonthProofs` | theorems about both |
| `ApiProcess` | a process of the API: start and end, guard, caches, RevenueCat, agent |
| `ApiProcessProofs` | theorems about it |
| `MCBatchDestroy`, `MCAccountDeletion`, `MCDailySudoku`, `MCSessions`, `MCAnalytics`, `MCBookOfTheMonth`, `MCApiProcess` with their `.cfg` files | their instances for TLC |

Three conventions hold throughout. A row is a value (or a key in a set) and `None` or absence
where it is not stored. A request is a record whose `pc` (in `ApiProcess`: `step`) names the next access of the table
it will make; whatever the code does between two accesses is part of the action of the
access before or after it. Names, nicknames, timestamps and payloads that no property tells
apart are left out. Operators marked `Mutant:` are wrong variants of the definition they
precede; no specification uses them, they are there to show that each property can fail.

### PartyApi

`party`, `member` and `invite` are the rows; `partyReplica` and `memberReplica` what a lagging
replica, or `ownerIndex`, still serves. `req[r]` is request `r`: its step, its user, the party
and member it is about, and the entity it has read. The controllers start requests
(`PartiesController`, `InvitesController`, `MembersController`), the handlers' steps are the
disjuncts of `Handle`:

| Request | Steps |
| --- | --- |
| `POST /parties` | `InsertParty`, `InsertCreator` |
| `PATCH /parties/:id` | `FindForUser` (the caller's member row), `FindPartyToUpdate`, `UpsertParty` |
| `DELETE /parties/:id` | `FindForUser`, `FindPartyToDelete`, `DestroyParty` |
| `POST /invites` | `FindOwnParty`, `CountForInvite`, `InsertInvite` |
| `POST /members` | `FindInvite`, `FindInvitedParty`, `CountForJoin`, `InsertMember`, `GrantEntitlement` |
| `DELETE /members/:id` | `AuthorizeRemoval`, `FindMember`, `DestroyMember` |
| `DELETE /account` | `FindOwnedParty`, `DestroyOwnedParty`, `DestroyOwnedMember`, `DestroyOwnedInvite` |

`Abort` ends a request at any step: a Lambda that dies, an access that fails or is refused, a
read that finds nothing. Every early return of the handlers is therefore either a guard with
`Abort` as its alternative, or `End`. `WeakReads` chooses between reads that may be stale and
queries that may come back empty, which is what the code runs on, and reads that return what
was written, under which alone the bound on the size of a party makes sense. `EffectiveSize` is
the `maxSize || DEFAULT_MAX_SIZE` of the entity, which turns a size of 0 into the default.

`DELETE /account` appears here as the other requests on a party meet it: one party its user owns
is found by `ownerIndex`, deleted, and after it the rows of other members and of invites, any
number of them. What the five reads find and in which order the lists go is `AccountDeletion`;
the user's own memberships are deleted as by `DELETE /members/:id`.

A client can name a party only when its id is known: its creation has answered, or has at
least written the creator's member row, which lists it (`Known`). Ids come from nanoid, so a
creation takes one that is fresh, and nobody guesses one. A party whose creation ends between its
two writes can therefore be named by nobody. The one request that still comes upon it is the
deletion of its creator's account, which names no party and looks for what its user owns; it
is not subject to `Known`. That nothing else ever reaches such a party, and that it is gone for
good after that, is `OrphansAreOutOfReach`. `born`, `invited`, `joined`, `granted` and `peak`
record the past for the properties.

### BatchDestroy and DestroyContract

The items are cut into batches (`NextBatch`), a batch is sent (`Send`), DynamoDB deletes some
of its rows (`Delete`, external) and answers with the others (`Answered`), or the send throws
with any of them deleted (`SendThrows`), and is tried again; after the last try the whole
request counts as unprocessed. Unprocessed items are sent again until `attempt` passes
`MAX_RETRIES` (`FailBatch`), whose error is kept while the next batch has its turn, and makes
the call throw at its end (`Finish`). The retry loop of `exponential-backoff` is the counter
`tries`. The order of the items is not kept: they come from a query whose order nothing relies
on, so a batch is any subset of the right size.

Meanwhile other requests write and remove rows, those asked for included (`Upsert`, `Vanish`).

`DestroyContract` is what callers see: rows asked for vanish one by one, others write and remove
rows all the while, and the call returns only when it has deleted everything. Its environment is
that of `AccountDeletion`, which relies on it.

### AccountDeletion

`FindSessions` to `FindInvites` are the reads of the handler in their order, `FindMembers` and
`FindInvites` once for each party found. Then each list is deleted: `Remove`, `Return` and
`Throw` are the actions of `DestroyContract` for the list that is being deleted, so that this
module stands on what is proved of `BatchDestroy`. All other requests appear only as the
writes they make (`Upsert`, `Vanish`), which may come at any time and touch any row; `stayed`
is the set of rows that none of them has removed since the deletion began. A query selects
rows of some moment and may miss any of them, because the handler cannot tell a short answer
from a whole one; `missed` is the set of the rows missed. `NothingOldRemains` holds for every
other row, however many queries are short: a query whose retries are spent, or that stops
after its last page, costs the rows it should have returned and not others. `TakenInOrder` is the
order of the handler: the user's own membership, the party, then its other members and invites.

### DailySudoku

The clock has days and hours; `Tick` advances it, and ends at `LastDay`. A request that finds
a live row answers and is over, so only one that finds nothing is a step (`FindNothing`,
`ReadFails`); it then generates and stores (`InsertSudoku`), computing the id anew. A request
is at most `Timeout` hours old and a day is longer than that: the code's 15 seconds against 24
hours. Only one difficulty is modelled: the id contains the difficulty, so the sudokus of two
difficulties never meet.

### Sessions

One request of the user `me` is followed; all others appear as the writes they make
(`Others`), which come between any two of its reads. `GET /sessions` for a friend makes the
four reads of two `findForUser` calls (`FindReaderMember` to `FindOwnerParty`, each of which
refuses when it finds nothing) and then fetches the friend's sessions. `GET` and
`PATCH /sessions/:id` begin with the caller's own row (`FindMine`, `UpsertMine`) and then fan
out: the member rows of the caller by the index (`FindMemberships`), the parties one after
another (`FindParty`), the members of all parties at once (`FindMembers`), and the sessions of
all members at once (`FetchSession`); `Answer` waits for all of them, as the nested
`Promise.all` does. `toFind`, `toAsk` and `toFetch` are what each stage has still to read, so
that the reads of a stage come in any order.

`lingering` is what a replica or the index may still serve of rows that are gone or replaced;
`Gets` and `GetsNothing` are a read that serves any version, or none. `held`, `kept` and
`missed` record what the properties need: what could be seen since the request began, what was
there all the time, and whether a read has missed a row. `Upserted` keeps the old expiry of a
row that is written without a new one, as the adapter's update expression does.

### Analytics

A figure is a number of rows, so a record is modelled as the set of entries it counts; an entry
is a row with the day it counts for, which is that of `updatedAt` for a session and of
`createdAt` for a party or a member. `Upsert` and `Destroy` are the API's writes. `midnight`
and `before` are what the incremental export of a day selects: rows changed the day before, as
they were when it ended. `StartExport` is the export Lambda, `FinishExport` DynamoDB writing
the manifest, `ExpireExport` the rule of the bucket (`deploy/lib/api-stack.ts:362-366`).

A run of the aggregator takes whatever export is latest (`FindLatestExport`), lets its rows in
one by one, reading the clock for each (`ProcessItem`, `ShouldIncludeDate`), publishes all
figures (`PublishAllMetrics`, each of them or not, as failures are logged and forgotten), and
puts the records (`WriteAnalyticsRecord`). Both Lambdas run at any time: the schedule of
2:00 and 3:30 is one of those, and the manual invocations of `docs/analytics-backfill.md` are
the others.

### BookOfTheMonth and Scramble

`month` and `day` are the clock, `row[m]` the book of month `m` with its puzzles and the month on
whose first day it expires. `SetMonth` is what `Date.setMonth` does on a day the target month
does not have: it goes on into the month after. `IdMonth` and `Expires` are built from it as the
repository builds them, so that a book asked for on 31 January for the next month gets the id
of March. As in `DailySudoku`, a request that finds nothing is a step (`FindNothing`,
`ReadFails`), and the id and the expiry are computed anew at the write (`InsertBook`); a
request lives for seconds and so sees one midnight at most. A request may be the cron job's,
which runs on `CronDay` and asks for the next month; `prepared` records the months it was
answered about, and `skipped` those whose book was stored two months ahead. A book expires at
some hour of a day, so on that day a read finds it or does not.

`generateSudokuSelection` draws from each level's file as many different seeds as
`DISTRIBUTION` says; a file that cannot be read is passed over (`readSeedFile`). A puzzle is
named by its seed: the columns of a row, which are copied, are left out.

`Scramble` is the scrambler as mathematics. A transformation says which cell each cell is
taken from and what each digit becomes; `rotate90` to `Relabel` are those of the code's methods,
`randomRotation` to `randomTranspose` the sets of all that each random operation may turn out to
be, and `scramble` composes eight draws in any order. A line of the grid is the pair of its
band (or stack) and its place in there, which is what the code's `band * 3 + row` encodes.
`KeepsStructure` says what the composed transformation is to be, independently of how it is
made: one to one on cells and on digits, with peers (cells of one row, column or box) kept.

### ApiProcess

A process is a Lambda or a server, as `server` says from the start. `phase` is "off",
"starting" (between `Build`, which begins the fetch of the public key and does not wait for it,
and `FetchAppConfig`) or "up". `publicKey`, `appConfig` and `mcpClients` are the module-level
variables of `fetchPublicKey`, `fetchAppConfig` and the `AgentService`; they go with the process
(`Exit`): when the configuration cannot be fetched, when the process is stopped, and when an
invocation has had its time (`Timeout`). A Lambda has one invocation at a time (`Invoke`), a
server as many as come (`Receive`). Between invocations a Lambda is frozen, so that the fetch of
the start goes on only while one is in progress (`Awake`).

`req[r]` is a request with its step, route and credentials. Routes stand for the combinations
of decorators in use: "invite" is public, "sudoku" takes an API key, "agent" takes any token, and
"party" a token with a permission. Credentials are nothing, a token (signed with some key, with
the permission or without) or an API key (valid in some configuration). Keys and configurations
are counted from the start of the process; `Rotate` goes on to the next, and `None` is one of
before or of somebody else.

| Code | Actions |
| --- | --- |
| `AuthGuard.canActivate` | `AdmitWithoutToken`, `RefuseWithoutToken`, `CheckToken`, `FetchPublicKey` |
| `fetchPublicKey` | by a request: `PublicKeyAnswered`, `PublicKeyFails`, `PublicKeyStored`; by the start: `PrefetchAnswered`, `PrefetchFails`, `PrefetchStored` |
| `hasEntitlement`, `fetchApi` | `LookupAnswered`, `LookupAborted` |
| `AgentService.getMcpClients` | `GetClients`, `ConnectClient` |
| `AgentService.invoke` | `InvokeAgent`, `AgentFails`, `AnswerEnds` |
| `processAgentResponse`, `handleReturnControl` | `ReturnControl`, `HandleInvocation`, `ToolAnswers` |
| every other handler | `Answer`: what it does to the table is in the other modules |

`chat[r]` is the exchange with the agent: what it was offered, how often its answer has
returned control, the inputs it gave last, which of them have been handled, the call that is
with a tool, and the results so far. A tool is called in one step (`HandleInvocation`) and answers in
another (`ToolAnswers`); on a server the calls of several requests are with the one service in
the process at once, and are answered in any order. What `fetch_user_data` answers is
represented by the user it was asked about, so that a mix-up shows; the code answers the same
placeholder for every user. The agent is external: it may ask for any functions it was offered, or others, name any
user in its arguments, return control several times in one answer, and do so for ever.

## 4. The runs

| Run | Instance | What it shows |
| --- | --- | --- |
| `party_weak` | 2 users, 1 party, 1 invite, 2 requests, no size given (the default is 1), weak reads | types, identity of rows, membership by invite, promised grants, authorised removals, settled deletions, that a party whose creation broke off stays out of reach until its creator's account is deleted, and that `PartyApi` implements `PartyContract` |
| `party_capacity` | 3 users, 2 requests, size 1 or none given (0, for which the default is 2), strong reads | by how much a party can exceed its size |
| `full_party` | 3 users, 2 requests, size 2, strong reads | a full party admits somebody (violation) |
| `batch_destroy` | 3 rows, batches of 2, 2 retries | every item is tried, the sends are bounded, the call ends, and the contract holds |
| `account_deletion` | 2 users, 1 party, 1 invite | what a deletion takes, in which order, and what it leaves |
| `daily_sudoku` | 2 requests, 2 puzzles, days of 2 hours, 3 days and the one after | a sudoku lives its day, and stays once it has settled |
| `generated_once` | the same, strong reads | a sudoku is generated although there is one (violation) |
| `sessions` | 2 users, 1 party, sessions that expire at once or never, 2 hours | who is shown, and when an answer is complete |
| `analytics` | 1 session row, 1 party or member row, 1 run at a time, 3 days | records are true, the run of the night is complete |
| `dashboards_count_once` | the same, sums up to 3 | dashboards show more than there was (violation) |
| `book_of_the_month` | 2 requests, 1 level of 3 seeds and 2 puzzles a book, months of 3 and 4 days, 3 months and those ahead; grids of 4 by 4 | a book lives its month, is there when its month begins, and is whole; each operation of the scrambling keeps peers peers |
| `api_process` | 2 requests, 1 tool and 1 there is not, answers that return control twice with up to 2 functions each, 1 change of key or configuration, times of 2 and 3 | who is let in, for whom tools run, what the agent gets back, what it is offered, and that requests end |

**Bounds.** Two requests are enough for each race the properties are about: all of them are
between one request that has read and one that writes. The third user in `party_capacity` is
the one who is too many in a party of two. One party and one invite suffice because no row of
one party is read in a request about another; the theorems cover any number. Three rows in
batches of two give a full batch and a last, shorter one, and two retries give each loop a
turn that is neither its first nor its last; 25 and 5 in the code differ in nothing else. Two
hours are an hour before midnight and one after; three days are what a request needs that
outlives its timeout to reach a day it has not looked for, and `LastDay` bounds the clock. `Sessions` starts
from every table and every set of lingering rows, so one friend and one party already meet
every history; two hours are one in which a session lives and one in which it has expired
without being dropped. `Analytics` has a day to be counted, a day on which the nightly run
counts it, and a day after, for runs over midnight; nothing is written on the last one. One
row of each kind suffices, as rows are counted one by one, and one run at a time, as runs share
nothing but the records, which each overwrites whole. `Cap` is 0 in the passing run, whose
properties do not look at the sums, and 3 in the other. Months of 3 and 4
days are months with and without a last day that the next one lacks; the cron job on the second
day comes before that day in each, as the 27th does before the 29th, and three months are one
to prepare in, one that may be skipped, and one whose book that is. A seed too many makes the
draw a draw. The operations of the scrambling are evaluated for boxes of 2 by 2 with
all they may draw, as an assumption of the run's module; the theorem is for every size. In
`api_process`, two requests are two users of one client and two fetches of one key; two returns
of control of two functions are a second one that must not keep the results of the first, and a
second result that must not take the place of the first; the time of a Lambda is shorter than
RevenueCat's (2 < 3), as in the code (15 < 20). The
parties' ids, `Known` and the invites bound how many rows are ever created.

**Symmetry** is declared for users and requests, for puzzles and requests, and for seeds and
requests, in runs that check no liveness; none of these constants is named in a specification (no user is an admin in
these instances).

**Deadlock** is checked where a system never stops. In `MCPartyApi` it may: the only party id
is used up when the creation that took it dies half way. In `MCBatchDestroy` the call ends, and in
`MCSessions` the request.

**Fairness** is assumed in two modules. In `BatchDestroy` it is `WF_vars(Step)`, for the steps of
the call itself. They are a sequence of awaits in one process; the SDK's own timeouts make each send
answer or throw. Nothing is assumed of DynamoDB (it need never delete a row) or of other
requests. `Ends` then says that the call ends.

In `ApiProcess` it is weak fairness of `Clock(r)`, for time passes and the platform ends an
invocation that has had its time; and of `canActivate(r) \/ LookupAborted(r) \/ Answer(r)`, for
what the process can do it does: the fetch of the key comes back at least as the error that
Node makes of one that does not (`undici` gives up on a server that sends nothing), and the timer
of `AbortSignal.timeout` goes off. Nothing is assumed of RevenueCat, which may hang, of the start
of a process, which may fail to fetch its configuration, or of the agent, which may ask for tools
for ever. `RequestsEnd` then says that an invocation of a Lambda ends, whatever it is doing, and
on a server every request but the agent's.

The other specifications have no fairness, because a Lambda may end at any step and nothing takes
its work up again.

### Where code and comments disagree

- `full_party`: a comment at `src/invites/invites.service.ts:36` says "Treat as expired when
  full if not in party", but the count and the insert are two accesses, and two joins can both
  pass the one before either does the other. `OvershootBounded` is what does hold: over
  strong reads a party exceeds its size by fewer members than requests run at once.
- `generated_once`: `src/sudoku/sudoku.service.ts:23-24` says a sudoku is generated if it has
  not already been; overlapping requests each generate one, and the last insert replaces
  what the others have answered with. `SettledSudokuStays` is what does hold.
- `dashboards_count_once`: `docs/analytics-backfill.md:295` says "The backfill process is
  idempotent" and how to re-run it. The records are overwritten indeed (`RecordsAreTrue`
  holds), but each run also publishes its figures again, and the dashboards show their sum.

### What else the models have shown of the code

No comment or document of the repository denies these; they are exceptions that the properties
state, or cases that the runs include.

- An update that has read a party writes it back after the party was deleted, and the party is
  there again (`src/parties/parties.service.ts:168`). `SettledDeletionsStay` is what does hold: a
  deletion is final once no replica shows the party and no request that had read it is left.
- The deletion of an account that dies after the user's memberships leaves a party that stands
  without its creator among its members (`src/account/account.service.ts:46-58`); one that dies
  after the parties leaves members and invites of parties that are gone, which a second deletion
  does not find. `TakenInOrder` says that these are the only ways a party comes apart.
- The book of the next month, asked for on the 29th to the 31st of a January, is stored as
  that of March and expires on the first of March; on 27 February the cron job may find it and
  be content, and March then begins without a book until somebody asks. `skipped` in
  `LivesItsMonth` and `ReadyForTheMonth` is that case and no other.
- The wait of 20 seconds for RevenueCat never ends by itself in a Lambda, which has 15: the
  creation of a party fails instead of going on without the entitlement. On a server the abort
  works, and `RequestsEnd` depends on it.
- An older public key may be stored over a newer one, as the fetch of the start and those of
  requests overlap. Tokens of the new key are then refused until the process ends; what
  `AdmitsEntitled` rules out is that anybody else is let in by it.
- On a server, a request for the agent that comes while the first is connecting the tools asks
  the agent without any (`ToolsAreOffered` bounds this to that time, and rules it out for a
  Lambda), and a loop with an agent that asks for ever has no end.

## 5. What is proved

All proofs are for any values of the constants that satisfy the assumptions in the modules
(users and requests finite, a promise of one month among the durations, batches and retries
of at least one, a timeout shorter than a day, months at most twice as long as each other and longer than the cron
job's day, no more puzzles of a level than its file has, and model values distinct from data).

**PartyApi.** Each invariant that is checked is a conjunct of an inductive one:

- `TypeCorrect`: types, and that a request holds an entity exactly at the steps that need one;
  the other proofs rest on it.
- `IdentityIsKept`: stored rows, replicas and the entities held by requests all carry the
  creator and duration the party was founded with. The three have to be proved together: an
  update writes back what it holds, what it holds was read from a replica, and the replica
  copies the table.
- `MembersAreInvited`: the inductive invariant follows the right to enter through the steps of
  a join: a request past `FindInvite` is about a party its creator issued an invite for, because
  invite rows, and requests about to write one, are its creator's.
- `GrantsKeepPromises`, `RemovalsAreAuthorised`: the same for the duration and for the right to
  remove, which a request carries from where it was checked to where it is used.
- `SettledForGood`: a settled party has no reader that could pick it up again; each step
  preserves that.
- `OvershootIsBounded`: members and those about to be written, together, number less than the
  peak size plus the requests. The proof counts the admitted users against the requests that
  admit them, with the lemmas on cardinalities it needs.
- `OrphansStayOutOfReach`: a creation that dies half way leaves a party row, which stays as it is
  until its creator's account is deleted, and nothing ever lets anybody in. The invariant is
  `CreatorFirst`: until a party is known, its row is as it was created or gone, nobody has joined it
  or been invited to it, and the only requests about it are its creation and deletions of an
  account. It rests on which parties a client can name (`Known`), and on the query that deletes an
  account finding only what the user owns.
- `ApiImplementsContract`: initial states map to initial states and every step to a step of
  `PartyContract` or a stutter, under the refinement mapping at the end of `PartyApi`. The
  contract opens a party to others only once its founder has entered it; that the code, which
  writes the party first and its founder's row later, keeps to this is `CreatorFirst` again.

**BatchDestroy.** `ItemsAccountedFor` says where an item can be: in a batch to come, in the one
being written, or sent; and deleted, if no batch has failed. With the types it is inductive and
gives `TypeCorrect`, `EveryItemIsTried` and, at `Finish`, the `Return` of the contract, so
`DestroysAsPromised`.

`SendsAreBounded` needs to know what is still to be sent. `Budget` says that the sends made,
those that the batch in progress may still make (`SendsToCome`) and those of the batches that
the rest will be cut into, together, stay within the limit for the list the call began with. The
lemmas are about the arithmetic of cutting a finite set into batches (`BatchesCounted`, `SliceIsABatch`): a
batch less in the rest for each one cut off, be it full or the last. The same count, with the
steps that are no sends, is a measure of the whole call: `CountsDown` shows that it is a natural
number, that each step of the call lowers it and that nobody raises it; `NeverStuck`
shows that a running call always has a step whose guard holds. This is all that `Ends` needs beside
the fairness of `Step`; only the last inference, from fairness, is out of the prover's reach.

**AccountDeletion.** The inductive invariant has three parts: what the lists hold is mine
(`FoundIsMine`), they hold all there was but the rows that a query has missed (`FoundIsAll`), and
what has been deleted is gone (`DeletedIsGone`). They give `NothingOldIsLeft`, `OnlyItsOwn`
and `RowsGoInOrder`, the last two as facts about each `Remove`.

**DailySudoku.** `RequestsAreRecent` says that a request began today, or yesterday and then is
older than today. It is what makes midnight harmless: a request of the day before yesterday
cannot exist, as the timeout is shorter than a day. It gives `SudokuStays`; `SudokusLiveTheirDay`
is inductive with the types.

**Sessions.** `SeenInv` says for every stage of a request what has been seen on the way there:
a party to ask about was found by a member row of the reader, a session to fetch by member rows
of both. The rows seen only grow (`BecomesIsMonotone`), so what was seen stays seen while
others write; this gives `SharedOnlyInParties`. `CompleteInv` says of a friend who shares
throughout that they are still to be found, asked about or fetched, or are shown, or a read has
missed; what is shared throughout only shrinks, so writes cannot break it, and at the answer
nothing is left to do. This gives `AnswersAreComplete`.

**Analytics.** `TrueInv` follows entries from the table through the export and the run into
the record: each has been true, and what a run has let in is of past days. Days only pass, so a
run over midnight cannot break it; it gives `RecordsStayTrue`. `NightInv` says why the
export of the night has all of yesterday: a row of today has been written today
(`TodayIsChanged`), so at midnight it is among the rows the export selects
(`MidnightIsPast`), and between the export and the record an entry that is wanted is
still to be processed or is let in. It gives `NightlyRunsAreComplete`.

**BookOfTheMonth.** The four properties together are inductive. `StoredLives` is the calendar: what
is stored for month `m`, on any day of any month, expires after `m`, unless `m` is two months
ahead; it holds whatever the months' lengths are. (That none is more than twice as long as another is
why `SetMonth` goes on by one month and never by two.) `InsertInv` shows that
a later book does not take a prepared one's time away, and `TickInv` and `DropInv` that time and
DynamoDB do not. They give `BooksLiveTheirMonth`, `BooksAreReady` and `BooksStayWhole`.

**Scramble.** A move of the lines that keeps bands together keeps peers when it is made on
rows or on columns (`RowsMoved`, `ColumnsMoved`); reversals, swaps of bands and swaps within bands
are such moves, a transposition exchanges the two, and a rotation is a transposition of a mirror
image. So `OperationsKeepStructure` holds for boxes of any size; `ThenKeeps` composes, and
`ScrambledHasOneSolution` carries a second solution of the scrambled puzzle back to one of the
puzzle that was scrambled.

**ApiProcess.** The inductive invariant has two parts besides the types. `KeysInv` says that what
a process has cached, or is about to, is of its own time: a key that was read is not younger
than the key the auth service signs with, and a request that is past the start has the
configuration to go by. With `TokenInv` (only tokens have a key fetched for them) it gives
`OnlyTheEntitledAreAdmitted`. `AgentInv` has one invocation at a time in a Lambda, a chat exactly
while a request is with the agent, what is offered within what is there, and, for each chat,
`ResultsInv`: a result, the caller's own, for each function up to the one that is next, and a call,
about the caller, only for that one. It gives
`ToolsWorkForTheCaller`, `ResultsGoBackInOrder` and `OfferedToolsAreThere`.

`ToCome` bounds what is still to come of a request: the time left of an invocation of a Lambda;
on a server the steps ahead of a request that is not for the agent, with the turns of the clock
in the call of RevenueCat. `RequestsCountDown` shows that each of the steps `Fairness` is
about lowers it or ends the request, and that no other step of the process, of the request itself or
of anybody raises it; `RequestsCanGoOn` that one of those steps is always possible, if
RevenueCat and the agent never answer. The invariant is `WayInv`: only requests for the agent
are ever with it, and on a server none waits for the process to start. For a server
this is where the abort after 20 seconds enters: without it the measure would not go down in
`lookup`.

**Only model-checked.** `Ends` and `RequestsEnd` themselves are liveness under fairness and are
checked by TLC alone; their safety halves are proved, as said. The three runs that end in a
violation have nothing to prove.

## 6. What is not modelled, and what comes next

Left out for good:

- read-only endpoints beyond the reads that other operations make, wording, logging, formatting,
  module wiring, the declarations of the stack that are not behaviour (roles, domains), and the
  network formats of DynamoDB, RevenueCat, S3 and Bedrock;
- the wasm solver's insides, which are generated code (`wasm/qqwing`, 4,699 lines);
- the columns of a row of seeds and the techniques they count, which are copied from one record
  to another;
- signatures and dates of tokens, which `jsonwebtoken` checks; the arithmetic of
  `calculate_sum`; the memory that Bedrock keeps of a session; the end of a granted duration,
  which RevenueCat keeps.

What could come next, in this order:

1. `QueryPages`: `getResults` with its pages, retries, `MAX_PAGES` and expiry filter, as the
   implementation of the `Query` that `AccountDeletion` and `PartyApi` assume (a refinement).
2. A second deletion of the same account after a broken one, composed of two `AccountDeletion`s.

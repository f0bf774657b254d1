# Verification of pse-edge-mcp

TLA+ modules, TLC configurations and TLAPS proofs for the server in `src/`: an
MCP server that answers questions about the Philippine stock market from PSE
Edge, which it may ask only rarely, and that guards its tools with tokens,
quotas and usage counts kept in Postgres.  Everything in it is asyncio: one
event loop per process, any number of processes, one database.  So the
interesting behaviours lie at the `await`s, between two transactions, and
between two replicas, and the models are cut exactly there.

Paths below are under `src/src/pse_edge_mcp/` unless they say otherwise.

## 1. Inventory

| component | state | operations | talks to |
|---|---|---|---|
| Market calendar (`market_calendar.py`) | none | `is_market_open`, `next_close`, `valid_until`, `is_fresh` | the wall clock |
| Freeze service (`service.py`) | none of its own | `get` under one of three policies | storage, single flight, calendar, the fetch of a client |
| Single flight (`ratelimit.py`) | table of futures, per process | `do` | the coroutine it is given |
| Storage (`cache.py`, `storage_postgres.py`) | one entry per key, shared | `get`, `set` | Postgres |
| Token authentication (`auth.py`, `auth_store.py`) | bounded LRU of validities, per process | `authenticate` | `auth_tokens` joined to `users` |
| Quotas (`auth.py`) | two fixed windows per user, LRU bounded, per process | `check` | — |
| Token-endpoint limiter (`ratelimit.py`) | one window per key, LRU bounded, per process | `check` | — |
| OAuth browser flow (`oauth.py`) | `oauth_flows`, `auth_tokens` | `begin_authorize`, `issue_code`, `exchange` (code, refresh) | Postgres |
| Machine clients (`oauth.py`, `admin.py`) | `oauth_clients`, `users`, `auth_tokens` | create, mint, revoke, delete | Postgres |
| Usage (`usage.py`, `usage_postgres.py`) | a buffer per process, `usage_events` | `record`, `flush`, purge, `run_forever`, `stop` | Postgres |
| Passkeys and web sessions (`passkeys.py`) | `web_sessions`, `email_verifications`, `webauthn_credentials` | verify, enroll, log in, delete | Postgres, WebAuthn |
| Accounts (`accounts.py`) | — | `summarise`, `revoke_session`, `erase` | every table of a user |
| Outbound clients (`client.py`, `bsp_client.py`) | a token bucket per client | one method per endpoint | PSE Edge, BSP |
| Memo, repositories, archive (`memo.py`, `repositories.py`, `archive*.py`) | a bounded map; `eod_bars`, `disclosures` | read, parse, archive | freeze service |
| Auth web application (`auth_app.py`) | the browser's `pse_session` cookie and the pages it shows | authorize, consent, log in, verify, enroll, account, operator forms | OAuth, passkeys, accounts, machine clients |
| Request pipeline (`auth_middleware.py`, `asgi.py`, `health.py`) | none of its own | authenticate, then quota, then usage; lifespan | the components above |
| Tools (`server.py`, `validation.py`, `sources.py`, `errors.py`) | none | 15 tools that read, an attachment resource, a completion, `send_email`: checks, then reads, then one envelope | repositories, notifications |
| Notifications and email (`notifications.py`, `email.py`) | one daily window per user, LRU bounded, per process | `send_to_self` | the mail provider |
| Parsers (`parsers.py`, part of `repositories.py`) | none | one function per kind of page, to a dictionary or `EndpointChangedError` | — |
| Canary (`canary.py`) | the report of a pass | check a family, report, mail, exit | the clients, the calendar |
| Operator command line (`admin.py`) | — | issue, revoke, disable, erase, expire | every table |
| Models, configuration, logging, entry points | none that changes | | |

How they interact.  A tool call passes `AuthMiddleware` (authenticate, quota,
usage count) and reaches a repository, which asks the freeze service for one
cache key; on a miss the service runs a fetch under the single flight and stores
what comes back.  The browser flow and the operator's commands write the token
table from other processes while `authenticate` reads it through its cache.
Usage counts leave the process on a timer.  No component calls another one back;
they meet in the shared tables, in the per-process tables, and in the futures of
the single flight.

Hard behaviours, per component, and what makes it correct:

- **Freeze cache.** Interleaved reads of one key, a leader that fails or whose
  client leaves, a clock that passes a boundary while a fetch is on its way,
  storage errors, several processes.  Correct when PSE Edge is asked at most once
  per key and window, nobody waits for ever, what has been served stays available
  in an outage, reads do not go back in time, and unmarked data was fresh when whoever
  obtained it asked.
- **Authentication.** A revocation between the lookup and the verdict, a verdict
  that is cached afterwards, eviction, restart.  Correct when a dead token is
  honoured only within the TTL, an expired one never, a good one always.
- **OAuth.** Two exchanges of one code, two refreshes of one token, a sign-out or
  erasure between rotation and mint, replays of old tokens, a purge inside every
  mint.  Correct when a code mints once and a cut family stays cut.
- **Machine clients.** Check and mint, and revoke-the-client and disable-its-user,
  are transactions of their own.  Correct when a returned revocation is final.
- **Usage.** Concurrent flushes, failing and slow writes, crash, stop, erasure.
  Correct when no count is counted twice, nor lost without a cause.
- **Counters.** Windows that roll, a bounded table, two counters per decision.
- **The read path.** Several reads per answer, each of which may hit, wait, or fall
  back; followers of one fetch that all write the archive; a memo per process, shared
  by projections of one page, while other processes fetch anew.  Correct when an answer
  is the projection it says of the page its metadata names, and what was fetched for
  the archive gets there.
- **The way out.** Calls that queue for the token bucket, sleep on its lock, leave it
  from anywhere, and retry.  Correct when no span of time sees more than a burst and
  its refill.
- **Passkeys.** Three read-then-write transactions under READ COMMITTED (the
  challenge, the sign counter, the last passkey), a link that is spent before its
  session exists, one session for enrollments and logins alike, and erasure in the middle
  of a ceremony.  Correct when a challenge serves once, a passkey belongs to the address
  its ceremony proved, a session acts for a user who exists, and an account keeps a
  passkey.

- **Pages.**  Tabs share a cookie that each of them may have replaced; the session is
  read in one transaction and acted on in another; replies get lost.  Correct when a
  form acts only for the account its page shows.
- **Requests.**  Several tokens of one user, decided in any order, after a database
  round trip or out of the cache, by a worker that may be replaced; a mail counted
  before a provider that may fail.  Correct when the allowance and the mail budget are
  the user's, and refused tokens and failed mails count as the code says.
- **Tools.**  Checks and reads are statements of one body; a check after a read costs
  PSE Edge a request.  Correct when a malformed call costs nothing, the answer is about
  the company asked for, and a shortened list says so.
- **Parsers.**  Content is filed by label and by document order; drift must be told
  from a placeholder row, and a parser tells them by one mark.  Correct when everything
  stays under its heading, a reordered column changes nothing, and no row that has its
  mark is lost.
- **Canary.**  Each check depends on the ones before it, and the world changes between
  two requests.  Correct when what is broken is noticed and told.

`PROJECT.json` lists every hazard at its line with the properties that cover it.

## 2. Modules

| module | models | checked by | proved in |
|---|---|---|---|
| `MarketCalendar` | sessions, closes, freshness over a discrete clock | `MCMarketCalendar`, in `MCWindows` | `FreezeCacheProofs` |
| `FreezeCache` (extends `MarketCalendar`) | `FreezeService.get` + `SingleFlight.do` + storage | `MCFreezeCache`, `MCFreezePromises` | `FreezeCacheProofs` |
| `UpstreamBudget` | abstract: at most one request per key and window | refined by `FreezeCache` (`freeze_promises`) | `FreezeCacheProofs` |
| `AuthCache` | `TokenService.authenticate` over the token table | `MCAuthCache` | `AuthCacheProofs` |
| `OAuthTokens` | flows, codes, refresh rotation, sign-out, erasure | `MCBrowser`, `MCOAuthTokens` | `SignInProofs` |
| `AuthApp` | the pages of the browser flow: cookie, tabs, forms | `MCBrowser` | `SignInProofs` |
| `SignIn` (extends `OAuthTokens`, instantiates `AuthApp`) | the two beside each other | `MCBrowser` | `SignInProofs` |
| `MachineClients` | `client_credentials` against the operator | `MCAccounts` | `AccountsProofs` |
| `Passkeys` | verification links, web sessions, enrollment, login, removal, erasure | `MCAccounts`, `MCPasskeys` | `AccountsProofs` |
| `Accounts` (extends `MachineClients`, instantiates `Passkeys`) | the two beside each other | `MCAccounts` | `AccountsProofs` |
| `Repositories` | every repository method as the reads it makes | in `MCReads` | `ReadsProofs` |
| `ReadPath` (extends `MarketCalendar`, `Repositories`) | those methods over the cache, the parse memo and the archive | `MCReads` | `ReadsProofs` |
| `UsageRecorder` | buffers, flushes, the timer loop, stop | `MCReads`, `MCUsageRecorder` | `ReadsProofs` |
| `Reads` (extends `ReadPath`, instantiates `UsageRecorder`) | the two beside each other | `MCReads` | `ReadsProofs` |
| `PoliteClient` | the token bucket and the retries of an outbound client | `MCWindows` | `WindowsProofs` |
| `Canary` | one nightly pass over the endpoint families | `MCWindows` | `WindowsProofs` |
| `QuotaTracker`, `FixedWindowLimiter` | the two counters of a worker | `MCWindows` | `QuotaTrackerProofs`, `WindowsProofs` |
| `Windows` (extends `QuotaTracker`, instantiates the limiter, the client, the canary) | what a worker counts and paces by the clock | `MCWindows` | `WindowsProofs` |
| `Pipeline` (composes `QuotaTracker`, `FixedWindowLimiter`) | `AuthMiddleware` around the tools, and `send_email` | `MCRequests` | `WorkerProofs` |
| `Tools` (inputs in `RequestSamples`) | every tool as its checks and reads | `MCRequests` | `WorkerProofs` |
| `Parsers` (pages in `RequestSamples`) | every parser as a function of what a page holds | `MCRequests` | `WorkerProofs` |
| `Worker` (extends `Pipeline`, instantiates `Tools`, `Parsers`) | what a worker does with a request | `MCRequests` | `WorkerProofs` |

Each module names its state after the code's: variables that are columns or
attributes carry the attribute's name in their comment, the `pc` of a call says
at which `await` it stands, and a variable commented *history* is one the code
does not have and no action reads.  `map` in `PROJECT.json` gives for every
definition the lines it stands for.  The `Mutant...` operators are deliberately
wrong versions of single definitions, used to show that each property can fail;
no specification uses them.

### Correspondence and abstractions

**MarketCalendar.**  Days are numbered from a Monday; a day has `DayLength`
ticks.  `NextClose` is the code's bounded walk of 370 days; the assumption
`CalendarAssumption` is that the walk finds a trading day (otherwise the code
raises).

**FreezeCache.**  A call is one execution of `get`: `Begin` reads the clock,
`Read` is the instant of the storage read, `ServeHit`/`ServeHeld`/`Lead`/`Follow`
is the code up to the next await, `RecheckHit`/`RecheckMiss` the second look under
the flight, `UpstreamAnswers` and `FetchReturns` the two ends of the fetch,
`Store` the upsert.  The landing of a flight (future set, table entry popped,
followers resumed) is one step: none of it awaits, and what a follower does
afterwards reads no shared state.  An entry is abstracted to the two facts the
policies look at: when it was stamped, and whether PSE Edge produced it during a
session.  The re-check reads and decides in one step; the two differ only if
another process stores in between, which the fetch that follows covers.  A worker
whose process is replaced is a cancellation of its calls; the storage of the
multi-process deployment survives it.  `requests` counts answers the fetch accepts:
failed attempts and retries are outside the budget.

**AuthCache.**  `Begin` (a cache hit answers at once), `Lookup` (the database's
snapshot), `Refuse`/`Accept`.  One worker: each has a cache of its own and they
share nothing but the table.  The writers of the table are steps of other
processes.  A finished call's locals are dropped.

**OAuthTokens.**  One step per transaction: `ExchangeCode` (consumes the code),
`ReadRefresh`, `Sweep` (reuse detected), `Rotate`, `Mint` (purge and insert).
Redirect URI and PKCE are one fact, `bound`: the client presents the right ones or
it does not.  A token is named by the call that mints it.  The clock of a
transaction is read with its first statement.  Left out: rows without a family (made
by hand, never by this flow) and disabled users, whose tokens die in `AuthCache`.
`oauth_flows.user_id` is no foreign key, so `IssueCode` may name a user who is gone;
`auth_tokens.user_id` is one, and stops the mint.

**AuthApp.**  `Send` takes the cookie the browser holds at that moment, a handler runs
as `LoadSession` (where it has a session to load) and then the action named after it,
and `Receive` delivers its page and its cookie, unless `Lose` does not.  What the
services do inside a handler is one step here, for their interleavings are those of
`OAuthTokens`, `Passkeys` and `MachineClients`.  The csrf token is a hash of the session
id, so a page carries the session itself.  WebAuthn is again one fact: a ceremony that
succeeds answers the challenge its own tab was given, for any account.  A tab waits for
its reply before it does anything else, as a person does.  Left out: signing up (a link
is there from the start), client registration, and the pages without a form.

**Canary.**  A family is a sequence of pages, a page is one request, and what a page is
like is decided outside: sound, of a shape the models refuse, unreachable, or, for the
quote page, valid without a security id.  The calendar is asked once, as in the code.

**MachineClients.**  The grant (check, then mint), `create`, `revoke` (two
transactions), `delete_user_by_email` (look for an owning client, then erase) and
a crash between them.  Token expiry is left out: it only takes tokens away.  There
is no command that enables a client again, so there is no such action.

**Repositories, ReadPath.**  A method is a sequence of reads (`Read`: a key and the
projection the memo keeps of it) and the flag that its last page is archived.  A key
stands for its family; two date ranges or two companies share nothing but the memo's
room and, for bars, the archive.  `FreezeService.get` is one step when it answers from
storage (`Hit`) and is cut at its wait otherwise (`Miss`, then `Fetch`, `Recheck`,
`Unavailable` or `Abandon` for everyone aboard the flight): the interleavings inside the
wait are those of `FreezeCache`, and here a flight lands at once.  `Abandon` is the flight
that ends in an error for everyone, because its leader is cancelled or the storage fails;
the upsert may have taken effect all the same, and then the page is in the cache and
nobody has it to archive.  `Leave` is a call that is cancelled at any of its own awaits:
before its wait, as a follower in it, or while it archives.  A page is its place among the
pages sent, its `fetched_at`, and whether the parser takes it; no two pages share a
`fetched_at`, which the code has to the microsecond.  `Resolve` is `ParsedMemo.resolve`
with what the method does next, for none of it awaits.  `PutOff` is the dividends page,
which is parsed only with the rights.  The archive has one row per
trading day a page carries; `Record` is the insert, and may fail.  Left out: what a page
says (so also that a memoised parse of a quote keeps the company name of its first
reader), the rows a page no longer carries, and `SymbolNotFoundError`, which is an
answer like another.

**PoliteClient.**  Time is in ticks, and the bucket counts in ticks of refill, so
nothing is divided: a token is `Period` of them.  `line` is the lock: its head holds it,
and `Doze` is the sleep it takes there.  The retries are `Retry` and `Send`; `Backoff`
doubles from one tick where the code doubles from half a second.  `BspClient` is a
second instance of the same code with a bucket of its own.

**UsageRecorder.**  A bucket is a user and a day; hours behave alike.  A flush
takes the buffer in one step and may stay in `persist` for any time; a database
that refuses one user's row refuses the whole batch; `stop` cancels the loop and
flushes once more.  Requests end before shutdown, as the server drains them first.

**QuotaTracker, FixedWindowLimiter.**  One action per `check`; evictions are
counted so that a ceiling can be stated at all.  The clock is monotone.

**Passkeys.**  One step per transaction, and two for a transaction that selects and
then writes.  `ReadChallenge` and `ClearChallenge` are the two statements of
`_pop_challenge`, around which `finish_enrollment` (`StartEnrollment`, `Enroll`) and
`finish_login` (`StartLogin`, `Lookup`, `Login`) are cut.  Either finds whatever challenge
the session has, whoever made it: `finish_login` takes one of `begin_enrollment`, in a
session of any kind, as the code does.  `BeginEnrollment` has loaded its session earlier,
so its address may be one that a login has changed since (`AddressesOf`).  WebAuthn is one fact: an
answer verifies when it was made for the challenge the call was handed, and, for a
login, when its counter is above the stored one the call has read.  A passkey is
named by the challenge it was enrolled with, so one challenge is answered by one
authenticator; its counter starts at 0 and counts each assertion (authenticators that
always report 0 have no counter to speak of).  `Enroll` is one step although it
selects the user first: the unique address and the foreign key make every other
interleaving fail as a whole.  Left out: the expiry of links and sessions, disabled
users and logout, all of which only refuse.  `delete_credential` is called by no route
yet; it is modelled because its promise is a promise of the service.

**Pipeline.**  A decision is one step: after `authenticate` nothing awaits until the
tools.  The verdict on a token is either, at once (a live cache entry) or after a
lookup that may raise; `AuthCache` says when it is which.  The two counters are the
modules of their own, by `INSTANCE`.  `Compose` counts the mail and hands it to the
provider, `Mailed` is its answer: taken, refused (`EmailSendError`), or unreachable,
where the error of the HTTP client passes through although `email.py:25` says it would
be an `EmailSendError` too.  A worker that is replaced loses its counters and its
requests.

**Tools.**  A tool is its plan, a sequence of argument checks and reads in the order of
its body.  A read finds its page in the storage or asks for it; calls interleave
between steps.  A page is sound, of a shape a parser refuses, or JSON with an entry
that lacks a key (`odd`).  The first is what the tool goes on with, the second is
stored before it is refused (the dividends only when the rights have been read, `PutOff`), the third raises a `KeyError`, which `reply` does not
catch.  `Listing` is PSE Edge's prefix search.  The memo keeps a disclosure's whole
list of attachments, the cap is applied to what it returns.  Freshness is left to
`FreezeCache` and `ReadPath`: the calls of a behaviour fall in one window.

**Parsers.**  A page is what the selectors and patterns find in it, in document order:
headers and cells, list entries and their handlers, headings, paragraphs, tables.
A text, a number or a date is a value, equal to itself only.  A parser is one
function from a page to what it returns or `Changed`.  Lists nested in lists on the
homepage are left out.

**Runs of several modules.**  `MCWindows` (calendar, quotas, limiter, outbound client,
canary), `MCBrowser` (token endpoint, pages), `MCAccounts` (machine clients, passkeys),
`MCReads` (reads, usage recorder), `MCRequests` (pipeline, tools, parsers) and
`MCFreezePromises` (three instances of `FreezeCache`) check modules that share no state in
one run: a behaviour is about one of them, chosen at the start.  `Windows`, `SignIn`,
`Accounts`, `Reads` and `Worker` put such modules beside each other without a bound of a
run, so that one module of proofs and one run speak of the same definitions.  In `MCAccounts` and
`MCReads` the subject also says which of the calls act: the constants hold the calls of
all subjects, and a call of another subject never begins.

## 3. Runs

| run | states the question | bounds | fairness |
|---|---|---|---|
| `freeze_price` | safety of concurrent reads of a price | 3 calls, 1 process, 2 trading days of 3 ticks, failures and cancellations everywhere | — |
| `freeze_promises` | is every call answered; does the cache implement `UpstreamBudget` | 3 calls of one page, cancellations and failures everywhere, 1 tick; then 2 calls of a daily page or of an immutable filing, 4 ticks | each begun call's own steps, for the first question |
| `freeze_snapshot` | *(violation)* is session data never settled | as `freeze_price`, no failures | — |
| `auth` | the revocation budget, expiry, no false refusal, the LRU | 2 tokens, 2 requests, room for 1, TTL 2, 4 ticks | — |
| `oauth` | codes, rotation, reuse, purge, erasure; do forms act for their pages | 1 user, 2 clients, 1 flow, 4 token-endpoint calls, 4 ticks; pages: 2 tabs, 1 flow, an operator signed in and a second account; 1 login and 5 steps of the tabs, or 1 invitation and 6 | — |
| `oauth_sign_out` | *(violation)* does sign-out last | as `oauth` | — |
| `reads` | answers, the memo's bound and the archive; conservation of usage counts | 2 price histories on 2 processes; 3 disclosure searches on 2; 3 readers of two projections; dividends and rights twice; a memo of 1, 4 pages, 3 ticks before, in and after a session; one departure (a call left, a flight cut off, a process dead), at the reads that are archived, or over the homepage a process dead; usage: 2 workers, 2 users, 2 days | — |
| `usage_shutdown` | *(violation)* does shutdown lose nothing | 1 worker, 1 user | — |
| `accounts` | is revocation final; challenges, passkeys, sessions and erasure | 1 machine client, 5 interleaved tasks; passkeys from an empty database (2 links, 3 calls; 1 link, 4 calls), and from two accounts with a passkey each (1 login, 3 calls, one further enrollment, no removals, each answer in the session its challenge is of) | — |
| `account_erasure` | *(violation)* does erasure forget the address | 1 address, 1 link | — |
| `requests` | whose allowance and mail budget is spent; what a malformed call costs; is the answer what was asked for; do the parsers keep labels, and every row that has its mark | pipeline: 3 requests, 2 users, one of them with 2 tokens, quotas of 1 a minute and 2 a day and the reverse, 1 mail a day, 1 worker replaced; tools: 2 calls of any tool with any of the arguments of `RequestSamples`; parsers: every page of at most 3 columns and 2 rows, or 4 elements in order | — |
| `windows` | the calendar functions against set-based definitions; ceilings, refusals and retry hints; is the way out paced | every tick of two weeks, 64 holiday tables; 3 users in a table of 2 over 2 days; 2 hosts and 2 client ids, one of which is the address of a host, in a table of 2; 3 outbound calls, 1 token, 2 attempts; canary: 5 families, 6 pages, 2 changes | — |

Why the bounds are enough.  *Time*: a day of three ticks has every kind of
instant the calendar tells apart, and two days give an overnight window and both
of its boundaries; the token runs let a token be issued, cached, die and outlive
the TTL by one tick; in `reads` the company and its quote are looked up before the open,
and time passes at the reads that follow.  *Calls*: a leader, a follower, and a call that comes after
or before both; a refresh, the refresh that races it, the replay that follows
and the exchange they descend from.  *Tables*: one place fewer than users or
tokens, so every insertion at the limit evicts.  *Ceremonies*: two enrollments and
two removals, or two logins in one session and an enrollment beside or after them; starting
from two enrolled accounts gives the calls to the races.  *Departures*: one is enough
to leave a page out of the archive, and keeps the run within minutes; the theorem has any
number.  *Pages*: a form goes astray when
another tab replaces the cookie between its page and its sending; that takes a page, a
sign-in of three requests in the other tab, and the form, which is within the steps.  *Processes*: two where the
property is about several.  *Arguments*: a window may be ordered, reversed, of one day,
open at either end, malformed, or begin before the first date; a symbol is a prefix of
another one that is listed before it.  *Elements*: a fact goes astray at the boundary of
two headings, which takes two headings and an element on either side; a column goes
astray with two columns of which one is unknown.

`CHECK_DEADLOCK FALSE` stands in the configurations whose calls are each made at
most once and whose clock stops, so the model really ends; `FreezeCache` has
`Settled` and `UsageRecorder` its final states instead.

Bounds that are not in the code: `Horizon`, `LastTick`, `LastDay` (the clock),
`MaxCount` (requests recorded in all), `MaxFetches` (pages sent in all), `MaxCeremonies`, `MaxSteps` (pages
opened and requests sent by the tabs), `MaxBirths`, `MaxChanges`, `MaxEvictions`, `MaxAttempts`, `MaxDeaths` (workers replaced), `MostFiles`
(attachments of a disclosure), and that each call,
token, flow or task happens at most once.

**Fairness.**  Only the callers of `freeze_promises` need any: weak fairness of the steps a
begun call takes.  The event loop runs every ready call, the client's timeouts and
its bounded attempts end every fetch, and the database answers or fails.  Nothing
makes a client call or leave, and nothing makes the clock move.

## 4. What the runs show

All properties of the passing runs hold.  In words: one leader per key and
process whatever fails or is cancelled; nobody waits on a future nobody settles;
`as_of` never goes back for a reader in one process; a key once served is never
"unavailable"; an answer without a stale mark was within its window when the call that
obtained it began, which for a call that joined a flight is the flight's leader and not
the call itself (`StaleMarksExpiredData`, below); with one process, a
working storage and no leader cancelled mid-fetch, PSE Edge gets one request per
key and window.  A token that died is honoured only by requests that began within
the TTL; a code mints at most once; a rotated pair is dead for every refresh that
could see it; a cut family stays cut; a machine client whose revocation returned
is powerless, although one more token may be minted; every usage count is in one
place.  An answer is the projection it claims of the page it names, whichever process
fetched that page and whatever the memo forgot; a page of bars or disclosures that answers
a call is in the archive or on its way there, unless somebody it was fetched for did not
write it: it was cancelled, its process died, its write failed, or its flight was cut off
after the page had been stored.  Such a page may stay out of the archive for good, for
whoever reads it later finds it in the cache.  The token bucket never lets
calls through faster than its rate, whoever sleeps on its lock or leaves the queue.  A cleared challenge is handed to nobody; passkeys and sessions name the
account they were proved for, except in a session that a login has moved to another address
(by answering its challenge with another account's passkey); an account loses its last passkey only to two
removals that overlap.  A form acts for the account its page shows, whatever other tabs
signed in, enrolled or erased in between.  What is broken throughout a pass of the
canary is noticed and mailed, with one exception, in the table below.  The tokens of a
user share one allowance: no more of their requests reach the tools in a minute or a day
than the user may have, one is refused only when so many have, a refused token spends
nothing, and the usage counts say which were refused; the same holds of the user's mails,
failed ones included, within a process.  A tool call that ends for its arguments has asked
PSE Edge for nothing, but for the symbol lookup of `search_disclosures`; an answer is
about the company whose symbol was asked for, and lists attachments up to its own cap.
Parsers file everything under its own heading, whatever the order of the columns.  A
disclosure search gives every row that has its `openPopup` handler or fails; a row that
lost it is dropped without a word beside one that has it (`NoRowIsDropped`, below).  Key
rates and bars are read whole or refused, quotes and documents are of those their page
offers.  Of
dividends and rights, what is reported is marked stale when a half of it is, or says
itself that it has run out.

Where a document says more than the code does, the run or configuration is a
violation.  Four are runs of the project:

- `freeze_snapshot`. `service.py:13` says a mid-session snapshot is never
  presented as settled. `fetched_at` is read after the fetch (`service.py:149`): a
  fetch that straddles the close is stamped after it.
- `oauth_sign_out`. The account page says revoking signs a client out within a
  minute. A refresh that has rotated but not minted inserts its pair after the
  sign-out (`oauth.py:719`).
- `usage_shutdown`. `usage.py` says shutdown loses nothing. `stop` cancels a loop
  whose flush has already emptied the buffer.
- `account_erasure`. The page after an erasure says "Nothing identifying you remains."
  (`auth_app.py:896`). `erase` deletes by user id; `email_verifications` keeps the
  address in plain text, and nothing in the program ever deletes from it.

The others are definitions beside the properties.  Each gives a counterexample when
it takes the place of the properties of the configuration named with it
(`PriceNeverRefetchedInSession` and `StoredCounterNeverGoesBack` as a `PROPERTY`, the
rest as an `INVARIANT`):

| definition | configuration | the sentence | what happens |
|---|---|---|---|
| `PriceNeverRefetchedInSession` | `MCFreezePrice` | `service.py:10`, with an expired price and the market open "serve STALE (flagged; never fetch)" | a call that began before the open fetches after it |
| `OneFetchPerBoundary` | `MCFreezeTwoProcesses` | `server.py:198`, one upstream fetch per boundary "no matter how many processes run" | single flight and re-check are per process |
| `ReadsNeverGoBack` | `MCFreezeTwoProcesses` | `storage_postgres.py:43`, an upsert is enough for two writers | the later upsert may carry the older entry |
| `FollowersReceiveTheResult` | `MCFreezePrice` | `service.py:159`, every simultaneous caller receives the same result | one caller's cancellation ends all that share its flight |
| `StaleMarksExpiredData` | `MCFreezePrice` | `models.py:29`, on what `stale` means | a follower is served a result that expired while it waited, unmarked |
| `OneLivePairPerFamily` | `MCOAuthSignOut` | `accounts.py:93`, one live pair per family | two refreshes of one token both rotate before either mints |
| `CrashLosesOneInterval` | `MCUsageCrash` | `usage.py:14`, a crash loses at most one flush interval | a slow write and the next interval are lost together |
| `RevokedClientHasNoLiveToken` | `MCAccounts` | `docs/walkthrough.md:759`, a revoked machine client cannot mint even one more token | check and insert are two transactions (the token is refused by `authenticate` all the same) |
| `ClientKeepsItsUser` | `MCAccounts` | `admin.py:173`, erasing a service account would leave a dangling client | the check and the erasure are two transactions |
| `AccountKeepsAPasskey` | `MCAccounts` | `passkeys.py:421`, refusing to remove the last passkey | count and delete are two statements |
| `StoredCounterNeverGoesBack` | `MCAccounts` | `passkeys.py:21`, the counter is persisted so that one that fails to advance is seen | two logins compare with the same row, and the smaller counter is written last |
| `SessionIsOnePersons` | `MCAccounts` | `passkeys.py:17`, "A session's `kind` is the authority on what it may do next" | `finish_login` asks for no kind and takes a challenge of `begin_enrollment`: an enrollment and a login that both read one challenge leave a session with the user of the one and the address of the other |
| `ArchivedBarsAreSettled` | `MCReads` | `archive_postgres.py:50`, "A closed bar is immutable", so the first sighting is kept | a range first read during a session archives that day's unfinished bar, and the settled one is ignored for ever |
| `EarliestSightingIsKept` | `MCReads` | `archive_postgres.py:50`, "the earliest sighting of each bar is preserved" | of two processes that both fetched, the later fetch is written first, and is the row that stays |
| `StaleHalfIsFlagged` | `MCReads` | `repositories.py:577`, the older half's metadata "so freshness is never overstated" | a close falls between the two reads: the newer half is served stale in an outage, and the metadata of the older one, read before the close, is not marked (its `valid_until` has passed, which `AnswerIsOfItsPage` checks) |
| `RequestsArePaced` | `MCWindows` | `docs/walkthrough.md:196`, the throttle limits outbound requests | the bucket is asked once per call, and the retries go past it |
| `OneHostExhaustsNoOther` | `MCWindows` | `ratelimit.py:90`, on separate budgets | one host may spend the client key another host needs |
| `EveryFamilyIsChecked` | `MCWindows` | `docs/deploy.md:110`, the canary "runs one check per endpoint family every night" | a quote page that still validates but names no security id: the price history is not asked for, and the pass ends well |
| `MalformedCostsNothing` | `MCRequests` | `validation.py:7`, a malformed argument "never costs PSE Edge a request" | `search_disclosures` looks its symbol up before it looks at its dates |
| `DriftHasACode` | `MCRequests` | `README.md:149` of the repository, "any shape drift raises `EndpointChangedError`" | an entry of a JSON answer without one of its keys raises a `KeyError`, after the page has been stored |
| `DriftIsLoud` | `MCRequests` | the same line, "loud, never partial" | the tables of dividends and rights take any row of another width for the placeholder |
| `NoRowIsDropped` | `MCRequests` | the same line, "loud, never partial" | a row of a disclosure search that has lost its `openPopup` handler is taken for the placeholder; only when none is left does a claimed total betray it |
| `HitsKeepTheirFacts` | `MCRequests` | the same line | what is said of a keyword hit that has lost its handler is added to the hit before it |
| `DailyMailLimit` | `MCRequests` | `server.py:672`, "20 messages per user per day" | the count is a worker's: another worker, or its successor, starts again |

## 5. What is proved

For every number of keys, calls, processes, tokens, tabs, links, users and requests, every
calendar that has a trading day in reach, every TTL, limit, window and table bound.
Assumptions are the `ASSUME`s of the modules and nothing else; TLC evaluates them in the
runs.  A module that another one instantiates has a `Parameters` in place of an `ASSUME`,
and the module that instantiates it assumes that: `Windows` those of the limiter, the
client and the canary, `Accounts` of `Passkeys`, `SignIn` of `AuthApp`, `Reads` of
`UsageRecorder`, `Worker` of `Tools` and `Parsers`.  They say that sets which are counted
are finite, that periods are positive, and that `None` is not a value of anything else;
the bounds of the runs are naturals and never small.  Of the tools they say that a tool
which takes a symbol is given one, or `None` where its signature has a default, and that
the autocomplete answers with a sequence; of the pages, that rows, cells and elements are
sequences (`WellFormed`), of any length and holding anything.

- `FreezeCacheProofs`, in three parts.
  - The calendar: `NextCloseIsLater`, `NextCloseIsFirst`, `WindowIsShared`.  `NextClose`
    is a `CHOOSE` of a least day, so the argument is a well-ordering one: a non-empty set
    of naturals bounded by the walk has a least element (`LeastNat`), and closes are
    ordered as their days.
  - Safety of a read.  `TypeCorrect`: `TypeOK` with `DraftOK`: a leader past the fetch
    holds an entry.  `SingleFlight`: inductive given the types; the one delicate step is
    the landing, which removes the flight and everyone aboard at once.
    `OutageHidesNothing` speaks of answers only, so it is strengthened with what an answer
    leaves behind: once a key has been answered with an entry the storage holds one, every
    call that began later and has read holds one, and a call that is about to serve a
    fetched entry has one in hand.
  - Promises.  `FreshToItsObtainerUnlessMarked`: what a call holds to be fresh was fresh
    when it began, and what it stores was fetched after that (`Timely`); a call that joined
    a flight gets what its leader got (`Joined`), and no test of freshness of its own.  With
    the caller's own beginning in place of the leader's the statement is false
    (`StaleMarksExpiredData`): the entry of a flight that is about to land is stamped
    already, and a boundary may pass before the next caller joins.
    `NeverBack`, under `OneProcess`: the storage is never older than what a call has been
    answered with, nor than what a call that began later has found (`Forward`).  Only the
    leader of a key's flight stores, and it has looked again after it took the flight.
    With two processes the statement is false (`ReadsNeverGoBack` under
    `MCFreezeTwoProcesses.cfg`).
    `BudgetIsKept`, under `Undisturbed` (one process, a storage that works, no leader
    that is cancelled mid-fetch): every step is one of `UpstreamBudget` or leaves its
    variables alone.  A request is made by a leader who has looked again and found nothing
    fresh; so the last request for its key, if it has been stored, fell into an earlier
    window (`Thrifty`), and if it has not, its leader would still hold the key.
- `AuthCacheProofs`
  - `LatencyIsBounded`, `ExpiryIsFinal`, `FreshIsAccepted`, from one inductive invariant.
    A row is faithful to what happened to its token (`Faithful`); a cached validity ends
    within TTL of the token's death, past or to come, and by its expiry (`CacheBounded`);
    what a request looked up may be old, but it was true no earlier than the request's own
    `now` (`Informed`).  The properties follow per request (`Answered`).
  - `TypeCorrect`, which says that the cache and its order stay one dictionary within
    `max_cache_entries`: every operation takes a key out of the order and may put it at
    the end (`TakenOut`, `MovedToken`), and one eviction suffices because one key came.
- `SignInProofs`, in two parts.
  - The token endpoint: `OneMintPerCode`, `RotationRetires`, `RowsAreTheUsers`,
    `CutFamilyStaysCut`, for any interleaving of its transactions.  What a call carries at
    each of its points is of its family (`Staged`); only a call that has minted has rows
    of its own (`Minted`); a code that a call has passed is consumed for good
    (`Consumed`); and a call that has rotated has left nothing alive of the pairs it saw
    (`Retired`).  A dead family stays dead because nobody mints into a family without
    having read a live token of it in an earlier step.
  - The pages: `FormsAct`, an action property.  Its invariant (`BrowserInv`) follows a
    session through everything that may speak of it: the row, the cookie, a request that
    has loaded it, a page shown or on its way.  A session is of one account and of none
    before it is authenticated (`Owners`); what a handler has loaded of its session is
    still true of it unless the session is gone (`Loaded`), although other tabs act in
    between; a cookie reaches the browser once, and opens a session nobody has used
    (`Cookies`); and a tab that may answer a login prompt was asked for a login
    (`Ceremonies`), without which an answer meant for one account could authenticate a
    session of another.  Every handler is shown to be a `Turn`: rows fade, or one row
    moves in one of four ways.  A form made in the session it is sent in then shows that
    session's account (`FormShowsMe`).
  - `SignInTypes`, of both.
- `AccountsProofs`, in two parts.
  - Passkeys: `ChallengesAreSpent`, `RowsAreTheirUsers`, `LastPasskeyFalls`, from one
    invariant.  A challenge lives in its own session until it is cleared, and what a call
    was handed is cleared before it goes on (`Spent`); rows, and what a call in the middle
    of a ceremony has read, are of an address proven in the session they came from
    (`Proven`), where a link proves one address and each login another; so unless a login
    has moved a session from one address to another (`Readdressed`) there is one only, and
    what an enrollment answers was begun for it (`Offered`); a removal that is
    under way leaves a passkey behind or overlaps one that has removed another
    (`Removals`).  That the counter of an authenticator is bounded by the calls is part of
    the types, and a count of the calls that began (`Begun`).
  - Machine clients: `RevocationIsFinal`.  A revocation that has reported has disabled the
    client's user, and no command enables one again; a token of the client is of that
    user, and usable only while the user is enabled.  The invariant adds which client a
    user belongs to (`Provisioning`), what a revocation has done at each of its points
    (`Revocation`), whose a token is (`TokensHaveUsers`).
  - `AccountsTypes`, of both.
- `ReadsProofs`, in two parts.
  - Usage: `CountsAreSomewhere`.  Per bucket, what was recorded is what is stored, removed,
    buffered, being written or lost (`Balanced`).  Two of these are sums, over recorders
    and over causes; a sum is shown to be the number of dots of a bar chart
    (`SumIsDots`), so that a step which changes one summand changes the sum by as much
    (`SumsDiffer`) follows from cardinalities.
  - Reads: `AnswersAreOfTheirPage`, `FetchedPagesAreArchived`, and `ReadTypes`, which has the memo's bound.  A note of the memo is of the page its key
    names (`Notes`), and one per key (`Distinct`); where a call stands says how much it has
    read (`Placed`); pages are numbered in the order of their fetches (`Ordered`), and
    what was served stale was past its time (`Truthful`).  For the archive: a page that is
    in the cache or with a call is recorded, or somebody it was fetched for is on the way
    with it, or is one of those that did not write it (`NothingForgotten`, over `unwritten`):
    a follower may answer before the archive has the page, but it holds nothing that nobody
    will record.  A call that is cancelled owes what it carries (`OwedBy`); of a flight that
    is cut off nobody carries anything, and the page is excused as it is stored (`Abandon`).
- `QuotaTrackerProofs`: `QuotasAreExact`, `HintsAreHonest`, for any limits and any windows
  of which the minute divides the day.  Per user: no kept counter is of a window to come
  (`Kept`); what was admitted is what the table counts, up to one limit for each eviction
  (`Accounted`); a refusal lasts no longer than a window that is spent (`Told`), and no
  shorter than what the kept counters would refuse (`Hinted`).  The division is settled in
  five lemmas about multiples.  The order of the table plays no part here: it is in
  `WindowsTypes`.
- `WindowsProofs`
  - `ThrottlePaces`, for any rate, burst and number of calls and of attempts.  Since any
    admission the bucket has been given no more than a burst and the time that passed
    (`Drained`); a call makes attempts only once it has been let through, and no more than
    its share (`Entitled`), so that the attempts made fit into the calls let through times
    `retry_attempts` (`CallsCounted`, by cardinality).
  - `SpentBudgetsRefuse`, of the token endpoint's limiter.  A table has counted the
    attempts that carried a key in this window, but for what it forgot with the keys that
    were evicted in it (`HasCounted`); an attempt from an address that is also the client
    id it names is counted twice under one key, which the two steps of `CountAll` give.
  - `BrokenPagesAreNoticed`, of the canary: as long as nothing has failed, what was broken
    all along is still before the pass (`CanaryInv`), or is the page it does not ask for
    when a quote page names no security.
  - `WindowsTypes`, of the two counters, the bucket and the canary.  Most of it is that a
    table and its order stay one ordered dictionary within its bound, whoever is seen,
    moved to the end or evicted: five lemmas about sequences without duplicates
    (`TakenOut`, `OneOut`, `OldestOut`, `NewLast`, `SeenLast`), which also say that calls
    stand in the line of the bucket exactly while they acquire, and once, though they
    leave it from wherever they stand.
- `WorkerProofs`, in three parts.
  - The tools: `MalformedArgumentsCostOneLookup`, `AnswersAreOfWhatWasAsked`.  A lemma
    about plans (`PlanShape`) says of every tool and every argument that all checks come
    before all reads, or that the tool is `search_disclosures` and the reads before a check
    are lookups.  The invariant (`ToolsInvariant`) ties a call to its plan: what it asked
    for it asked for at a step it has reached (`Reached`), and a call that ended for its
    arguments stands at the check that failed (`Stopped`), so that nothing but a lookup
    can lie before it.  For the answers: the company of a call is one the listing has under
    the symbol it was given (`OfItsSymbol`), which `Match` gives at its step and every later
    step keeps; what is stored is a page of its key, and what the memo keeps of a
    disclosure is the whole of the stored one (`Stored`, `Remembered`), without which the
    cap of an earlier call could shorten the answer to a later one; a cap is known to be in
    range by the time it is applied (`Shown`).
  - The parsers: `RecognisedIsAlwaysKept`, `ReorderedColumns`, `ContentStaysUnderItsLabel`.  A
    parser is one step, so the invariant only says whose result an answer is; the work is
    in what its fold over the page is.  `FoldLeft` is a `CHOOSE` over functions on sets of
    places: `FoldExists` shows that there is such a function and `FoldValues` that it is
    the step taken along the prefixes of the page, both from the least place at which it
    would fail (`LeastNat`), since no rule of induction can be cited.  For each parser a
    few lemmas then carry a statement along the prefixes: the rows read so far are those
    with a handler (`DisclosureTable`), the last entry is the one the texts below it are
    added to (`KeywordResults`), a section has the first period line and the last units
    line since its heading (`FinancialReports`), the label in force is that of the last
    heading and a feed holds what the lists below its headings held (`FeedsOf`).  The
    property says the same without any order of reading, by sets of places (`Below`,
    `Ordered`, `Joined`), and each lemma shows that one more element changes both alike.
    For reordered columns, the cells of a row are written by two orders, and a field has one
    column, so that each field is written at most once by either.
  - The pipeline: `AllowanceIsOfTheUser`, `MailBudgetIsKept`.  The invariant of
    `QuotaTrackerProofs` is used over the steps of the pipeline (`Counters`,
    `CountersStep`); what it says of its own histories becomes a statement about requests
    because those histories are the cardinalities of the sets of requests decided in a
    window (`Tallied`).  A worker that dies forgets one limit (`CountersDie`).  For the
    mail, the table counts what was posted today since the worker began, up to the limit
    (`Budgeted`).

Only model-checked:

- liveness (`EveryCallIsAnswered`), which with everything about `ENABLED` is outside this
  prover's reach, and the instances of `KeepsBudget` that `freeze_promises` runs (the
  theorem is `BudgetIsKept`);
- `WindowEndsAtItsClose`, which relates the functions of the calendar to definitions by
  sets (the theorems about the calendar state its halves);
- what is named as false in section 4, of course, and the reads of several processes.

No property speaks of what `StatementTable` and `LabelPairs` make of their rows.

Two habits of the models come of the proofs.  `SelectSeq`, `:>` and `@@` have no meaning to
the provers, so what a theorem has to look into is written with a fold or a function; what is
folded has a name (`DisclosureRows`, `Present`, `Joined`), so that a lemma can be about it.
`WorkerProofs` is the longest of the proofs: a quarter of an hour from nothing.

## 6. Not modelled

The models' field validation, formatting, the text of HTML and mails, logging and
configuration: pure functions and I/O whose content no property here is about.  The health
endpoints and the host checks, which change nothing.  The prompts, which are constant
texts.  Client registration, the metadata documents, the static pages and the signup form
of the browser application.  `expire_all` of the storage: an operator's tool, used by no
request.  That the stored sign counter of a passkey never goes back is stated and false
(`StoredCounterNeverGoesBack`, in the table above), so no passing property covers it.

## 7. Plan

Done: 1. calendar and freeze cache, with proofs; 2. authentication cache, with
proofs; 3. OAuth, machine clients; 4. usage; 5. the counters; 6. passkeys; 7. the read
path and the outbound client; 8. the pages of the browser application, the canary; 9. the
request pipeline with mail, the tools, the parsers; 10. the promises of the freeze cache
and the finality of a revocation, the token endpoint, the quotas and the throttle, proved;
11. the passkeys, the pages, the reads and their archive, the usage counts, the pipeline,
the limiter and the canary, proved, with their types; 12. the tools and the parsers,
proved.

Next, in this order:

13. Client registration and the signup form, as the states a flow and a link start from.

# Watchnews in TLA+

Specifications of the program in this repository: a JavaScript monorepo with a web
process (`apps/web`), a worker process (`apps/worker`) and the packages they share.
PostgreSQL holds the state, BullMQ on Redis runs the background work, a few registries
live in the memory of the web process, and a page in a browser keeps some state of its
own. The specifications cover the parts whose correctness depends on the order in which
things happen. They are checked with TLC on small instances, and the safety of the parts
that handle notifications, money, streams, accounts and secrets is proved with TLAPS for
every value of the constants.

Contents: [inventory](#inventory) · [modules](#modules-and-how-they-map-to-the-code) ·
[runs](#runs) · [bounds](#bounds-and-why-they-are-enough) · [fairness](#fairness) ·
[proofs](#what-is-proved) · [only model-checked](#what-is-only-model-checked) ·
[disagreements](#where-the-code-and-its-words-disagree) ·
[not modelled](#what-is-not-modelled) · [plan](#plan)

## Inventory

| part | state | who acts | what is hard | correct when |
|---|---|---|---|---|
| reminders (`queue`, `notify`, part of `db`) | `follows`, `reminder_prefs`, `push_subscriptions`, `reminder_deliveries`, two queues | the scan of every minute, fan-out and batch jobs, readers, syncs | a job is executed more than once, also by two workers at a time; a provider may accept a message and answer too late | nobody is told twice, the ledger is true, a steady follower is on a page, nothing falls between two scans, batches end |
| in-page player, server side (`playlists/proxy.js`, routes) | registry of open streams per account, setting and panel's answer per list | stream routes, probes, aborts, cancels | every exit gives its slot back once; eviction runs inside another request | each connection is counted, no slot is held by nothing, a claim fits the allowance |
| payments, memberships, passes (`payments`, `live`, routes) | `payments`, `memberships`, `live_passes`, `entitlements`, `stream_offers`, commissions | CoinPay's webhook, any number of times, in any order | READ COMMITTED, duplicates at once, the last seat | one payment buys one thing once, nothing unpaid, nothing oversold |
| live passes (`live`) | `provider_lines`, the managed list, the reseller's line | the webhook's and the button's `ensureLine`, cleanup | five steps that fail, stop, or run twice at once | one line and one managed list beside the reader's own; a lapsed one goes |
| channel lists (`playlists`, settings) | `user_playlists`, channels, hashes | imports, refreshes, edits, the poller | an import ends after the address changed or the list went | hash and address are those of the channels |
| sharing (`db`, settings) | audiences, named grants, order of lists | forms beside each other | a form names what has been replaced | a form opens one line, and none that came with a pass |
| sign-in (`auth`, `coinpay-signin`) | links, accounts, identities, claims, password log | callbacks and links opened twice, crashes between statements | one link, one account, one bonus | nothing is spent or born twice; nobody loses the way in |
| throttles (`auth-throttle`, `password`, invite mail) | failures in memory, login attempts, sends | requests at once | counting before recording | bounded guesses and mails; a lock lasts |
| credit codes and invites (`credits`) | codes, invites, terms | claims and grants as two statements | a retry after half | scarce things are spent once, for something |
| people (`db`, routes) | handles, follows, blocks, messages, comments | requests that passed the gate before a block | read, count and mark apart from each other | both sides agree; what a page says is there |
| follows (`app.js`, browser) | `follows`, the tabs that show them | buttons, forms for all leagues, sessions that end | answers in another order | the button says what is followed |
| vault (`auth/vault*`) | values under two keys, owners, unlocked keys | the site's writes during a migration | a value read under the old key and written after | nothing is lost, nothing stays behind |
| radio (`radio`) | sealed session, bearer, jar, tune addresses, shared bytes | callers that join a load, forms, expiry, listeners of a shared line | a bearer of a replaced session | row and memory hold the session asked for; a line answers under its owner |
| sports sync (`sports`, `queue`) | leagues, fixtures, odds archive, play logs | sweep, near pass, live tick, boot, deployment | answers applied out of order | no later answer takes away what is known; a finished game is read after its end |
| tennis (`sports/livetennis`) | the day's allowance, snapshots, tape | the tours, deployments | what the provider counts and what the process counts | the allowance holds |
| brand catalogues (`sports/*`) | leagues, teams, edges, events of a brand | one sweep over adapters | a row refused for another's sake | nobody's row is in the way; what is fresh is whole |
| schedule pages (`app.js`) | what is asked, three caches | requests, Redis, edges, browsers | questions answered at different moments | a kept page is nobody's and agrees with itself |
| channel matching (`sports/broadcasters`, `m3u`, probes) | rows of lists, verdicts, markers | imports, probes | names that look alike | what carries a game is asked for and found |
| public channels (`watch` routes, `hls`) | directory, its cache, what a player was told | tabs, redirects, timers | an address that moves; a name looked up twice | every hop is judged before it is connected to; streams are not cut |
| pages in the browser (`public/app.js`) | shown page, players, sweeps, switch | clicks, navigations, answers | closures that outlive their markup | the newest page is shown and can be stopped |

Components interact through the tables (each statement is atomic), through the queues
(ids are deterministic), through HTTP (answers are late, lost or repeated) and, within
one process, through registries that are read before an await and used after it.

## Modules and how they map to the code

An action is the code between two awaits (or two statements of a transaction) of one
handler, or one thing the outside does. The locals of a handler that survive an await
are the fields of its record: `bw[w]`, `fw[w]`, `req[s]`, `handler[h]`, `job[j]`.
History variables, which no guard reads, are marked in the modules. Operators named
`Bug...` are mistaken versions of the definition beside them; they are in no
specification and serve to see that a property can fail.

| module | models | state and actions |
|---|---|---|
| `JobQueue` | BullMQ as the pipeline relies on it | operators on a job table, with three lemmas about them |
| `Fanout` | `runScan`, `runFanout`, follows, syncs | `fo`, `bt` (queues), `fw` (locals of `runFanout`), `followers`, `now`; one action per await |
| `Delivery` | `runBatch`, the claim, the senders' outcomes | `bt`, `bw` (locals), `claims` (`reminder_deliveries`), `prefs`, `devices`; `Throw`, `Die`, `LoseLock` cut in anywhere |
| `ReminderPromise` | the abstract life of one row: open, held, then told, failed or lost | `fate` |
| `Reminders` | `Fanout` and `Delivery` composed | they share `bt` and the preferences |
| `StreamSlots` | slot registry, `openStream`, routes and probes of one account | `slots`, `req` (a handler per request), `probe`, `line` |
| `Settlement` | checkout, CoinPay, webhook transactions with their grants | `coin`, `row`, `terms`, `seats`, `sold`, `commissions`, `handler` |
| `LivePass` | `ensureLine`, `reconcileLapsed`, reseller calls | `pass`, `lines`, `list`, `run`, `edit`; `EnsureStep` is one statement or call |
| `Playlists` | import, refresh, poller, edits of lists | `list`, `job`, `file`; `ImportStep` |
| `Sharing` | audiences, named grants, forms | `row`, `order`, `grant`, `form` |
| `SignIn` | magic links, first sign-in, bonuses, codes | `link`, `accounts`, `claim`, `scarce`, `terms`, `handler` |
| `CoinpayIdentity` | `resolveCoinpayUser`, connect, disconnect | `users`, `identity`, `request` |
| `AuthThrottle`, `PasswordDoor`, `InviteMail` | backoff, password verification, invites by mail | `entry`; `log`; `sends` |
| `Codes` | codes and scarce invites with their grants | `codes`, `invites`, `terms`, `req` |
| `Social` | handles, follows, blocks, messages, comments | `follows`, `blocks`, `messages`, `comments`, `req` |
| `Following` | follow buttons, forms for all leagues, receipts | `follows`, `tabs`, `sent` |
| `Vault` | sealing keys, owners, migration | `held`, `writer`, `sync`, `mig` |
| `RadioSession`, `RadioRelay`, `UpstreamCache` | session refresh; a line heard through the site; shared bytes | `row`, `bearer`, `load`, `form`; `tunes`, `req`, `got`; `cache`, `inFlight` |
| `PlayLog`, `Fixtures`, `Catalogue` | play logs; the rows of a league under sweep and live tick; leagues, passes and boot | `row`, `drawn`, `due`; `rows`, `history`, `job`; `rows`, `waiting`, `pass` |
| `TennisFeed`, `TapeLog` | budget, snapshots and tape gates; the log told from a tape | `spend`, `held`, `reads`, `passes`; `score`, `tape`, `said` |
| `BrandCatalog` | the adapters of the brands that are not sport, and `ingest` | `leagues`, `teams`, `edges`, `events`, `pass` |
| `Schedule` | a page's questions and the caches that may serve it | `rows`, `making`, `redis`, `edge`, `own` |
| `Broadcasters`, `ChannelMatch` | names of listings, terms, ranking; the windowed query, probes and markers | `rows`, `asked`, `offered`; `titles`, `verdict`, `page` |
| `Watch` | directory cache, `fetchPublic`, playlist rewriting, which channels a page shows | `directory`, `cache`, `req`, `got`, `list`, `shown` |
| `PagePlayer`, `PushToggle` | players and navigation of a page; the notification switch | `shown`, `waiting`, `running`, `sweeps`; `permission`, `sub`, `stored`, `tab` |
| `*Proofs` | theorems about the module they extend (`AccountProofs` and `KeepingProofs` about instances in `MCSite`) | |
| `MC*` | sets, symmetries and compositions for TLC | |

Choices a reader should know of:

* **Delivery.** `settle` sends a whole channel before it marks its failures, and email
  starts after push is recorded. `SendFulfilled` and `SendRejected` settle one send;
  `SendRejected` also covers the provider that delivered and answered too late. The branch of
  `runBatch` for an event that does not exist is unreachable, as nothing deletes events.
* **Fanout.** One run of `runScan` is one step: its queries only decide what it adds, and
  an add of a known id is a no-op. Users are numbers because keyset paging needs their
  order; 0 is the all-zero uuid the walk starts from.
* **StreamSlots.** The account is one line of one provider, with one or more lists. `Kept`
  computes what repeated eviction of the oldest leaves. That the server cancels the body of
  a response whose reader has gone is assumed of the Bun runtime.
* **Settlement.** A transaction locks its payment row in `UpdatePayment` if there is one,
  and the offer's row in `ClaimSeat`. What it writes is kept in `handler[h]` and reaches
  the tables in `Commit`: that is READ COMMITTED. `began` is `now()`, fixed when the
  transaction begins.
* **PlayLog.** `edge` is how far the window of `catchupHours` has passed over the kickoffs,
  `touched` whether a row was written in the last ten minutes; both queues ask. `Start` does
  not change: a fixture that is moved is `Fanout`'s and `Fixtures`' subject.
* **Watch.** A hop is two lookups of one name: `Judge` (`assertPublicUrl`) takes one answer,
  `Connect` (`fetch`) another, and `Answers` says which sets of addresses a name may answer
  with. Which addresses `isPrivateIp` lets through is a parameter (`Passing`): the ranges, and
  the textual forms of an address it recognises, are not modelled.
* **Contents are tokens.** A channel file, a password, a sealed value, an address is a
  model value or a small number; a cipher is the key a value was sealed with; a schedule is
  a state and a line. Where a property is about a conversion (names of channels, playlist
  rewriting, a tape's narrative, the keys of rows), the conversion is modelled word by word.
* **Composition.** `Reminders` composes what shares state. The other modules share no
  variable: what the site does, seen through the variables of one module, is a behaviour of
  that module. So `MCSite`, `MCFeeds` and `MCProgress` take a disjoint union: `focus` says
  which module moves, `x1, x2, ...` hold its variables and are 0 beyond them, and a property
  of the module is asked while it is the one that moves. `Fanout`'s and `Delivery`'s own
  variables stay at the start while another moves. Parameters of the instances the proofs
  are about are constants of `MCSite`, so that the theorems hold for all of their values.

## Runs

Every property of a passing run was also seen to fail when one definition of the module is
replaced by its `Bug...` version (`PROJECT.json`, `mutants`).

| run | module and instance | shows |
|---|---|---|
| `delivery_safety` | `MCDelivery`: two workers, two overlapping batch jobs, two faults of any kind or one and a change of mind | `OneHolder`: no row has two holders. `ToldAtMostOnce`. `LedgerIsTrue`: `sent` means told, held, or cut short. `PromiseKept`: the tier implements `ReminderPromise` |
| `reminders_pipeline` | `MCReminders`: two readers; behaviours without a fault, and shorter ones with a fault in either tier | `ToldWereScanned`; `DeliverySpec`: the pipeline is an instance of the delivery tier; `FollowersAttempted`: whoever follows throughout gets a row, unless the fan-out is dropped as late |
| `feeds_safety` | `MCFeeds`: `Fanout` with three users and pages of one, and beside it 22 instances of 13 modules | `SteadyFollowersPaged`, `PagesAreDisjoint`, `NoGap`; `FeedsTypeOK`, `ListsHold`, `LinesHold`, `FixturesHold`, `CatalogueHolds`, `EndIsRead` |
| `streams_safety` | `StreamSlots`: three requests on a line of two, one change of what the panel reports | `ConnectionIsCounted`, `SlotHasHolder`, `AllowanceHolds`, `ViewerTakesNothing` |
| `settlement_safety` | `Settlement`: two checkouts of two buyers for passes and seats, two transactions at once, a rollback, a tick | `OneTermPerPayment`, `GrantsArePaid`, `NotOversold`, `OneSeatPerPayment`, `CommissionIsEarned` |
| `site_safety` | `MCSite`: 22 instances of 15 modules | `SiteTypeOK`, `LimitsHold`, `AccountsHold`, `InvitesHold`, `PeopleHold`, `MoveIsSafe`, `StationHolds`, `BrowserHolds` |
| `server_progress` | `MCProgress`, `ServerSpec` | `BatchesDeliver`, `LeaverFreesSlot`, `FinishedIsClosed`, `LapsedGoes` |
| `browser_progress` | `MCProgress`, `PageSpec` | `RowsAreAnswered`, `ClickEnds`, `ResultIsWritten` |

The comment before each property of `MCSite` and `MCFeeds` names the modules it is about;
the properties it joins stand, with what they say, at the end of those modules.

Runs whose property a comment of the repository states and TLC refutes:

| run | property | the behaviour TLC finds |
|---|---|---|
| `delivery_retry` | `FailedIsRetried` | a send fails, the row is marked failed, the job completes: nothing re-claims the row |
| `fanout_skipped` | `NoFollowerSkipped` | a fan-out is executed again after somebody unfollowed; its new page has the id of the old one and is swallowed, and the walk goes on after it |
| `streams_evicted` | `EvictionEndsConnection` | a sniffed stream no longer listens to its signal; evicting it frees the slot and leaves the connection |
| `settlement_overlap` | `TermsDoNotOverlap` | two payments of one member settle at once; neither insert sees the other's row, both terms start at the same time |

## Bounds, and why they are enough

* `MaxFaults`, `MaxChanges`, `MaxTime`, `MaxInputs`, `MaxAsks` and the like are budgets in
  the guards of faults, of outside changes, of the clock and of requests. One fault is
  enough to have a job executed twice, a second one to disturb the second execution.
* Two workers (transactions, requests, tabs, callers) are what a race needs; three requests
  are needed where a third must evict, or join, while two are on their way.
* Pages of one user make every page full, the boundary case of the walk, and with three
  users there are a first, an inner and a last page. Ids are retained until `Expire`.
* `Fanout` has a scan every unit of time, a slip of one and a lookback of two: the smallest
  lookback `NoGap` is true of; its mutant shows that one less is not enough. The walk is
  past its end before the clock stops.
* `MaxAttempts` is 2 where attempts only have to be several, and the code's 5 where a
  property is about attempts being left.
* `Settlement`'s two payments are two of one buyer or one each of two, of the same or of
  different kinds; of the two seats none, one or both are gone at the start. `OnSale` leaves
  the membership to `settlement_overlap`, as it is granted by the same statement as a pass;
  the theorems cover all three kinds.
* Limits, quotas and caches are one or two, so that they are reached; each time-to-live is
  shorter than the clock, so that it runs out; identifiers of rows outnumber the rows, so
  that a removed one is not met again.
* `PlayLog` has three games of one kickoff in `server_progress`, and two of two kickoffs in
  `feeds_safety`, where a live game that no pass writes for ten minutes is a fault. `Watch` has a
  host whose answer never changes, one that answers anew each time, with nothing, with an
  address that passes or with one that does not, and one that answers with both together.
* `Social` and `Codes` have several small instances, each with the acts that meet each
  other; `Fixtures`, `Schedule`, `Catalogue`, `LivePass`, `TennisFeed` likewise.
* Names of channels and listings are real ones of the repository's tests, cut to the words
  that tell them apart; `Tonight` and `AnyTitle` take one fixture and all titles of up to
  three words.
* Symmetry is used over batch workers, streams, transactions, payments and buyers, and in
  `MCSite` over two tabs, callers or sign-ins (`Interchangeable`); only in runs of safety
  properties. Deadlock is checked except where the clock or a budget
  really runs out (`CHECK_DEADLOCK FALSE` in the .cfg).

## Fairness

Weak fairness throughout, of what runs without anybody's decision. Nothing is assumed of
readers, syncs, arrivals or faults, and faults are finite.

* `Delivery`, `Reminders`: each worker. A worker process that is up executes its job and
  takes new ones; BullMQ hands waiting jobs out.
* `StreamSlots`: the database answers, a connection attempt ends by `CONNECT_TIMEOUT_MS`,
  and the server cancels the body of a response whose reader has gone. Sniffing has no
  fairness: nothing makes a provider send bytes.
* `PlayLog`: the job of every two minutes (`Work`) and the scoreboard pass that writes a
  game's new state; nobody has to write a row that has no news. Time does not wait for them:
  `FinishedIsClosed` excepts a game whose window has passed, as the code does not read it
  again. `LivePass`: the cleanup of the worker's tick (`Select`, `TakeDown`).
* `PagePlayer`: the request of a sweep is answered or fails, a bundle loads or fails.
  `PushToggle`: the steps with a deadline and the painting of the button. Nothing is assumed
  of `unsubscribe()`, of the request of the off branch, or of the routes, so `ClickEnds`
  excepts a handler that has come to one of them. `AbortSignal.timeout` is taken to exist
  (the comment in `postJson` says where it does not) and `isBrave()` to answer. `Fixtures`:
  the live tick, with a provider that is up (`Outages` is FALSE there); the run's comment
  says what may still come between.

## What is proved

The theorems hold for all values of the constants that satisfy the named assumptions of the
module that declares them; TLC evaluates each assumption in the runs. The proofs rest on
`IInv`-like strengthenings, which TLC checked before they were proved.

* **Delivery** (`TypeCorrect`, `RowsHaveOneHolder`, `AtMostOnce`, `LedgerTruth`,
  `KeepsPromise`). `ToldAtMostOnce` is not inductive: a row could be told while another
  execution still has it to send. The invariant that is (`IInv`) joins it with `OneHolder`,
  `LedgerIsTrue` and `HeldIsClaimed`: a row an execution still has to send says `sent` and
  has not been told. The refinement maps every action to `Take`, `Tell`, `Fail`, `Lose` or a
  stutter of `ReminderPromise`.
* **Fanout** (`TypeCorrect`, `NoReminderInTheGap`, `NobodyIsSkipped`, `NobodyIsRepeated`).
  The gap is an argument about the clock: the last scan is at most an interval and a slip
  ago, and every pair that was due by then, with its fixture not moved since, has been
  matched; it assumes `Lookback >= ScanEvery + MaxSlip`, the hypothesis `workers.js` states
  in a comment. The walk is an argument about its order: while a fan-out is executed for the
  first time, what is behind its cursor is on a page, each page ends at the next cursor, and
  a job's id names the cursor its page was read from. So a follower who stays is on a page
  (`NobodyIsSkipped`) and pages of one execution do not meet (`NobodyIsRepeated`).
* **Reminders** (`PipelineIsDelivery`, `PipelineTellsOnce`, `ToldRowsWereScanned`). Every
  step of the fan-out either leaves the batch queue alone or is an `Enqueue` of the delivery
  tier with a non-empty page of users; that needs an invariant about the page a worker has
  in hand. `PipelineTellsOnce` then follows from `AtMostOnce`. For the third, what is told is
  traced back: to a row some batch held, to the page of that batch, to the fan-out that wrote
  it and to the scan that added that.
* **StreamSlots** (`TypeCorrect`, `ConnectionsAreCounted`, `SlotsAreHeld`,
  `AllowanceIsKept`, `ViewersTakeNothing`). `Safe` joins both directions of the relation
  between the registry and the handlers: who still hears its signal has a slot, and a slot
  belongs to a handler that connects, plays or is closing. The allowance needs the order of
  the registry as well (`Ordered`): the Set iterates in the order of insertion, so no two
  streams have the same number of newer ones, and what the loop of `claimStreamSlot` leaves
  maps one to one into `0..max - 2` (`KeptLeaveRoom`, by the pigeonhole principle).
* **Settlement** (`TypeCorrect`, `TermsAreUnique`, `NothingUnpaid`, `OfferHolds`,
  `CommissionsEarned`, `SeatsAreSingle`, `SettledForGood`). `Settles` is an argument about
  two row locks. A transaction that found its payment holds that row, and one that took a
  seat holds the offer's (`Locks`); so what it read of them is still true when it commits
  (`HandlerOK`): no term of its payment has appeared, and there is room for its seat.
  `SeatsAreSingle` adds that an entitlement, once there, stays and answers every repeated
  event. `TypeCorrect` needs that the latest end of a member's terms exists, which is shown
  from the well-foundedness of the naturals (`GreatestExists`).
* **Accounts** (`AccountsAreSingle`: `AccountsHold` of `MCSite`). For `SignIn` the invariant
  says what a request in flight may still write: past the update of its link the link is
  spent and whoever else opened it is still before the update (`LinksSpent`), nobody was told
  an address is new that has an account (`BornOnce`), `created` is only true of the sign-in
  that made the account and both invites are of it (`Credited`), and the days of the scarce
  invite go to its newcomer and its host (`Rewarded`). For `CoinpayIdentity`: what each kind of
  request carries (`CoinpayRoles`), and that no placeholder is left without a way in. For
  `PasswordDoor`: every wrong guess of a window is on record since the last success, or its
  request has yet to record it (`Covered`); so the guesses, with those that were let in and
  have not guessed yet, stay below the limit and one per handler (`LetIn`). The window moves
  with the clock, which is why `Covered` speaks of all times from now on. What a request
  holds, the account had while it ran (`Held`).
* **Credits** (`CreditsAreScarce`: `InvitesHold` of `MCSite`). For the codes: claims are
  bounded (`ClaimsBounded`), a request still carries a claim it made (`ClaimsCarried`), and
  days follow claims (`DaysClaimed`); the bound on the days is a consequence. For the scarce
  invites: a request in flight withdraws its own invite or gives the days of an accepted one
  (`InvitesServed`), nobody else gives the days of the same one (`OneGives`), and the days
  there name an accepted invite and one of its sides (`DaysOfInvites`). The quota is bounded
  by what was charged (`ChargesBounded`), in which an invite accepted while it was being
  withdrawn still counts.
* **People and follows** (`PeopleAgree`: `PeopleHold` of `MCSite`). One invariant serves every
  group of people, as the instance takes the group as a parameter. A request that a block
  stood against is at its gate still, or makes a block or a comment (`Barred`); what was sent
  of late and the requests past the count stay below the limit and one per handler (`Paced`);
  and a request that reads a conversation has in hand, until time passes, all that was there
  when it came, shown or counted as older (`Whole`): messages only grow and are only marked
  (`Grown`). That counts and links agree needs no invariant but the types. For follows: a
  button with a press under way still says what it said, and what is so is what the press
  made of it (`Truthful`), which with no press under way is `ButtonIsTrue`; a chip has a
  press only on the page of one's own (`ChipsAreOfMine`), so a button has one at most.
* **Sharing and passes** (`LinesAreTheirs`: `LinesHold` of `MCFeeds`). For the forms: the
  order of the lists names each list that is there once and no other (`OrderFits`), which is
  what makes "no line named: the first of theirs" one line; a list comes closed, as its
  number was never anybody's (`ShareInv`). For a pass: what the provider opened is stored, or in the hand of
  the one call that will store it (`LineKept`, unless an answer was lost or two calls met);
  a list is ours as long as it is managed or its call is about to mark it
  (`OursIsManaged`); what a tick picked is ours (`PickedIsOurs`), and stays so while it
  takes it down. A list whose import was torn may be anybody's, and is left out of all
  three, as it is out of the property.
* **Vault and radio** (`MoveLosesNothing`: `MoveIsSafe`; `OneSessionIsKept`:
  `StationHolds`). For the vault: what the migration is about to write over was read by it, is
  under the reader's key already, or was written since (`ReadIsKnown`), so no edit is lost;
  `MovedIsOwn` alone does not say why the move may write over what it finds. For the radio
  session: there is one load for every time the memory was dropped and the one the others
  join (`LoadsCounted`), what a load refreshes or saves is of the login the reader asked for
  (`LoadsWanted`), and no jar has a number that was not given out (`JarsNumbered`). For the
  relay: an address is minted on the line it was asked for (`MintsOwn`).
* **Limits** (`LimitsAreKept`: `LimitsHold` of `MCSite`). For the throttle: who is not
  remembered has nothing, the history of who is tells when they asked last, and a lock that
  was earned is the one of the entry's strikes (`CallerFits`); so one strike more is twice the
  lock (`LocksDouble`), where a power of two is the number of subsets (`TwiceThePower`). For
  the mails: what an inviter's submissions have still to send (`Ahead`) is counted with what
  was sent, so that a submission that reads the day's count already owes for the others
  (`MailsLimited`), and a mail that left is recorded, about to be, or was lost by a fault
  (`MailsKnown`). For the shared cache: what is held weighs what the running total says but
  for the drift, and fits (`HeldFits`): the entry that went first is the one after which the
  rest fits (`WhatStaysFits`, by the least number there is); a fetch is under way for every
  key that is waited for (`FetchesFit`).
* **Browser** (`PageAndBrowserAgree`: `BrowserHolds` of `MCSite`). For the push switch, whose
  property speaks of quiet states only: whatever is subscribed and not stored is seen to by a
  tab that saves, reads back or undoes, or by a self-check (`SeenTo`), and no request to drop
  the browser's own subscription is on its way (`RequestsFit`). For the page: a row that offers
  Stop was started with a bundle that is there (`RowsFit`), what plays has a bundle and what
  waits has one on its way (`PlayersFit`), so no press can wait where something plays; and no
  press is of a visit still to come (`VisitsFit`), without which a new page's sweep would meet
  one. For public channels: a request that follows a move or reads a playlist is at an
  address the provider has, and one that connects was judged by an answer of the host it is
  at (`TabFits`). `fetch` connects to an address of another answer; so of the address itself
  the theorem speaks where a host's answers are all the same. `WatchAssumption` says that a
  provider's moves and lines lead to addresses of some provider and that their tags are
  those HLS gives an address.

## What is only model-checked

* **Everything under fairness**: `FollowersAttempted`, `BatchesDeliver`, `LeaverFreesSlot`,
  `FinishedIsClosed`, `LapsedGoes`, `RowsAreAnswered`, `ClickEnds`, `ResultIsWritten`. The
  temporal back end has no ENABLED and no fairness rules.
* **`ListsHold`, `FixturesHold`, `CatalogueHolds`, `EndIsRead`**: their modules sort, filter
  and fold sequences (channels, listings, rows of a pass, entries of a log), and what such a
  fold returns is an induction over data.
* **`SiteTypeOK` and `FeedsTypeOK` as wholes**: of the types, the invariants above hold what
  their properties need, which is all of them for `SignIn`, `CoinpayIdentity`, `Vault`,
  `RadioSession` and `InviteMail`, and a part of them for the other components.
* Proved, and in no run because a theorem says more: a settled payment stays settled
  (`SettledForGood`), and no reader is told twice by the pipeline (`PipelineTellsOnce`).

## Where the code and its words disagree

The four violation runs above quote a comment or a document. The properties below are
stated in their modules as well, each with the comment it comes from; TLC refutes them on
the instances of the runs, and they have no run of their own.

| module | properties that do not hold |
|---|---|
| `Delivery`, `Reminders` | `ReachedAtMostOnce` (`README.md:67`), `NeverDeliveredLate` (`README.md:69`) |
| `StreamSlots` | `NoConnectionForLeaver`, `ClaimAsksItsLine`, `PanelSpeaksOfItsLine`, `NoCheckWhileWatching` |
| `Settlement` | `NoSecondSeat` |
| `SignIn`, `PasswordDoor`, `InviteMail` | `NewcomerIsCredited`, `RedeemedIsGranted`; `FailuresCapped`; `MailedOnce` |
| `Vault`, `UpstreamCache` | `RadioEditWins`, `NewIsOwn`, `NotedStays`; `EvictedForRoom` |
| `Playlists`, `Sharing`, `LivePass` | `PanelIsOwn`, `HashAlwaysTrue`, `AddressAlwaysWorked`, `CapHolds`; `ManagedIsClosed`, `NamedIsOffered`; `OneLineEver`, `OwnAddressStays`, `HolderKeepsList` |
| `RadioSession`, `RadioRelay` | `DisconnectIsFinal`, `LockedIsClosed`, `NewestJar`; `GoodSessionsStay` |
| `PlayLog` | `FailedGoesBack`, `NoSlotIdle`; `NoneIsMissed`: a finished game that is not read within `catchupHours` is never closed |
| `Fixtures`, `Schedule` | `PostIsTerminal`, `NoRaceInArchive`; `ListedOnce`, `FrozenIsNotLive`, `StalledIsHere`, `SignedInIsFresh` |
| `Catalogue` | `FreshIsFetched`, `SweepsSettle`, `OneProviderPerSport`, `EmptyIsSeeded` |
| `BrandCatalog` | `ArtistsKept`, `AskedInTheEnd`, `UnknownIsDropped` |
| `TennisFeed`, `TapeLog` | `OnlyForward`, `EndIsTaped`; `LogIsTrue` once an entry of the tape may be partial |
| `Broadcasters`, `ChannelMatch`, `Watch` | `RankedIsAsked`; `EachLineSpeaks`, `TaggedIsNotOurs`; `AskedOnce`, `LeaverLetsGo`, `NewestHeld`, and `OnlyWhatPasses`: the address connected to is of a second lookup |
| `Social`, `Following` | `BlocksHold`, `UnreadCanBeCleared`, `FollowingLinksLead`, `WholeForMembers`; `NeverUntrue`, `DoesWhatItSays`, `EveryLeague`, `FlashOnce` |
| `Codes` | `SlotsComeBack` |
| `PagePlayer`, `PushToggle` | `NothingPlaysUnseen`, `OneStream`, `OneCheck`, `NeverBack`; `OnlyTheReaderTurnsOff`, and `NoBranchWaits` (`app.js:153`: "so no branch can leave the button waiting forever"): turning the switch off, or undoing a save that failed, awaits `unsubscribe()` (`app.js:326`, `334`, `353`) or a request (`354`) without a deadline |

Met while reading, and outside what the properties say:

* `TennisFeed`: the tape's share of the day starts anew with every deployment; an optional
  list that fails is asked again by the next request and may use up the day.
* `Broadcasters`: a channel named `TBD` or `Test ...` is refused as a placeholder; the
  candidates of lines shared with a reader have no share per line and pass no languages.
* A sweep that asked before the start of a game may write `pre` over the live tick's `in`.
* `Codes`: a crash between a redemption and its grants loses the bonus.
* `Following`: unfollowing all leagues also removes the leagues picked by hand.
* `BrandCatalog`: one row whose key collides with another's aborts every pass of its brand;
  a pass that fails or finds nothing is not noted as tried; `upsertEvents` never changes the
  league of an event.
* `Social`: `thread` marks everything read and returns the newest 200 messages;
  `searchPeople` filters the viewer's blocks and not those of the other side; a handle
  given up may be taken by somebody else.
* `sports/index.js:409` calls `log`, which is not in scope there: the catch it stands in
  throws, where the comment above (396-405) says the error is swallowed.

## What is not modelled

* The HLS proxy of the in-page player, what `probeStream` reads of a connection, EPG, search,
  the calendar's token, the station catalogue, the merged page of an event, passkeys and
  profile pages; gifts of days (`grant_ref`), payouts and affiliates' statements; which list
  is promoted when the first is removed.
* Wording and layout, unless a property is about what a page says.
* A second web process: the registries in memory are one process's, as the deployment runs
  one.
* Migrations, configuration, routing and session middleware, packaged apps, the fallback
  provider's field mapping: they keep no state or run once, before anything else does
  (`PROJECT.json`, `components`).
* BullMQ, PostgreSQL, CoinPay, the mail and push providers and the panels are modelled by
  their contract, from how the code uses them.
* Branches no state reaches: a seat granted for a fixture without a start time, a batch for
  an event that does not exist.

## Proving found

What the provers could not be told, TLC had not seen, as it takes the first arm of a CASE
that is true and the values of one instance:

* `Following` and `Codes` had CASE expressions with arms that overlap, so that what they
  chose was not determined; they are IF chains now, in the order of the code's returns.
* `Sharing` chose the first of the lists by a position that need not exist; what a form
  reaches is a set of lines now, and empty when there is none (`Target`).
* The parameters of the instances were literals in `MCSite` and `MCFeeds`; they are constants
  with named assumptions, so the theorems are about all values and the runs about one.
* `InviteMail`, `AuthThrottle` and `UpstreamCache` summed with folds and kept the order of a
  Map in a sequence. They count the elements of sets now, and the order is a relation
  (`seen`) or a place (`at`).
* `Broadcasters` is written without RECURSIVE, so that a module that reaches it can be proved
  about.

## What is left

Of the plan, the type invariants of the components that are only model-checked, and the
properties of the modules that fold sequences, which would have to be written over sets with
an order first, as `AuthThrottle` and `UpstreamCache` are.

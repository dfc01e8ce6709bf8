# Verification of the advertising and membership backend

TLA+ models, TLC checks and TLAPS proofs for the NestJS / Prisma / PostgreSQL
backend of a business directory: companies register, become members, buy
advertising, collect loyalty points; administrators approve and edit; members
read news, list properties and talk to a chatbot.

Everything here is translated from the code under `src/src`, the schema and
migrations and the setup script under `src/prisma`, and the scripts of the import under `src/scripts`. `PROJECT.json` maps
every definition to the lines it stands for and lists runs, mutants, findings, hazards and theorems.

## 1. The system

One or more processes of the same application serve HTTP and run their own
schedulers. They share nothing but the database (and an object store for files).

| Component | State | Operations that change it | What is hard | What makes it correct |
|---|---|---|---|---|
| Ad orders (`modules/ad-orders`) | `ad_orders`, `ad_order_items`, `ad_order_assets` | create draft, attach assets and submit (with a clean-up on failure), admin edit, approve, reject | checks on rows read earlier, writes by id, payments after the commit | a decided order is final; items, subtotal, ads and payments agree |
| Active ads (`modules/active-ads`) | `active_ads`, their assets | put up (by approval, by hand, as popup add-on), update, delete, replace assets | capacity is counted before it is taken | capacity; what the calendar leaves open can be had |
| Ad effects (`modules/ad-effects`) and the lists of companies | none; read from `active_ads` | what each type of ad adds to its company on each list | lists and preview choose the effects separately | what is bought is shown |
| Ad catalogue (`modules/ads`) | categories, packages, `ad_package_pricing` | create, update, soft-delete prices; booked-dates sweep | final price computed from an outdated reading; sweep against check | prices fit; the calendar greys out what is full |
| Loyalty (`modules/loyalty`) | `users.loyaltyPoints`, `total_spending`, `membershipTier`, `points_transactions` | award, deduct, recalculate tier | lost updates, order of rows, stale tiers, column width | points, spending and tier add up |
| Audit log (`modules/audit`) | `audit_logs`, events in memory | record | crash between insert and event | nothing recorded is forgotten |
| Notifications (`modules/notifications`) | `notifications` | project at boot, project by event, mark as read | duplicates, batches, catching up | one notification per action, first reading stands |
| Accounts (`modules/auth`) | `users`, tokens, captcha challenges, `company_contacts` | register, decide, create, assign, provision, profile, login, refresh, set password, choose industries, activate, delete | check-then-act on e-mails, tokens, links, statuses and contacts | companies keep their member, links of companies are stable, one-time things happen once |
| Companies (`modules/companies`) | `companies`, `company_contacts` | create, update, add contacts, archive, (de)activate; directory, details, lists, export | archive racing assign; pages read while rows change | approved companies can be found; pages agree and are complete |
| News (`modules/news`) | `news_articles`, running flag | crawl and ingest, translate and publish, edit, clean up | failing drafts, stale titles, moved urls | one story in all languages; no draft waits for ever |
| Company import (`scripts/import-2026`) | files in `out/`, then companies, users, contacts, points | parse, enrich, merge, normalise; find or make a company, provision its member, pay the bonus | merging by keys that change, a crash and a second start, two runs at once | no row is lost or taken for another company's; an entry is one company |
| Setup script (`prisma/seed.ts`) | news categories, demo users with companies and contacts, ad categories, packages, prices | one list after the other, each entry looked for and made if it is missing | no transaction, stopped and run again while people work; a company is known by a contact the script itself replaces | a completed run has made everything, and nothing twice |
| Chatbot (`modules/chatbot`) | sessions, checkpoints, document chunks, spam states | answer, clear, crawl, block, sweep | streaming answers, crashes in the crawl | a known page stays known; a deleted conversation is forgotten; blocks hold |
| Properties (`modules/properties`) | properties, legal documents, inquiries | create, update, publish, sell, inquire, upload, delete | database and object store | a listed document opens |

How they interact: an approval of an order (ad orders) creates active ads in its
transaction, then calls loyalty to pay points and recalculate the tier; approval
of a registration (accounts) does the same with a welcome bonus, and writes the
companies and contacts that the companies module edits and shows. Nearly every
operation calls `AuditService.record`, which inserts a row and emits an event;
the notification projector listens to it and, at boot, looks for rows without a
notification. Companies, orders and ads are joined by foreign keys, of which
those from `active_ads` to orders and items are `ON DELETE SET NULL`. Prices are copied
into order items when an order is made. News, properties and the chatbot stand alone.

The database runs at READ COMMITTED. Hardly a handler takes a lock for what it reads
or repeats its condition in the write (`updateMany ... where isRead: false` for
notifications is an exception), and Prisma answers an `include` with several SELECT
statements. So a handler is modelled as one step per SELECT whose result is used
later, which copies rows into the request, and one step per transaction's writes,
which become visible together. Between two steps any other request may run, and a
request may end at any step (an exception, a transaction's timeout, a deadlock that
PostgreSQL resolves, a restart).

What overlapping calls may break in this code is known (section 5). The models therefore carry
ghost variables that record exactly which write was made on an outdated reading, and the
properties promise everything to everybody else, with any number of calls in progress.
A property of this form says both that sequential use is right and that the named
overlap is the only way to go wrong.

## 2. Modules

| Module | Models | Extends / uses |
|---|---|---|
| `AdOrders` | the life of an order, concurrent handlers | instantiates `OrderBook` |
| `OrderBook` | what the API promises of an order: indivisible calls that respect the status | |
| `AdSlots` | the slot check and every writer of slot-limited ads | |
| `AdCalendar` | the calendar of booked days, computed from `AdSlots`' rows, beside the booking check | extends `AdSlots` |
| `Notifications` | audit log, event, boot-time projection, reading | instantiates `NotificationInbox` |
| `NotificationInbox` | what the bell promises: at most one notification per action, first reading stands | |
| `Loyalty` | points, ledger, spending and tier of one member | |
| `Accounts` | companies, users and the links between them | |
| `Directory` | the lists of companies, read in pages, and what a member may see | |
| `Pipeline` | the scripts that make the file of an import | |
| `Import` | the script that reads it into the database | |
| `Showcase` | what ads make of the lists, and the preview of an order | |
| `Registry` | these five together | instantiates them |
| `Credentials` | set-password links, tokens and the one-time choice of one account | |
| `Contacts` | the contact rows of one company | |
| `Catalogue` | the prices of ad packages | |
| `Listings` | a property, its publication and documents | |
| `KnowledgeBase` | a page as the chatbot's crawler knows it | |
| `Conversation` | one person's chat: history and memory | |
| `Gatekeeper` | the chatbot's spam detector and the captchas | |
| `Seeding` | the script that sets a database up | |
| `Services` | these eight together | instantiates them |
| `News` | feeds, ingest, translation, publication, cleanup | |
| `MC*` | symmetry sets and constants for TLC | the module after MC |
| `*Proofs` | theorems | the module before Proofs, TLAPS |
| `AdSlotsProofs`, `PipelineProofs` | theorems on `AdSlots` and `AdCalendar`, and on `Pipeline` | `AdCalendar`, `Registry`, TLAPS |

`Registry` and `Services` put parts side by side that share no state: no step of one
reads or writes what another does, so a behaviour follows one of them (`part`), and
checking the union of the parts' behaviours loses nothing against their product.
Where a part depends on another it has an abstract step for it (`Linked` and `Reset` in `Credentials`).

### AdOrders

`order` holds a row per order: status, whether it has a company, items, subtotal.
An item is identified by the call that inserted it and its pricing and carries its
line total; `Total` counts currency units, which makes the sum of a set of items a
cardinality that can be reasoned about without recursion. `ads`, `ledger` and `spent`
are the active ads, awards and spending increments made for orders. A request
(`req`) remembers the row it has read. `ReadOrder`, `ReadItems` are the SELECTs;
`SubmitCommit`, `EditCommit`, `ApproveCommit`, `RejectCommit` the writes;
`SubmitFails`, `CleanupReads`, `CleanupDeletes` the path through
`tryDeleteDraftOrder`; `Award` and `Spend` what follows an approval. `Fails` ends
a request anywhere. The status `SUBMITTED` of the schema is never written, so it is absent.

The ghost `raced` collects the orders on which a write was made
although what the handler had read (the status; for edits and approvals the items;
for approvals the subtotal) no longer held. The refinement
expresses the same: AdOrders implements `OrderBook` with `broken <- raced`.
`SettledIsFinal`, `AdsHaveItems` and the order of payments need no such exception.

Left out: notes, dates, links and assets of items; the slot check (`AdSlots`), whose
failure is a `Fails` step; creation and submission are not tied to the author.

### AdSlots and AdCalendar

One package type with `Capacity` slots over days `1..LastDay` and a day `Forever`
that stands for "no end". An approval reads its items (`ApproveBegins`), counts for
each of them (`CheckPasses`, one query each) and inserts them all
(`ApproveWrites`); an update works out the row (`UpdateBegins`), checks it if it will be
on, and writes the given fields into the row as it is by then (`UpdateWrites`).
`ManualActivation` checks nothing. The end an update is given may lie before the
start, as in the code. The ghost `valid` holds for each request the checks that have not
been outdated by a write, `loose` the ads that are up without such a check.

`AdCalendar` adds no state. `Count`, `Fills`, `Frees`, `Ranges` and `BookedDates` are the sweep of
`computeFullyBookedRanges` and `getBookedDates` over starts and ends, ends before starts of
the same moment; `Grey` is a day the calendar greys out, `Wanted` a booking that has no row yet.

### Notifications

`created` is `audit_logs.createdAt` (equal times allowed), `notes` the rows of `notifications`
in order of insertion, `proc` the state of each process: down, fetching a batch,
projecting it, up. `calls` are calls of `record` between insert and event and
events not handled yet: both live in a process's memory and die with it. `Insert`
includes the unique key on `auditLogId`, whose violation the projector ignores;
`InsertFails` is every other error, which is logged only. A process serves requests
only when its boot has ended.

### Loyalty

One member (accounts do not interact). `ledger` is the rows of
`points_transactions` in the order of their commits, each with its `createdAt`, which
the client takes before the commit, so that later rows may be older. `ReadUser`,
`ReadLedger` and `Commit` are `awardPoints`; `ReadTier` and `UpdateTier` are
`recalculateTier`; `Spend` is the increment in `approveOrder`, after which the tier is
recalculated once more; `Register` is the approval of a deleted member's new
registration, followed by the welcome bonus; `UpdateProfile` writes a tier as given. `Int4`
is the range of the Int columns: what does not fit is refused and the call ends.
Ghosts: `due` (what was granted), `drift` (some award added to a base that was no longer
the account's points), `stale` (the last recalculation was overtaken, or a request died).

### Accounts

`user` and `company` are the rows; of a company's contacts only the address an approval would use
(`mail`; `registered` if it is a `register_email` row). A call goes through the SELECTs of its
handler (`ReadContact`, `ReadLiveUser`, `ReadDeletedUser`, `ReadEmail`, `OwnCompany`) to a commit:
`RegisterCommit`, `CreateCommit` (registration by a visitor and by an administrator, new or reviving a deleted
company), `ApproveCommit` and `ApproveLeavingLink` (with the user made, revived or found
linked), `UserCommit` (activate, deactivate, delete, with what becomes of the company),
`LinkCommit` (assignment and provisioning), `LinkOwn` (a profile that makes the member's
company), `CompanyCommit` (archive, show, hide). `SetStatus`, `AdminCreateUser`, `Rename`,
`CreateCompany` and `ReplaceContacts` decide on nothing they have read that matters here. `users.email` is
the one unique column. Ghosts: `raced` (a write on an outdated reading: `Outdated` says for each kind of
call what it had checked), `edited` (an administrator replaced contacts, which may move or
remove the address a company registered with).

### Directory

`company` (in `Registry`: `firm`) holds name, industries, activity and time of update; `member` a
signed-in member with tier, industries and company. `MaskingLevel`, `HasIndustryAccess`, `Detail`,
`Listed` and `OpenCategories` are `CompanyMaskingService`, `getCompanyDetail`, `getCompanyDirectory`
and `getCompanyCategories`. `walk` is somebody reading a list to its end: the directory page by page,
each page with a count of its own, or the export in batches after one count. Rows that sort alike
come in any order, anew for each query. Ghosts in the walk: the companies written since it began, whether
one came or went, and whether rows sorted alike.

`Mask` and `MaskedRow` are `maskCompanyData` and `buildMaskedContactRows` by kind of value: which of a company's
contacts are shown whole, in part or not at all at a level of masking. `PagesAgree` says that the list, the details and
the categories give a member the same company on the same terms, and that no page shows more than its level allows.

### Pipeline

A document is a sequence of section titles, tables, headers of regions and rows; a cell is a sequence of
lines, each with a kind that stands for the regular expression it would match. `Document` says what documents are, as the
regular expressions have it: what has Chinese characters is no English name, and a line of several parts has names between
its numbers. A file of entries is a function on their places, which need not follow one another: `Groups` puts the entries of a group where the
first was and those without a key after all others, as the code's dictionaries do. `Parsed` is `01_parse`: `Reading` walks
the cell of contact people with its pending name and pending hotline (`People` is where it ends), `Details` sorts the lines of the cell of
details by their kind and by whether a label has come before (`Hit`, for `hit_labeled`). `Enriched` is `02_enrich`, where a model (external)
places each flagged line or fails. `Merged` is `03_merge`: three times `Round`, by tax number or name, by name and mails, by English name and
numbers. `Company` is `04_normalize`, with the key its id is made of. `Begin`, `Parse`, ..., `Stops` are
`00_run_pipeline`, which reuses an older file of step 2 with `--skip-enrich`. `from` in an entry is a ghost: the rows it comes from;
`branch` those that were joined as a branch.

### Import

A process takes the entries in turn: `Lock` (the advisory lock on the first criterion the entry has),
`Search` (one query for each way to find its company), `Save` (the update or the insert, with all its contacts), then outside the
transaction `ReadUser`, `LinkUser` or `CreateUser`, `Award` and `Mark`. `Skips` is an entry that fails inside its transaction,
`Dies` a crash or an error outside. It is started up to `MaxStarts` times, by two processes. Ghosts: `home` (where an
entry was last saved), `by` (which entry a company was last saved from), `lost` (bonuses that failed), `raced` (addresses
linked on an outdated reading).

### Showcase

An order, the ads made from it and those that administrators put up, day by day. `Effect` and `Applied` are the
registry and its effects, `Required` and `Included` the types of each list in `companies.service.ts`, `PreviewTypes` and
`PreviewSlot` those of `getAdOrderPreview`. A list reads the ads in any order, so `Shown` is the set of what it
may show. A day stands for an instant within it. An order has one item of a type, its company has one order, and the slot
check and rejection are left out: they decide whether there are ads, not what these show. Ghost `touched`: ads that were
changed after they went up.

### Credentials

One account, a clock, its set-password link (`link`, `until`; issuing replaces), the client's access and
refresh tokens, the choice of industries. `Linked` and `Reset` stand for what assignment and a new
registration do to the row. `BeginForgot`/`ForgotCommit`, `BeginPassword`/`PasswordCommit`,
`BeginLogin`/`LoginCommit`, `BeginChoice`/`ChoiceCommit` are handlers between reading and writing; `Refresh`
renews the access token only. Ghosts: `uses` of each link, `shared` (links two calls held
at once), `cut` (a call cleared a link that came after its reading), `choices` and `doubled`,
`demoted` (when the role changed), `late` (a token was signed with an outdated role).

### Contacts

The rows of one company. A save (profile), rename, replace (administrator), add, and a visitor's new registration each
read, decide which rows to delete and which to add (`Normalized`, `FirstOnly`, `Patched`,
`NameResolved`), and commit. Those that also update the company's row hold its lock, so they
wait for one another; the others overlap. `Phones`, `ContactNames` and `ValuesOf` are what the profile shows.
Ghosts: `raced` and each call's `late`.

### Catalogue, Listings, KnowledgeBase, Conversation, Gatekeeper

- `Catalogue`: `BeginUpdate` reads the row, `UpdateCommit` computes `FinalPrice` from the given fields
  and the read ones and writes the given ones and the final price. Discounts are whole percentages and rounding is half up, exactly: the code's
  floating-point numbers are left out. Ghost `raced`: rows whose final price was computed
  from an outdated reading.
- `Listings`: `rows` are documents with a row, `files` those with a file. An upload stores files, then
  inserts rows; a removal deletes the file, then the row. `UpdateCommit` is `buildUpdateInput` with the dates that follow the
  status unless given. Ghost `torn`: documents whose deletion died in between.
- `KnowledgeBase`: one page, its stored hash and chunks; `Fetch`, `Compare`, `AddChunks`,
  `DeleteChunks`, `StoreHash` are the crawl, without a transaction. The scheduler skips while it
  crawls; the internal route does not ask. Ghost `mark`: what an unfinished or overlapping crawl left.
- `Conversation`: `history` is what the page shows, `memory` the checkpoint. `Ask`,
  `Summarize`, `Generate`, `AppendExchange`, `Breaks` are an answer being streamed, `Clear` the deletion, `Expire` that of
  guests. Ghosts: `past`, the last question before the last deletion, and `held`, what answers in
  progress knew at that moment.
- `Gatekeeper`: `entry` is what `SpamDetectorService` remembers of one person, with a clock; `Refuse`, `Pass` and
  `Block` are the outcomes of `check`, `EvictStale` the sweep on a timer. A captcha is made (`Create`, which clears expired ones away)
  and answered (`Verify`). Ghosts: `log`, every message with what became of it, and `uses` of each captcha. A
  restart, which empties both maps, is left out: it forgets every block, and a captcha in a form is lost.

### Seeding

`Loops` are the nine lists of `prisma/seed.ts` in their order, `at` the place of the script: the loop, what is still `todo`
of its list (in any order) and, for an entry that takes more than one statement, the `step` and what the statements before
have found. A company goes through `FindCompany`, `CreateCompany`, `ClearContacts`, `FillContacts` (`syncCompanyContacts`), then `CreateUser` or
`UpsertSuper`; a price through `FindPrice`, `CreatePrice`. `Stop` is a failure or a kill between two statements, after which `Start` begins
anew. People act at any time: they register with an account's address, take another one, are deleted and register again with another
company (`SignUp`, `Rename`, `Relink`), register companies and change their contacts (`RegisterCompany`, `Readdress`), switch and retype
ad categories, add, move and delete prices. Ghosts: `moved` (companies whose contacts people edited), `fresh` (nobody has done anything since
the run began), `ended` (some run has come to its end), and in `user` the value `Gone`, an address that its user has left.

Left out: two runs at once, a category that is given another type while the script is at the categories, a demo company that is
given the address of another; packages are created by nobody else. Texts, logos, amounts and what an update writes over are not modelled.

### News

`rows` by url; a text is a title with its summary, a translation is known by the text it was
made from. The run goes through `FetchFeed`, `ReadUrls`, `ReadGuids`, `CreateDrafts`, `UpdateNext`
for each feed, then `TakeBatch`, `Translate`, `TranslationFails`; `isRunning` is `pc # "idle"`. `Edit` is the internal route,
`Cleanup` the weekly job, `RunDies` a restart. `Cursed` are articles that can never be translated.
Ghost `late`: articles that a feed overwrote although they had been published since its reading.
Translation is assumed to be configured; without an API key the code publishes nothing by itself.

## 3. Checks

| Run | Bounds | Result |
|---|---|---|
| `ad_orders` | one order, four requests, two pricings (one an add-on), prices 1 and 2 | 1.36 million states; `NeverEmptied`, `SubtotalIsSum`, `AdsMatchOrder`, `PaidOnce`, `SettledIsFinal`, refinement of `OrderBook` |
| `ad_slots` | three requests, one slot, two days, orders of up to two items | 0.41 million states; `CapacityKept`, `BookingAgrees`, `NoLostUpdate` |
| `notifications` | two processes, two supported rows and one other, batches of one, two crashes, one failed insert | 0.29 million states; `AtMostOnce`, `BootCatchesUp`, refinement of `NotificationInbox`, `EventuallyNotified` |
| `loyalty` | two requests of any kind, amounts 1 and 2, Int columns up to 3 | 0.11 million states; `PointsAddUp`, `SpendingAddsUp`, `TierFits` |
| `registry` | accounts: two requests, five calls, two users, companies and addresses; directory: three companies, pages of two, two industries, two writes; import: two processes, two starts, files of two entries; pipeline: documents of three rows out of ten, or of two with an earlier edition, one run for each edition; showcase: two companies, an order of up to three items, two calls of administrators, two days | 0.61 million states; `ApprovedHasMember`, `Reachable`, `OneCompanyPerAddress`, `LinkStable`, `WalkComplete`, `PagesAgree`, `SavedOnce`, `MembersMade`, `Gathered`, `PreviewKept` |
| `services` | two requests; four calls (contacts: two), two documents, two texts of a page, four questions, two links and three moments, seven rows of contacts; five messages of two kinds and five moments; setup: a member, an administrator, a super administrator, two categories of packages, two packages, two durations, two stops, one edit | 1.19 million states; `PriceFits`, `DocumentsOpen`, `PageStaysKnown`, `ClearForgets`, `GateHolds`, `LinksHold`, `RoleCatchesUp`, `ChosenOnce`, `SavedIsShown`, `NoDuplicates`, `SeededOnce`, `SeedCompletes` |
| `news` | five feed items on three urls, one of them never translatable, batches of two, feeds of up to two items, two cleanups | 53 thousand states; `SameStory`, `EventuallySettled` |
| `ad_orders_submit`, `ad_orders_reject`, `ad_orders_duplicates`, `ad_slots_oversold`, `loyalty_balance` | as above or smaller | counterexamples, see section 5 |

Why the bounds are enough:

- A handler names one order, one member, one document or one page, so one of each
  carries every interaction, and the theorems cover the rest. Four requests on an order allow a full life
  (submit, edit, approve) with one intruder; each known race needs two or three.
- Two days and two items make overlapping and adjacent bookings; three requests are an approval between the
  check and the write of two others. They also make the sweep meet two ads that end and start together,
  an ad without end and one that has ended.
- Batches of one make every backlog longer than a batch and
  an exact multiple of it; two crashes allow a crash during the boot after a crash. Int
  columns up to 3 overflow on the second or third award.
- Five calls on accounts are register, approve, delete, register again and approve again,
  or two registrations, two approvals and an assignment. Accounts and directory need two
  companies and two users for a link to go wrong, three companies and pages of two for a list to
  have a page that is not full.
- The files of the import have two entries that look for the same company in different ways (id, tax number,
  name and region, name and phone) and share an address; two processes and two starts make both two runs at once and a
  rerun after a death. A file is not longer, as two entries are all that a third could meet.
- The ten rows of the printed directory are chosen so that each rule of the merge and each form of the id applies to some of them:
  equal tax numbers under two sections, a branch with an office in its name, a mail written in capitals, a number with
  spaces, a mail stuck to a tax number, rows that only the English name and a number connect, rows that only a name
  connects. Three rows let a group that was merged in one round meet a third in the next. Pairs of them are also run as a second edition
  after a document with an unplaced line, in which `--skip-enrich` may reuse the older file.
- The two orders hold every type of the preview's lists between them but the first slot's add-on, and two calls of administrators
  give one ad beside each of them, or change one; a type's effect does not depend on how many days it runs, so two do.
- Five messages with two strikes and durations of one and two moments make a person be blocked, wait, be blocked again for longer,
  and be forgotten in between.
- In `services` two calls overlap and others follow, which is what each ghost needs; four questions with a
  threshold of three messages make the memory be summarised twice; two links and a clock of three moments
  let a link expire before the next, an access token expire within a refresh token, and a role change in between.
  Contacts need two calls only, because each of them carries a list that already repeats itself.
- The setup script meets an edit and two stops at any of its statements, so at each of the five that a company takes; the three accounts
  are the three kinds that it treats differently, and of the packages one is for months and one is paid once and retired.
- In `news` a story comes first without a summary, changes its text, moves to a url where another
  one may be, and a newer one that cannot be translated holds one of two places in the batch.

Requests serve a bounded number of calls, so every behaviour may stop: `CHECK_DEADLOCK FALSE`. In
`registry` and `services` states with the names of requests (and users, companies, addresses,
documents) exchanged are identified, as no definition tells them apart.

Properties that deserve a word:

- `SettledIsFinal`: once an order is approved or rejected and no open request has read it
  before, nothing called later changes it. All five writers write by id, so this rests on
  every reading guard.
- `SubtotalIsSum`: the subtotal, moved by differences, is what the items cost. It is
  checked with `EditDuplicates = FALSE` (an edit lists no item twice) and refuted with `TRUE`.
- `CapacityKept`: ads that went up on a check that still held never exceed the capacity,
  also when others went up without one. `BookingAgrees`: the sweep over starts and ends and a count day by day say the same
  (`CalendarAgrees`), and no booking that `checkSlotAvailability` lets through has a day that the calendar greys out; for a single day the two
  always agree (`CheckAgrees`), as long as no ad ends before it starts. Not the converse: the check counts all ads it
  meets on the way, also those that do not run on the same day, so with more slots than one it may refuse a longer booking whose days are all open.
  The run has one slot; the theorems cover any number.
- `BootCatchesUp` and `EventuallyNotified`: nothing recorded is forgotten because a process died
  between the insert and the event.
- `PointsAddUp`: the points are what was granted unless an award used an outdated base.
  A deleted member who registers again is such a case without any concurrency: the
  account starts at zero, the ledger stays, and the bonus is added to the last
  ledger balance.
- `ApprovedHasMember` and `Reachable`: deletion hides a company with its last member and a new registration
  revives it; neither leaves an approved company without a member or out of an administrator's sight.
- `WalkComplete`: whoever read a list to its end met every company once if nothing was
  written; and the export, which reads the latest update first, has missed no company that was left alone while
  others were edited. Both need rows that sort apart, which names and times of an import do not.
- `Gathered`: whatever the scripts merge, every row of the printed directory is in exactly one company of the
  file, with the people, numbers, contacts, addresses and industry it told; rows of one company have something in common that
  speaks of one company; and two companies have one id only in the cases that `Excused` names.
- `SavedOnce`: however often the import is started, dies or runs twice, an entry that can be found again is not given a second
  company, unless another entry has written over its first. `MembersMade`: nobody gets the bonus twice, or
  loses it but for a death or failure just then, and the address a company is marked with is its member's.
- `PreviewKept`: what the preview showed when an order was approved is what the lists show while its ads run unchanged,
  whatever else administrators give the company.
- `GateHolds`: who was told to wait is refused until then, whatever the sweep forgets, and nobody else; as many equal
  messages in a row as are not allowed are always met with a block, longer than the last; a captcha opens the form once, in time.
- `ClearForgets`: a question in progress during the deletion brings back what it held, and nothing else does.
- `PageStaysKnown`: chunks are added before the old ones are deleted and the hash comes last, so one
  crawl that dies anywhere leaves the page known; two at once may not.
- `LinksHold`: a link that no two calls held at once is used at most once, and a newer link is not lost to a call that used an older
  one, unless the call had read the older one before.
- `SeededOnce`: an account gets at most one company more for each stop and each edit, its user's company keeps the address, and no price that
  was left alone is made twice. `SeedCompletes`: of each list that a run has been through everything is there, whatever earlier runs have left; and once some run
  has come to its end, retired packages stay off and no later run, stopped anywhere, takes anything back.

Every property has a mutant in `PROJECT.json`: a plausible bug in one definition under which TLC
finds the property violated.

## 4. Fairness

- `Notifications`: weak fairness of `Boot`, `Fetch` and `Project` of each process (the container is
  restarted, `docker-compose.yml:72`, and the boot loop runs on by itself) and of emitting and handling an event
  that is in memory. Crashes and failed inserts are bounded (`MaxCrashes`, `MaxFailures`); nobody is obliged
  to record or to read. Without the bound on failures the boot loop need not end: a full batch that
  can never be inserted is fetched for ever.
- `News`: weak fairness of `Begin` (a timer every quarter of an hour) and of the steps of a run; strong fairness
  of `FeedsDone` (the list of sources is finite), `TakeBatch`, `TranslationFails` and, for each article,
  `Translate`: the database and the translation service do not fail every time, and the process does not die before the answer
  every time. `MaxClean` bounds the weekly cleanups, each of which comes after hundreds of runs. `EventuallySettled`
  needs `CursedAssumption`: fewer articles that can never be translated than a batch holds. With
  more, the newest drafts that always fail fill every batch and the others wait until the cleanup.

No other module states fairness: nobody is obliged to call.

## 5. Where code and comments disagree

1. `ad_orders_submit`: a failed submission deletes the draft; the doc comment says nothing is changed.
2. `ad_orders_reject`: an order approved between the reading and the update of `rejectOrder` is rejected.
3. `ad_orders_duplicates`: an item listed twice in `deleteItemIds` is subtracted twice.
4. `ad_slots_oversold`: two items of one order, or two approvals, take the same last slot.
5. `loyalty_balance`: concurrent awards write the same balance; it is not a running balance.

Met while modelling, each visible as an exception in a property or in what the model had to say:

- Contacts. A contact name saved together with an address is not shown if a contact person's row has another name;
  saving a phone without a name may switch the name that is shown; replacing contacts by a list without a note deletes the note;
  saves that overlap leave duplicates (`NoDuplicates` has `raced`).
- Calendar. An ad whose end an update has put before its start spoils the sweep.
- Lists of ads. `getActiveAdsByType` selects `company.name` (`active-ads.service.ts:238`), which `Company` does not have
  (`schema.prisma:276-303`); a cast hides it from the compiler, so the database client refuses every call and the list is never produced.
  `getTrackedSlotStatuses` reads the ads and the items of pending orders by two queries without a transaction (`active-ads.service.ts:378`):
  items of an order that is approved between them may be listed twice, as waiting items and as ads, or not at all.
  At the very moment an ad ends the lists of companies and a company's own list still show it, the tracked slots do not.
- Featured list. The API documentation (`companies.controller.ts:176`) promises all companies and `companyInfoHighlight` for highlight ads; the code returns only
  companies with a homepage display ad and does not read highlight ads (`companies.service.ts:1675`).
- Directory. `getCompanyDetail` refuses a member where a guest gets a masked page, even the member's own company once its
  first industry has left the member's industries. The directory does not filter by industry, though the comment at
  `company-masking.service.ts:116` speaks of it. Sort keys that are not unique
  may repeat or miss a row between pages; promoted companies come first within a page only.
- Catalogue. A discount above 100 is accepted, although the API documentation says `maximum: 100`; the final price is then negative.
  The setup script makes a price for several months as base × months × (1 − discount), `createPricing` and `updatePricing` as base × (1 − discount):
  an administrator who edits such a price loses the months. `Catalogue` models the rows administrators make.
- Seeding. The script knows a company by the contact that it deletes and writes again in two statements: after a stop between them, the next run makes a
  second company. Of an account whose address is taken when its user is made, the company stays without a user and the script ends.
- Accounts. A company registered again after its user was deleted is pending but not among the profile
  requests (`linkageWhere` in `auth.service.ts`), though the administrator's list of companies shows it. `Reachable` therefore
  asks for profile requests of approved companies only.
- Pipeline. The header of `03_merge.py` (lines 8-9) says that entries with the same name and at least one mail in common are dropped but for the
  first; the code groups by the whole set of mails, and merges. A branch's industries and tax number are lost (`branch` in
  `Gathers`). A region may become a list, which the import's `normalizeOptionalString` cannot trim. Entries may get equal ids, so that the import
  writes one company over another: the script counts such groups and goes on. A bare number before the first label is dropped; a name
  at the end of a line with numbers overruns a name that is still pending; flags that nobody placed are dropped from the
  final file; `--skip-enrich` reuses the file of an older edition. The committed output has no equal ids and no list of regions.
- Import. An entry without a tax number erases that of the company it is merged into, so that a later run may not find it.
  The address of a deleted user stops the whole script, on every rerun. An archived company becomes approved but stays inactive.
  A crash between the user and the bonus loses the bonus for good (`lost`).
- Showcase. An add-on for a details link that has no link of its own may hide the link of the one that was ordered (`Unlinked`).
  `POPUP_VIEW_DETAILS_LINK` is in no popup list, popup lists do not ask whether the company is active, and what print placements add to a
  company is dropped by every list (the print list names them itself).
- Directory. Contact types without a rule (hotline, zalo, register_email and others) and the tax number on the details page are shown whole.
- Gatekeeper. At the very moment of expiry a captcha still opens the form but is cleared away by the next one that is made.
- KnowledgeBase. Two crawls at once, which the internal route allows, can delete each other's chunks and leave the page empty
  under a stored hash, so that later crawls skip it, against the comment at `crawler.service.ts:156`.
- Conversation. The second summary replaces the first, so the assistant may remember less than the page shows; a question
  in progress during a deletion writes back what it held; an append retried after a lost acknowledgement may double an exchange.
- News. A feed that has read a draft before an editor publishes it may overwrite the published text but not its
  translation (`late`).

## 6. Proofs

The theorems hold for every value of the constants that satisfies the named assumptions: `Addons` are
pricings, prices are natural numbers, sets of pricings and prices are finite, request names differ from
the marker of a draft's items; capacity and days are positive; supported rows are rows; amounts, discounts and
gates are natural numbers; `None` and `Keep` are no value of what they stand in for; a company has room for four rows of
contacts; times and sizes are positive; the durations of blocks grow; files and databases are sequences of entries and
companies with the fields of `Fields`, and no company has been imported before; there are finitely many companies in a directory; `None` is no link and
lists of ads hold known types; editions are sequences of documents (`DocumentsAssumption`); the lists of the setup script have entries, and neither `None` nor an administrator is a demo member. Two theorems assume in addition `EditDuplicates = FALSE`.

- `AdOrdersProofs`. `TypeCorrect` first. The inductive invariant `Bookkeeping` ties effects to the
  requests that made them: an ad, an item added by an edit and a payment name a request
  that committed, a payment repeats what that request read, a request that is paying has committed,
  and an approval on its way holds an order with a company. It holds whatever overlaps, and
  `SettledForever` follows from it: a request that can still write has read the order
  before it was settled, or would not have been let in. `OrdersInv` adds, for orders on which nothing has overlapped,
  that items, status, ads and the single approval agree; `SumsInv` adds the subtotal. They are needed
  because the properties speak of orders only, while what protects an order is the
  state of the requests. `Implementation` maps every action to one of `OrderBook`, to `Break` if the
  order is raced, or to a stutter. The lemmas on `Total` (natural, additive over disjoint
  sets) rest on `FiniteSetTheorems`.
- `AdSlotsProofs`, of `AdSlots` and `AdCalendar`. `SlotInv` = types, `PlanInv` (an approval's ads are its own and not stored yet), `RoomInv` (an
  item whose check has not been outdated still has room) and `CapacityKept`. A write adds one such item to those that
  count on a day (`OneMoreIsFine`) or adds none (`FewerIsFine`).
  `BookingAgrees`, that is `CalendarAgrees` and `CheckAgrees`, follows from the types of the rows without an induction over steps of the
  system. All that run on a day of a booking are in its way, and of a booking of one day no others are (`RunningInTheWay`). The calendar is the harder part: `Count` at a step is the number of ads running (`CountOfDay`), it can only rise at starts and fall
  at ends, so a day is full exactly if the last crossing before it was a filling one. That there is a last crossing is
  `Crossings`, from the least number principle (`WellFoundedInduction`).
- `NotificationsProofs`. `InboxInv` = types, `AtMostOnce` and, for each process, that after a batch that was not
  full what it owes is projected or still in that batch: this is why a boot that ends has left
  nothing behind. Without it `BootCatchesUp` says nothing of a process before it is up.
  `InboxImplementation` maps inserts to `Notify`, readings to `Read`, the rest to stutters.
- `LoyaltyProofs`. `LoyaltyInv` = types, `PointsAddUp`, `SpendingAddsUp`, `TierFits`, and what the ghosts of an open
  request mean: a `sound` base is the account's points, a `current` reading is the account. The tier holds for any gates,
  ordered or not: the cascade finds the highest gate that is passed (`CalculatedTierFits`).
- `RegistryProofs`. `PeopleInv` = types, that rows which were never used hold nothing and users are linked to companies that exist
  (`RowsInv`), what each call knows of what it has read (`GoodCall`: the rows exist, an assignment has found its user
  free or linked there already, a revival has found the company by its address), and, unless a call has written on an outdated reading, that an approved
  company with a user has a live one (`FoundInv`), that one from a registration has a user at all (`MemberInv`), and
  `OneCompanyPerAddress`. `Reachable` speaks of companies without a user too, which is why `FoundInv` is weaker
  than `ApprovedHasMember`, but holds when contacts were replaced. `LinkStable` is an action property from
  `PeopleInv`. `PagesAgree` needs only that a listed company has a first industry (`ListsInv`).
  `ScriptInv` is the import's: an entry's lock is held by one process (`LocksApart`), the row an entry was last saved in says what the entry does
  (`SavedRows`), so a search that has tried a criterion of the entry in vain while that row exists tells that the entry lacks it (`Missed`), and whoever finds nothing in any way
  has an entry that cannot be identified: `SavedOnce`. `MembersMade` follows from `BonusInv` and `RegisteredInv`, with
  what each process knows of the address it has read (`Sound`) and that one process pays for an address (`AwardsApart`).
  `WalkInv` ties what a reader has met to positions: a walk that has read `skip` rows has met the companies that fewer than `skip` others come
  before (`Rank`), each once while nothing is written. If only other companies are written, a company's rank in the export can only grow, as what was written
  comes first now; so nobody is passed over. That a sorted sequence puts each row where its rank says is proved by counting (`FiniteSetTheorems`).
  `ShopInv` is the preview's: an order has one item of a type, an ad that was not touched is as its item was bought, and ads are
  told apart by what they were made from; the rest of `PreviewKept` is a comparison of the lists' conditions with the preview's, effect by effect.
- `PipelineProofs`. `BookInv` says what each file holds of the edition it was made of. After `01_parse` and `02_enrich` (`Single`) there is an
  entry for each row, `Sound`: it says what the row does (`Tells`), its names and tax number are those of one of its rows and its mails
  are theirs (`Named`, `Mailed`), and its rows belong together (`Akin`, `Settled`). That the cell of the contact people is read without a loss is shown line by line:
  `Reading` is a recursive function, which exists by the least number principle (`ReadingOf`), and what a line tells is there after it
  and stays (`LineReads`, `MixedReads`, `PeopleOf`). `GroupsPartition`: each place is in one group, and two are in the same one exactly if their keys are equal.
  So a round of the merge leaves every row in one entry (`Regrouped`), which is sound if keys are equal only among entries that belong together: `SameCompany` with
  `MergedSound`, `SameBranch` with `BranchSound`, `SameEnglish` with `EnglishSound`. `Held` is that, and `Kept` that rows with one tax number, or without one and with one
  Chinese name, are in one entry: the first round makes it so and the others keep it. `04_normalize` then loses nothing (`CompleteHolds`, `RelatedHolds`), and
  ids that are equal without an excuse are made of one tax number or one Chinese name, which `Kept` has put together (`ApartHolds`). `Kept` is
  why the order of the rounds matters. No assumption is made on what the language model answers or on which scripts fail.
- `ServicesProofs`. One invariant for each part. `KnowledgeInv`: a crawl that is alone between its chunks and its hash has its chunks
  stored, and before the hash only them. `CatalogueInv`: a reading that is not late is the row's. `ListingInv`: documents being
  uploaded have no row yet and differ from those of other uploads, and those about to get a row have their files. `ChatInv`: whatever memory, history and
  answers in progress hold is newer than the deletion or was held by a question then. `KeysInv`: `ChoiceInv` (at most one
  choice in progress, none made before), `LinkInv` (a link that was never shared is held by one call and gone after use),
  `NewestLinkWorks` and `RoleInv` (a token of another role was signed before the role changed); `LinksHold` follows from the second and third. `CardsInv`: what a call that is
  not late will keep and add has no duplicates and shows what it saves. `GateInv`: what the detector remembers of a person is the latest
  end of a block (`UntilInv`), the streak of equal messages, whole if it has no pause (`CountInv`), and a violation for each block without a pause since
  (`ViolationsInv`); a sweep contradicts a message that came lately, so what it forgets no longer matters. That blocks grow rests on durations that do.
  `SetupInv`: `PlaceInv` says what the script can have found out where it is. `CompaniesInv` counts: only an account that has a company it can be found by, or is just
  getting one, may have one more than there were stops and edits, since a stop, or an edit, is needed to lose the address again. `MembersInv`, `OffersInv` are the rest of `SeededOnce` with
  what the script knows between looking and making. `EverInv` says that an entry which any completed run or this one
  has gone through (`Ever`) is there for good, `RunInv` what only this run can promise while nobody does anything; together they are `SeedCompletes`.
- `NewsProofs`. `SameStory` is inductive together with the types: only `writeSummary` publishes, and it writes all
  texts at once; an update of a published article was read while it was open, so it counts as `late`. No fairness is needed.

Types are proved in the modules that have a proof, by a theorem or as a part of the invariant, rather than checked by a run of their own; so is
`AdsHaveItems`, that an ad's item exists in its order whatever overlaps.

Every invariant, action property and refinement of the passing runs has a theorem. Only model-checked: `EventuallyNotified` and `EventuallySettled`
(liveness under fairness is out of the prover's reach), and the counterexamples of section 5.

## 7. Not modelled, and the plan

- The HTTP layer, guards, DTO validation: the models take input that has passed them. Mail, file storage and generation, health: input and
  output, whose failures are swallowed or passed on by the callers.
- The language model, embeddings, search and retrieval: external, or they only read.
- Featured companies, the counter of a property's views, ad categories as administrators edit them (but for what that does to the setup script): single statements.
- Reads that decide nothing: lists of active ads by type (which never works, section 5), by company and of tracked slots, lists and metrics of orders, invoices, the search, the audit activity list with its formatter.
- Names, logos, texts and translations of notifications.
- In `scripts/import-2026`: how a cell of names and a list of numbers are split, countries, the clean-ups of split addresses, quoted values and
  stranded hotlines, printed summaries. They rewrite values one by one and decide nothing about which rows belong together.
- DTOs, controllers, templates and formatters, and the rows that `prisma/seed.ts` lists, are the larger part of the
  repository's lines, and the reason why the map covers about a third of them: the models take what changes state, or what decides who sees what.
- Row locks: a deadlock of two transactions is a `Fails` step, after which every invariant must hold.

Planned: an abstract register of members that `Accounts` refines.

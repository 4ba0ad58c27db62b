# Verification of E-signature-api

TLA+ models of the state-changing core of this service, checked with TLC on
small instances, and theorems about them checked with TLAPS for every instance.
Paths such as `services/...` are relative to `src/app/api/` of the repository.

## 1. Inventory

The service is a Next.js API over PostgreSQL (Sequelize 6, READ COMMITTED, no
row locks taken by hand) with an external authentication service, an SMTP and an
SMS provider and S3. Kubernetes runs two to four replicas. There are no tests.
Each request is an `async` handler: between two `await`s it is alone in its
process, at each `await` any other request of any replica may run. Nothing but
the database and the bucket is shared between replicas.

| part | state | operations | what makes it correct |
|---|---|---|---|
| Signing workflow (`services/documents/getDocument`, `createDocument`) | `Document.status`, `documentSignData` (one JSON column), `Recipient.signingStatus` | `updateStatus`, `rejectDocument`, `updateDocumentData` | COMPLETED only if all have signed; completed once all have; no signature, field or rejection lost; the owner is told |
| Sending and links (`sendDocument`, `createDocument`) | `Recipient.sendStatus`, `authToken`, `DocumentMeta.emailSettings` | `initiateDocumentSigning`, reminders of `updateStatus`, `getDocumentForPublic` | a mailed link opens the document; whoever was to be mailed is SENT |
| Recipient list (`createRecipient`) | the `Recipient` rows | `createRecipientService` | the rows become the list; one row per address; no signature lost |
| Database connection (`db/connectDb`) | `isConnected`, `isSyncing`, `syncPromise` of each process, the database | `connectDb`, `ensureDbConnection`, `performSync`, `createDatabaseIfNotExists` | one schema sync at a time; no request before it has ended; every request ends |
| Deletion (`controllers/folders`, `createDocument`) | `Folder`, `Document`, `DocumentData` rows, the pool of 5 connections | `deleteFolder`, `deleteDocument`, `addDocumentToFolder`, `createFolder` | all or nothing; nothing of others; recipients are told; connections are given back |
| Other folder operations (`controllers/folders`) | `Folder` rows | `createFolderPath`, `createFolder`, `renameFolder`, `listFolders` | a path leads to its folder; one folder per path; breadcrumbs are paths |
| Upload, document creation (`files`, `put-file.server`, `createDocument`) | `DocumentData`, `Document`, S3 objects | `savePdf`, `createDocument`, `updateDocumentFile` | no row without its file; a document shows its own file |
| Signed document (`getPresignedUrl`) | none of its own; the PDF or DOCX it builds | `getPresignedUrlService` | every signer's marks, in their own fields; no document in part; a package that opens |
| Activity log (`logActivity`, `getRecentActivity`) | `ActivityLog` rows | `logActivity`, `getRecentActivity` | each change logged, and once |
| Users and sessions (`services/auth`, `lib/withApiAuth`) | `User` rows, the central service's accounts | `findOrCreateLocalUser`, `updateUserProfile`, `withAuth` and the routes under `v1/auth` (`login`, `logout` and `register` answer 501) | one row per account, which follows the account's address; nobody gets another's row |
| API keys (`services/apiKey`) | `ApiKey` rows | create, list, revoke, check | a key stays with its account; a revoked key is refused (keys do not expire) |
| Queries (`getAllDocument`, `getDocumentStatuses`) | none | listing page by page, counting | all documents are on some page; the numbers agree |
| E-mail, SMS, JWT, audit log, OpenAPI | none | pure output | not modelled (section 5) |

How they interact: an upload makes the row from which a document is created, in
a folder; `send` gives a recipient a token, with which
`getDocumentForPublic` opens the document; the recipient then saves its fields
(`updateDocumentData`) and signs (`updateStatus`), which may mail reminders to
the others; `getPresignedUrlService` renders what was saved. The owner may edit
the recipient list, reject, replace the file, or delete at any
of these moments, and each change writes the activity log. Every route awaits
the database connection first, and every query and transaction takes a
connection of the pool.

The hard behaviours: read-modify-write of whole rows across several awaits,
without locks; promises that outlive their request; loops of queries without a
transaction, which stop halfway; look-ups before insertions without a unique
index; objects of a bucket under keys that two files can have; nested
transactions over a small pool; single-flight initialisation. `PROJECT.json`
lists each at its line under `hazards`, with the property that covers it.

## 2. Modules

`X.tla` is a component, `MCX.tla` its instances for TLC, `XProofs.tla` its
theorems (`ViewProofs.tla` those of Dashboard and of SignedPdf, whose specification is
therefore called `RenderSpec`). In all of them but SignedPdf a request is a process with a program
counter `pc`; an
action is the code from one `await` to the next, named after the query it
awaits, so that a step reads or writes the database once. `Abort`, `Fail...`
stand for a failing query and, where nothing else distinguishes them, for the
death of the process. Definitions commented "Seeded fault" are plausible mistakes
that no action uses; they serve to check that the properties can fail.

**DocumentSigning** (`getDocument.services.ts:57-375`,
`createDocument.services.ts:439-560`, `files.controller.ts`). One document.
`loaded`, `row`, `seen` are the Sequelize instances that a handler holds;
`SaveDocument` writes only the attributes that differ from the loaded ones, as
`save()` does. `documentSignData` keeps the three parts that the handlers treat
differently (fields per signer, top-level signature, rejection), a value being
its writer. The history variables record who changed a row last, whether all had
signed at some moment, whether two requests overlapped, and the data had every
write been atomic.

**SigningLinks** (`sendDocument.services.ts`, reminders of
`getDocument.services.ts:194-247`, `createDocument.services.ts:397-436`). A
handler and one task per recipient, because the promises of `map(async ...)` run
on after the handler returned. A token is the request that made it.

**RecipientSync** (`createRecipient.services.ts`, the colour check of
`files.controller.ts`). Rows by id, entries written one after another, signers
saving rows in between. A signer's answer is COMPLETED, REJECTED or another status,
as `updateStatus` has it: a rejection is saved over a signature as well, and with
another status nothing is saved (`Answers`).

**DbConnect** (`db/connectDb.ts`). Several replicas with flags of their own and
one database. All requests that await `syncPromise` continue in the step that
settles it, since Node.js runs promise continuations before the next event. A
replica outside of `Configured` has no `NEXT_PRIVATE_DB_NAME`, or the fallback's:
there `connectDb` returns at once and every request goes on without a database,
so that `ReadyMeansSynced` is about the configured ones.

**FolderDeletion** (`folders.controller.ts:31-92, 249-423`,
`createDocument.services.ts:167-290`). A tree of folders, documents that may
share their `DocumentData`, and the pool: a transaction holds a connection from
its begin to its end, a query outside of one needs a free connection for its
step, and whoever finds none waits or times out.

**Accounts** (`auth.services.ts`, `withApiAuth.ts:131-200`, the controllers of
`auth` and `apiKey`). The central service is an environment that gives accounts
new addresses at any time; a request takes the account and the address of its
session, finds, creates or updates the row, and goes on to its own query.
`sync-user` takes them from its body unchecked (`body.centralizedUser`,
`auth.controller.ts:47`), so `Sync` has any account with any address; `used` keeps
with which addresses each account has come, in sessions and in bodies, and the
properties about whose row is whose hold while no address is that of two accounts
(`NoneShared`).
Created rows and keys have the ids of their requests. `Violates` is the two
unique indexes of `User`; an insertion that meets one fails or looks again,
since Sequelize's `findOrCreate` does either. The substitute user of a failed
sync has `Number("user_123")` as its id, which every handler of keys refuses
(`AfterSyncError`). Names and roles are left out.

**AtomicDocument** is what DocumentSigning implements: a document whose requests
each change a recipient's row, or the document, in one step from what the tables
hold at that moment. DocumentSigning's `Atomic` is its instance with
`calm <- ~overlapped` and `agreed <- everAllSigned`, `ImplementsAtomic` its
specification. After two requests have been in flight together the abstract
document may take any content (`WriteOldCopy`), but becomes COMPLETED only if
there was a moment at which every recipient had signed.

**FolderPaths** (`folders.controller.ts`: `createFolderPath`, `createFolder`,
`renameFolder`, `listFolders`). The table is a function from ids, which grow, to
name and parent. A deletion is two steps here, the reading of a subtree and its
destruction; FolderDeletion has the whole of it. `maker`, `together` and
`disturbed` record which request made a folder, which were in flight together,
and which had come before a folder was renamed or deleted.

**Uploads** (`files.services.ts`, `put-file.server.ts`,
`createDocument.services.ts`: `createDocument`, `updateDocumentFile`). A file is
the request that uploaded it; the bucket has one object per key. A key is made of
the organisation's id, the user's and the file's name; the model has one user, of
whom two uploads of one name collide. A replacement may come without `initialData`,
which stores `''` (`NoFile`), and nothing is rendered until the next one. `fileOf`,
`namesOf` and `puts` record which file a row is meant to hold, under which names it
has gone, and what was put under each.

**Filing** composes FolderPaths and Uploads: the folder an uploaded document is
put into is looked up in the same table, and its ON DELETE acts on both. `Loads`
are the mixtures of requests of a run.

**SignedPdf** (`getPresignedUrl.services.ts`). The service reads three rows and is
then alone; its state is how far it has come, and an action is one turn of one of
its loops: over the fields of a PDF, over the certificates, over the placeholders
of a DOCX, over its signatures. A text or an image is the signer it belongs to, a
position is its rank in reading order; the ids that tie images, relationships and
markup of a DOCX are kept. The colour of a field is a parameter only in so far as one
of the form `#RGB`, which `files.controller.ts` accepts, makes `rgb()` throw
(`RefuseColor`); an image of a DOCX whose relationships have no closing tag is not
drawn (`Pack`).

**ActivityLog** (`logActivity.services.ts` with its callers). The clock ticks;
transactions that have written a document's row keep it locked until they commit,
and log before that, on another connection. `wrote` are those: a `save()` that finds
nothing changed sends no query, and a change of a document that is gone meets no
row, so that neither waits for anybody.

**DocumentList** (`getAllDocument.services.ts`, `getDocumentStatuses`). A reader
goes through the pages, each of which is two concurrent queries and two more; equal
`createdAt` come in any order, another one for each query. The status and the period
are filters of the list and of its count (`Where`), but the statuses and the total
beside them are counted without (`Ever`). The period goes back from the moment a page
is asked for.

**Dashboard** composes ActivityLog and DocumentList over one table, and creates
documents.

The other six components are independent: each owns the columns its handlers
write, and what another handler does to them is an action of that module
(`SaveSigner` of RecipientSync is `updateStatus`, `Remind` of SigningLinks is its
mails).

## 3. Runs

Bounds are the constants in the `.cfg`; nothing else is bounded, as each request
is handled once. Two requests suffice for every race of two handlers; a third is
there where a property speaks of somebody between the other two.

| run | instance | shows |
|---|---|---|
| `signing_all` | 2 recipients, 2 requests with any body, DRAFT, settings on or off, faults; 625,000 states | what no interleaving or failure breaks (`CompletedNeedsAllSigned`, `LastSignerSeesAll`, `OwnerTold`), what holds without overlap (`CompletedAgreesWithoutOverlap`), and that AtomicDocument is implemented (`ImplementsAtomic`) |
| `signing_live` | 3 requests that sign or save, PENDING, no faults; 73,000 | `AllSignedLeadsToCompleted` under fairness |
| `signing_stuck` | 2 signers, DRAFT | violated: the owner is told "completed" and the document stays PENDING |
| `links_all` | 2 addresses, 2 requests with any body, faults; 2.6 million | `MailedLinkOpens`, `AwaitedSendReaches` |
| `recipients_all` | 2 addresses, 1 phone, 2 colours, lists of up to 2 entries, 2 requests that sync, sign or reject, faults; 4.8 million | `OneRowPerRecipient`, `ListStored`, `DoubleSubmissionSafe`, `SignatureKept` |
| `connect_all` | 3 replicas, one in development, one without a database name, 3 requests, database there or not, faults; 140,000 | `ReadyMeansSynced`, `ReleasedWithoutSync`, `EveryRequestEnds` |
| `folders_all` | every tree of up to 2 folders, 2 documents, 2 requests with any body, both ON DELETE actions, pool of 3, faults; 1.3 million | `SuccessDeletesTree`, `OthersKept`, `GoneMeansTold`, `ConflictNeedsAddition`, `EnoughConnections` |
| `folders_live` | 1 folder, 2 documents, 2 requests, pool of 2; 23,000 | `EveryRequestEnds`: also requests that wait for each other's connections end |
| `accounts_all` | 2 accounts, 3 addresses, 2 requests of any kind, sync-user with any account and address, any users known before, faults; 2.2 million | `KeysOwn`, `SignatureOwn`, `SyncErrorNeedsOverlap`, `SyncedAgrees`, `RevokedRefused` |
| `filing_all` | 3 requests about folders, 3 or 4 about files, or 1 and 2 of each, one of them aborted, both ON DELETE actions, bucket or database; 1.1 million | `PathReached`, `DuplicatesOverlap`, `BreadcrumbsWhole`; `FileKept`, `RendersOwn` |
| `dashboard_all` | 3 requests that change 2 documents while the clock ticks, or 2 of which one fails to log or to commit; or a client who reads pages of 2 of 3 or 4 documents, with a period or without, beside 1 or 2 requests; 1.3 million | `ChangeLogged`, `DoublesOverlap`; `PagesComplete`, `CountsAgree` |
| `pdf_all` | files with 2 fields of 2 signers, every content the clients store, one or two things wrong; 4.4 million | `OwnMarks`, `NoneMissing`, `NullExplained`, `CertificateOwn`, `PackageConsistent` |

Pools of 2 and 3 stand for the 5 of the code: two folder deletions exhaust the
first, and reach the boundary of `EnoughConnections` in the second. In
`recipients_all` the lists name nobody twice and tables start with at most one
row, which keeps the run short; two rows arise by creation. In `accounts_all`
three addresses let both accounts change theirs, to a free one or to one the
other has given up; with two requests one may come between the queries of the
other, or follow it with a newer session or an older one.

In `filing_all` and `dashboard_all` each member of `Loads` bounds a part of the
composition: how many requests of each kind come, how many are in flight together
and how many of them fail. Three requests about folders are two that race on one
path and one that renames, deletes or lists; the paths share parts and have a name
twice. Four about files, two at once, are two uploads, a document and its
replacement or normalisation, with two names. A minute is one tick and the clock
has two, so that an entry is held back, doubled, or older than a minute; a week
is two ticks. A list of 3 or 4 documents with 2 on a page has a second page that a
new document can push another to; a tick moves the period past the oldest. In `pdf_all` two fields are enough for one
to cost the other its mark, a list of texts or signatures has every set of entries
of the two signers, and the package has no image yet, one, or two that are
numbered above its ids.

Symmetry is used where the model values are interchangeable, and never with a
liveness property.

Fairness. `FairSpec` says that a handler that has started goes on: an `await` on
a query is settled, a wait for a connection
ends with one or with the pool's acquire timeout (30 s). It never obliges a client to send
a request. Liveness runs have no faults, except `connect_all`, where failing is
an end as well.

One run is expected to be violated, and is a finding that quotes what the
repository itself says: `signing_stuck`, `getDocument.services.ts:136` against the
mail "All recipients have successfully signed your document".

Met while modelling, without a run of their own:

- Signing and sending: the link of a reminder opens nothing, as its token is
  stored nowhere (`getDocument.services.ts:196`), although the button says "Review
  & Sign Document"; a send answers success though no mail was accepted
  (`sendDocument.services.ts:181`); the last signer without signature erases a
  stored one (`getDocument.services.ts:129`).
- Recipients: a removed recipient without phone is kept
  (`createRecipient.services.ts:30`), against the comment there; two
  recipients who exchange their colours fail halfway at the unique index although
  the controller accepted the list (`createRecipient.services.ts:82`).
- Database: "Sync only once" (`connectDb.ts:108`) holds only while the first sync
  runs; `createDatabaseIfNotExists` can fail because somebody else has just created
  the database (`connectDb.ts:35`); `files/presigned-get-url/route.ts:38` awaits
  `connectDb` and is let through while a second sync alters the tables.
- Deletion: "Folder deletion aborted." is answered after documents were deleted
  (`folders.controller.ts:339`); a document that was moved out of the folder is
  deleted all the same (`folders.controller.ts:324`); recipients are told of a
  deletion that is then rolled back (`createDocument.services.ts:229`).
- Activity log: the comparison ignores whose signature an entry is about, so that
  two signers within a minute leave one "sign" entry, and a rejection within a
  minute of a save leaves none (both are "update").
- Files: a normalised row has the key of the bucket as its `initialData`, which is
  what gets rendered, and cannot be parsed as a file; the condition of
  `RendersOwn` says so.
- Lists: the numbers of the statuses and the total are counted "with the same filters"
  (`getAllDocument.services.ts:183`, `:220`), but without the period of the list
  (`:89-97`), so that with one they exceed what the list has; `CountsAgree` claims
  equality only without one. The search looks through the fetched page only, and the recipients are not
  attached, although the comment says so (`getAllDocument.services.ts:117-118`).
  `totalItems` is counted beside the rows, so a client may stop paging
  too early; `PagesComplete` excludes this.
- Rendering: on the certificate a missing signature is replaced by that of the
  first signature field, or the document's, whoever's it is
  (`getPresignedUrl.services.ts:616`), under a comment that says "resolve the
  correct signature" (line 597); one text that Helvetica cannot encode costs every
  signer the document, and so does one recipient's colour of the form `#RGB`
  (`getPresignedUrl.services.ts:402`, `:995`), which the controller accepts
  (`files.controller.ts:62`) (`NullExplained`).
- Accounts: nothing ties the body of `sync-user` to the session
  (`auth.controller.ts:47`).

## 4. Theorems

Every invariant and action property that a run checks is proved, and so is the
refinement; besides them each `TypeOK` (for Dashboard `DashboardTypes`),
`NothingLostWithoutOverlap`, `ToldAreGone` and `SyncsExclusive`, for all values of
the constants. The proofs assume only the named assumptions of each module (bodies
and initial values have their types; `None`, `Root`, `Owner` are not among the values they
stand beside; in RecipientSync the initial tables have distinct addresses and
ids below the sequence's; in Accounts ids of
accounts and of requests differ; in Filing and Dashboard `ConstantsOK` of both
parts, and in Dashboard the first documents have the ids that have been given; in
SignedPdf jobs and fields have their types). The theorems of Filing and Dashboard
hold for every `Loads`, however large, since no proof uses its bounds.

- *DocumentSigning.* `TypeInv` adds to `TypeOK` that a handler at a given query
  has the body for it (`Control`). `CompletedSafe`: `SeenInv` says that a
  handler about to save, having seen all rows SIGNED, implies that there was such a
  moment. `LastSignerSafe`, `OwnerToldSafe`: `ChangerInv` says that after the
  last change of a row nobody else has changed one, so that the changer's
  `findAll` returns the rows as they still are. `NothingLostSafe`,
  `CompletedAgreesSafe`: `SerialInv` says that as long as nothing overlapped,
  the one running request holds the current row, so that its write-back equals the
  atomic write. `AtomicRefined` (`ImplementsAtomic`) takes one step per action:
  from the same invariants each is a step of AtomicDocument or leaves its
  variables alone, and what an overlapping handler writes is a `WriteOldCopy`.
- *SigningLinks.* `LinksOpen` rests on `LinksMailed` (every link in an inbox
  comes from a task beyond its mail), `SentStored` (SENT rows have a token),
  `OneBusy` and `OneMailer` (without overlap one request at most is active, and
  an address was mailed by one request only, because afterwards it is SENT).
  `AwaitedReaches` rests on `Considered`: a handler that has read the rows has
  for each of its recipients a task or found it SENT.
- *RecipientSync.* `SameEmail` (an instance has the address of its row) and
  `OwnAnswer` (a signer about to save has the row of its own address) give
  `SignatureSafe`; `Told` (whoever was told is still in the destroying sync's list of
  rows, or gone) gives `ToldSafe`; `OneSync` and `OneRow` (without overlap, what
  the sync has loaded is what remains) give `OneRowSafe`. For `ListSafe`,
  `LoadedAgrees` (without overlap the loaded instances are the rows of the list)
  and `Written` (each entry before the current one has its row)
  carry `Stored` along the list. For `DoubleSubmission`, `AddedIsListed` says
  that a row that appears has an entry of the one list, and the unique colour of its
  entry keeps a second one out.
- *DbConnect.* `SyncKnown` ties `isSyncing` to the running syncs, `Reached` ties
  `pc` to the database and to completed syncs.
- *FolderDeletion.* `TypeInv` ties the connections held to `pc`. `Told`: a
  document about to be destroyed has been mailed. `Processed`: each listed
  document is left, current, failed or gone. `Succeeded`, `Known`: what a
  deletion has found stays found, and created folders have fresh ids. `Closed`:
  unless disturbed, the collected folders are closed under subfolders and
  documents. `ConnectionsSafe` counts: `Counted` says that the free connections, the
  requests that hold one and, once more, those that hold two make the pool, by a
  lemma for acquiring and one for releasing; `HoldersKnown` that whoever
  holds one is active or has leaked it, and that only folder deletions hold two.
- *Accounts.* `Revoked` (an answered revocation holds) gives
  `RevokedRefusedSafe`. The others rest on `Sound`, what holds while no address
  was ever that of two accounts (`NoneShared`): `Mine` (a row has had only addresses
  of its account, so that the query finds no other's; whoever has a row, has its
  own), `Owned` (keys and signatures), `Absent` (the row that an account without
  overlap is about to create is still missing) for `Served`, that is
  `SyncErrorSafe`, and `InStep` for `SyncedSafe`. `OneRow` follows from the
  unique index, `Sole` from the meaning of overlap: of an account without, only
  the latest request runs. `UpdateMine` shows that an update then cannot fail.

- *Filing.* Two invariants, one for each table, which every step of either part
  keeps. `FileInv`: a row's data were put under one of the names its file has had,
  and so were its `initialData` (`Holds`); `IsPut` carries this from the upload to
  the insertion of the row. If nothing else was put under these names, the row
  leads to its own file (`OwnFile`). `FolderInv`: a request for a path is at the
  end of the parts it has come to (`Follows`), and the crumbs known of a folder lead to
  it (`CrumbsLead`); both are chains of folders (`LeadsIn`), which more rows leave
  as they are (`LeadsOn`) and which grow at either end (`LeadsNext`,
  `LeadsBefore`). A step that changes rows disturbs whoever has come, of whom
  nothing is claimed then. `DuplicatesOverlap` needs `Missed`: a folder that was not
  found and is there nevertheless has been made by a request in flight.

- *SignedPdf.* `Loops` says which loop runs for which kind of file, and over which
  fields. `MarksAreOwn` looks at the one mark a turn makes (`TurnOwn`).
  `NullIsExplained`: `NoExcuseYet`, none of the fields that have had their turn is
  undrawable, carried to the end of the loop. `NoneIsMissing`: `MarksSoFar`, each of
  those fields has its mark; for a DOCX also `OpenSoFar`, the placeholders before an
  open one have been taken by fields that fill them, since a placeholder is
  given to the first field without regard to whose it is. `CertificateIsOwn`:
  `Pages`, the pages are a prefix of the signers to be certified. `PackageIsConsistent`:
  `Numbered` (the ids given lie above those the package had, and below the next
  one) and `Linked` (an image has its file from its turn on, and a relationship from
  `Pack` on).
- *Dashboard: the log.* `ChangesAreLogged`: `Logged`, a request that has come past
  logging has an entry or found one that was a minute old at most. `DoublesDoOverlap`:
  `Flight` (requests in flight together are known as such, and of the transactions
  that have written one document's row only one runs), `Authors` (an entry is of a request
  past logging) and `Checked`: a request about to create an entry has, when it looked,
  seen all that stand in its way but those of requests in flight with it, which have
  not both written the row.
- *Dashboard: the list.* `CountsDoAgree`: `Numbers`, what has been counted for an
  unfinished page is still what the table holds, and the list of all documents is the
  disjoint union of the four statuses (`SumOfCounts`), and a period only narrows one
  (`PeriodNarrows`). `PagesAreComplete` counts: the
  rank of a document is the number of those that are as late or later; a query has the
  document at its rank (`RankAt`), a list that only grows raises ranks
  (`RankRises`), and no rank exceeds the size of the list (`RankRange`). `AllSeen`
  says that a document the list began with is on a page that has come, unless its rank
  lies behind these pages; on the last page, which ends behind the list
  (`LastPageEnds`), none does. `torn` keeps the size fixed from the reading of the
  rows to that of the count, or the other way round.

Only model-checked: the liveness properties `AllSignedLeadsToCompleted` and
`EveryRequestEnds` (of DbConnect and of FolderDeletion), as TLAPS cannot prove
liveness under fairness.

## 5. Assumptions and limits

- Tokens of different requests differ. Two JWTs for the same address in the same
  second would be equal, which is harmless to the property.
- The unique index on (documentId, color) is the one that `recipient.model.ts:135-146`
  declares.
- Outside development `performSync` does nothing; migrations are external.
- ON DELETE of the foreign keys is not in the repository (the tables come from
  migrations or `sync`), so FolderDeletion checks both NO ACTION and SET NULL.
- FolderDeletion has one replica (the pool is per process) and the requests of one
  user. A timeout of a handler's first query changes nothing and is left out.
- Address changes of the central service keep addresses unique there. When an
  address passes on to another account, or the body of `sync-user` gives one
  account's address to another, that request takes the row, keys and signature of
  the account that had it, because the row is found by id or address, or fails on
  the unique index. Sync covers both; the properties exclude them (`NoneShared`),
  as nothing in the repository says what should happen.
- In FolderPaths the table is one user's, and the counts beside listed folders are
  left out. Ids grow by one; a failed insertion does not use one up, which makes no
  difference to the properties.
- In Uploads `normalizePdf` is taken to keep what the file is, and
  `slugify` to give files of different `Names` different keys. A bucket answers the
  object put last under a key.
- In ActivityLog a row that a transaction has written stays locked until it ends,
  as PostgreSQL does; the clock of the replicas is one.
- In DocumentList a query sees one state of the table (READ COMMITTED), and the filters
  that all of its queries have (user, team, folder) are left out: they only narrow
  the table.
- In SignedPdf geometry, fonts, colours and markup are left out; that `pdf-lib`
  refuses a character outside of WinAnsi, an image that is neither PNG nor JPEG and a
  page that is not there is taken from how the code guards against it.

Not modelled: the templates and transports of e-mail and SMS (pure output; the models
record which mail is handed over, and that `sendEmail` answers false instead of
failing); JWT (a library signs and verifies; a token is opaque); models without
behaviour, such as the audit log, which is written in the transaction that creates a
document; `getDocument`, `getDocumentBySource`, the search and the other
filters, which read and change nothing; OpenAPI.

## 6. Plan

Done, in this order: DocumentSigning, SigningLinks, RecipientSync, DbConnect,
FolderDeletion, Accounts, each with its theorems; AtomicDocument and the
refinement; SignedPdf; FolderPaths and Uploads, composed by Filing, with its
theorems; ActivityLog and DocumentList, composed by Dashboard; the theorems about
Dashboard and SignedPdf.

Next, most important first:

1. Composition of signing with the recipient list and with deletion on the same
   rows, and of `updateDocumentData` with the pool.
2. An abstract folder deletion and an abstract recipient list, implemented by
   FolderDeletion and RecipientSync as DocumentSigning implements AtomicDocument.

# A verification project for Ponzu

Ponzu is a content management system in Go: a server with a JSON API for
content, admin pages, and bolt databases for everything it stores. This
directory holds TLA+ models of the parts of the server that keep state and of the
scripts of an admin page (the rich-text editor above all), the TLC
configurations that check them on small instances, and theorems that TLAPS checks
for every value of the constants. `PROJECT.json` lists, definition by definition,
the lines of the source each model stands for.

## The system

All state is in two bolt files (`system.db`, `analytics.db`), a directory of
bleve indexes, a directory of uploaded files, and the memory of one process. A
bolt write transaction runs alone and commits entirely or not at all. Read
transactions run beside it on a snapshot. Every HTTP request is a goroutine, and
the handlers start further goroutines that nobody waits for. Nothing spans two
transactions: what a handler read in one may have changed when it writes in the
next. That is where most of what is hard here comes from.

| Component | State it keeps | Operations | Works with |
|---|---|---|---|
| Content store (`system/db/content.go`, handlers of `system/api` and `system/admin`) | buckets `T` (public) and `T__pending`, each with a sequence | `insert`, `update` (replace or merge), `DeleteContent`; API create, update, delete; admin edit, approve, reject, delete | slug index (same transaction); afterwards sorted content, HTTP cache, search index |
| Slug index (`content.go`) | bucket `__contentIndex`: slug to `type:id` | entry made by `insert`, removed by `DeleteContent`, consulted by `checkSlugForDuplicate` and `ContentBySlug` | content store |
| Sorted content (`content.go`, `db/init.go`) | bucket `T__sorted`; in memory the time of the last sort, delayed goroutines | `SortContent`, debounced by `enoughTime` | called after every change of public content, and at the start |
| Settings and HTTP cache (`db/config.go`, `db/cache.go`, `admin/config`) | record `settings` in `__config`; `configCache` in memory; open settings pages | `SetConfig`, `PutConfig`, `InvalidateCache`, `LoadCacheConfig`, settings page | called after every change of content, and at the start |
| Analytics (`system/api/analytics`) | channel `requestChan`; buckets `__requests`, `__metrics` | `Record`, `batchInsert`, `batchPrune`, `ChartData` | called for every API request, and by the dashboard |
| Admin users (`db/user.go`, `admin/handlers.go`) | buckets `__users` (by email) and `__recoveryKeys` | set-up, add, edit, delete, forgot, recover | tokens held by browsers |
| Search index (`system/search`, goroutines of `content.go`) | a bleve index for each searchable type | update and deletion in goroutines, query | content store |
| Paging (`Query` in `content.go`) | none; reads `T__sorted` | pages of rows by count, offset and order | sorted content |
| Uploads (`db/upload.go`, `admin/upload`) | files; bucket `__uploads` | store files, record, delete | forms of the content store, slug index |
| Addons (`system/addon`, `db/addon.go`) | bucket `__addons` | register, enable, disable, settings | |
| Start of the server (`db/init.go`, `cmd/ponzu/main.go`) | | create buckets, load and invalidate the cache, sort all types, store the ports | all of the above |
| API reads and queries (`api/handlers.go`) | | content by id, by slug, paged; hooks | paging, slug index |
| Rich-text editor (`editor/js/materialNote.js`) | the editable's document and selection, the stack of snapshots, the code view, dialogs, drags | commands of toolbar and keyboard, undo and redo, uploads, code view, mouse | the hidden input of the form, the upload handler |
| Rich-text field (`editor/elements.go`) | the hidden input | copies the editor's content on every event | editor, form |
| Form of an item (`editor/editor.go`, `manager/manager.go`, `common/js/util.js`) | the action of the form, the fields of the date | save, approve, delete, reject; time to fields and back | edit, approve and delete handlers |
| Tooltips (`ckMaterializeOverrides.js`) | counter, flag, interval; fades under way | mouseenter, mouseleave, timer, end of a fade | |
| Backup, command line, TLS, item interfaces | | I/O, files, child processes | |

### What is hard, and what would make each component correct

**Content store and slug index.** A form stays open for as long as a browser
does. `UpdateContent` and `DeleteContent` read an item in one transaction and
write in another. `update` puts its copy at an id whatever is there by now, so a
late save brings a deleted item back. Slugs come from titles or from clients;
`insert` overwrites index entries; pending items get slugs that are never
indexed. Right would be: an entry never leads to nothing or to an item of
another slug; stale copies never change an item's slug, take an entry back or
take an id to come; every public item can be found by its slug (not so); a merge
leaves alone what its form does not hold (not so).

**Sorted content.** The debounce is a test and an update in two critical
sections, with goroutines that wait and then look again. Sorts may overlap.
A deletion whose `InvalidateCache` fails returns before its sort. Right would be: no
transaction that a sort was called for is forgotten; every one is reflected in
`T__sorted` in the end; when all is quiet, `T__sorted` is the content (not so).

**Settings and HTTP cache.** All settings are read, changed and written to
change one, through a textual form; the cache in memory is set after the
transaction, under another lock. Right would be: the cache is what is stored;
every change of content renews the Etag (not so with a large Max-Age).

**Analytics.** Requests pass through a bounded channel and a batch; the
dashboard counts stored requests, keeps the figures and deletes what it has
counted, in two transactions, while other dashboards, batches and prunes run.
Dates have no year. Right would be: nothing uncounted is deleted by the
dashboard; a figure once stored stays; requests are counted on their day (not
so) and pruned when old (not so: all are pruned); nothing is stuck in memory.

**Admin users.** Accounts are keyed by email and can change it; a handler saves
under the email it has read. Right would be: an account is there once; deleted
accounts stay deleted; the last user cannot be deleted.

**Search index.** Every write leaves a goroutine for the index, and nothing orders
them; a failing `InvalidateCache` returns before the goroutine is started, a stop
loses those under way, and writes of pending items go to the public item of the
same id. At a start the indexes are opened while requests are served already, and a
goroutine that finds none does nothing. Right would be: every write is indexed (not
so); at least a write that raced with nothing and found the index open puts the index
right, whatever went before.

**Paging.** Rows are keyed by `time:position` as text, and bounds are computed for
a page that may start past the end. Right would be: reading on gives every row
once, newest first.

**Rich-text editor.** Commands take a tree apart and put it together around a
selection that moves with it; each snapshot is HTML and two paths. The browser
may put a caret almost anywhere, nodes get detached while variables still hold
them, and an exception ends a command halfway. Right would be: the document
stays a tree with the selection in it; no command loses text that was not
selected, or leaves an item outside a list or a block inside a paragraph; undo
goes back exactly along what was recorded; a command leaves a selection for the
next one.

**Field, code view, uploads.** What is displayed, what is sent, and what undo
knows are three copies, kept in step by events that some changes do not trigger;
an upload is answered whenever it is. Right would be: they agree.

**Dialogs, drags, tooltips.** Handlers are added at each showing and shared between
the editors of a page; `off` removes everybody's. An image is inserted when it has
loaded or its upload was answered, wherever the selection is by then. Right would be: a
click reaches one place; an image comes where it was asked for; what was resized is
recorded; a dropzone is displayed while something
is dragged; a tooltip goes when the pointer does.

**Form.** The buttons change the form's action before they know whether it will be
sent; the time of publication goes through fields in hours and AM or PM. Right
would be: what is sent is what was asked for (not so after a declined confirmation),
with the time the item had (not so for the hour after noon).

The full list of hazards, with the line where each bites and the properties that
would catch it, is in `PROJECT.json`.

## Modules

| Module | What it is | Checked by | Proofs |
|---|---|---|---|
| `ContentStore` | content store and slug index, with the handlers that change them | `MCContentStore` | `ContentStoreProofs` |
| `SlugDirectory` | abstract specification: what the store promises of public content and its slugs | | |
| `SortScheduler` | `SortContent` and its debounce, for one content type | `MCSortScheduler` | `DerivedProofs` |
| `ContentPaging` | `Query`, and a client that reads page after page | `MCSortScheduler` | `DerivedProofs` |
| `ContentSearch` | the search index of one type and the goroutines that feed it | `MCSortScheduler` | `DerivedProofs` |
| `ConfigCache` | settings, `configCache` and the Etag | `MCConfigCache` | `ConfigCacheProofs` |
| `Analytics` | request queue, batches, metrics, pruning | `MCAnalytics` | `AnalyticsProofs` |
| `AdminUsers` | users and recovery keys | `MCAdminUsers` | `AdminUsersProofs` |
| `NoteDom` | documents as values; the helpers `list` and `dom` | `MCAdminPage` | `EditorProofs` |
| `NoteRange` | `range` and `WrappedRange` | `MCAdminPage` | `EditorProofs` |
| `NoteCommands` | `Style`, `Bullet`, `Typing`, `Table` | `MCAdminPage` | `EditorProofs` |
| `NoteEditing` | `Editor`: document, selection and snapshots under every command | `MCAdminPage` | `EditorProofs` |
| `NoteHistory` | `History`: the array of snapshots and its offset | within the two above and below | `NoteHistoryProofs` |
| `UndoRedo` | abstract specification: what undo and redo promise | | |
| `NoteSession` | one rich-text field from the page's load to the submission | `MCAdminPage` | `PageProofs` |
| `NoteDialogs` | `LinkDialog`, `ImageDialog` | `MCAdminPage` | `PageProofs` |
| `NoteGestures` | drags of status bar, image handle and files | `MCAdminPage` | `PageProofs` |
| `NoteMarkup` | `beautifyHTML` | `MCAdminPage` | `PageProofs` |
| `PageTooltip` | `ckTooltip` | `MCAdminPage` | `PageProofs` |
| `PostForm` | buttons and date fields of an item's form | `MCAdminPage` | `PageProofs` |

The `MC...` modules hold the small instances; bounds are in the `.cfg` files.
`ContentStore` EXTENDS nothing of the project and is shown to implement
`SlugDirectory`; `NoteEditing` EXTENDS `NoteCommands`, that `NoteRange`, that
`NoteDom`; `NoteEditing` and `NoteSession` use `NoteHistory` by `INSTANCE`, and
`NoteHistory` is shown to implement `UndoRedo`. `EditorProofs` EXTENDS `MCAdminPage`
and `PageProofs`, so that what is proved of the parts of a page is proved of the page.

The editor's operators that walk a tree (`ancestor`, `DepthFirst`, `walkPoint`,
`fromOffsetPath`, the parser's `JoinedText`) are recursive functions on the nodes or
boundary points of the document and not `RECURSIVE` operators, which no proof could
look into.

### How state and actions correspond to the code

*ContentStore.* `bucket` holds the items of `T` and `T__pending`, `seq` bolt's
sequence of each, `index` is `__contentIndex`. `req` is what each goroutine or
open form holds between its transactions: an item shown in a form, a form
posted and not yet stored, an item read to be merged or deleted, a pending item
just published. `born` is history. A slug is a pair of what `item.Slug` makes of
the title and the number that `checkSlugForDuplicate` appends. The other fields
of an item are a function; a form may leave any of them blank. `insert` is one
step because it generates the slug inside its write transaction, so no other
writer runs between check and entry; `update` generates it before its
transaction, so `SubmitForm` and `SaveWrite` are two. A stop of the server
(`Crash`) ends requests being served and leaves forms in browsers. A file
uploaded in the same form, and what a user's hooks do, are not modelled.
`__contentIndex` also holds the names of uploaded files: `naming` is what each
goroutine of `storeFileInfo` has found free (`NameUpload`, the read transaction
of `checkSlugForDuplicate`) and not yet entered (`StoreUpload`, the transaction
of `SetUpload`), and `Uploaded` stands for any entry `__uploads:id`. A file name
equal to a slug is possible, since `item.Slug` keeps dots and file names need
none. `DeleteUpload` leaves the entry, so it changes nothing here; the records in
`__uploads` and the files themselves are not modelled.

*SortScheduler.* `content` counts the transactions on `T`, `sorted` those that
`T__sorted` reflects. Each transaction has a call of `SortContent`, but for deletions
(`DeleteContent`) whose `InvalidateCache` fails, which return before it
(`InvalidationFails`); `owed` is history, the last transaction that a call or a start
followed. `call` is where each call or its delayed goroutine is: about to look up the last
invocation, about to set it, about to read the bucket, sorting what it read,
about to start a timer, or waiting for it. `age` is the time since the last
invocation. `ContentAll` returns slices that outlive its transaction; when they
may be overwritten (`TornReads`) a sort may fail to decode an item and give up.

*ConfigCache.* `stored` is the record in `__config`, `cached` is `configCache`,
each reduced to the Etag (a time in seconds), the class of Max-Age (0, up to
six digits, larger) and one value for all other settings. `SurvivesPut` is the
effect of formatting with `%v` and parsing again. `overlapped` is history: the
settings were last stored while another `SetConfig` had stored its own and not
yet set `configCache`.

*Analytics.* `place` is where each request is on its way from the goroutine of
`Record` through `requestChan` and `batchInsert` to `__requests`, and how it
left. A time is a day and whether it is midnight sharp, the one case that the
comparisons of `ChartData` and `batchPrune` tell apart. `CountedOn` is the
outcome of the loop `CHECK_REQUEST` for one request. `metrics` is keyed by the
date without its year, `Date(d) = d % Year`. Distinct addresses are left out.

*AdminUsers.* `users` is `__users`, `keys` the emails with a recovery key,
`configured` whether `initHandler` got as far as storing settings. `gone` and
`stale` are history. Wrong passwords, wrong keys and malformed forms change
nothing and are left out; tokens are not revoked, so after the first user was
added anyone may hold one.

*ContentPaging.* `times` are the times of the rows in the order of `sort.Sort`,
each the sequence of its digits, so that times of different lengths and
positions of two digits compare as the bytes of bolt's keys do. `Query` follows
the code's bounds; `seen` holds the pages already read.

*ContentSearch.* `stored` is the version at each id of `T` and `T__pending`,
`index` what bleve has for the id, `tasks` the goroutines not run yet. `open` is
whether `InitSearchIndex`, which `serveCmd` starts as a goroutine, has opened the
index (`MapIndex`); until then a goroutine finds none and does nothing (`MissIndex`).
`disturbed` and `missed` are history: ids whose last public write was not alone on its
way or got an error from the index, and ids of goroutines that found none.

*NoteDom, NoteRange, NoteCommands.* A document is a record of functions on node
numbers; the operators are the functions of the same names in the source and
return the document they leave. Predicates on nodes are sets of nodes. Texts are
sequences of characters, a left margin is a number of steps of 25px; other CSS is
left out. `splitTree`, `wrapList`, `releaseList`, `styleNodes`, `deleteContents`,
`pasteHTML`, `bookmark` and the others keep the order of their steps, since it is
the stale nodes between the steps that matter.

*NoteEditing.* `doc` and `sel` are the editable and `document.getSelection()`,
`stack` and `stackOffset` the History, `bogus` the span that `fontSize` leaves at
a caret. Each action is a command with its `beforeCommand` and `afterCommand`, or
one that has none (`Uncommitted`). What the browser does is external: where it
lets a caret stand (`CaretPoints`), how it reads markup back (`html`,
`Serialisable`: a document with a block in a paragraph is followed no further),
and where its caret or selection is when a script moved nodes from under it
(`AnyCaret`, `AnySelection`). A command that ends with `select()` on a range that does
not fit the document, as `toggleList` may with the paths it noted before it released an
item that holds a list, throws there (`CanSelect`): the document has changed and nothing
is recorded (`SelectAndCommit`).
Commands that are one call of `execCommand` leave everything to the browser; they
are in `NoteSession` and not here.

*NoteSession.* A content is a set of pieces. `shown`, `hidden` and `code` are the
editable, the hidden input and the textarea of the code view; `unannounced` and
`unlogged` are history: a change was made that no event announced, or that no
snapshot has. `Command` stands for every command with events and snapshots
around it, `SilentChange` for those without. `Plain` is what `replaceBadChars`
makes of a piece.

*NoteDialogs.* `handlers` are the showings whose click handler is still attached;
`clicking` separates the handlers of one click, since the first one clears the fields
that the others read. `images` are the images asked for by url or as a file: each loads
until `ImageArrives` inserts it at the selection of that moment or `ImageFails` gives it
up, at any time, in any order. Showing a dialog may take the selection into it
(`Elsewhere`). `asked`, `at` and `moved` are history. *NoteGestures:* `mousemove` and
`mouseup` are the handlers of the document that all editors share; `sized` are the
editors laid out with a width and a height. *NoteMarkup:* the recursion of
`beautifyHTML` is a loop over a sequence of characters, with JavaScript's `indexOf`,
`substring` and `trim` as they treat -1 and blanks; `rest` is what the next call gets,
`lines` what the calls so far have given. Indents are left out. *PageTooltip:* one
`counter`, `started` and `counterInterval` for all buttons of a call, as in the code.
*PostForm:* `formAction` is what the clicks have appended to the form's action, and
`Path`, `Query` what the server makes of it.

### How the modules relate

`ContentStore` contains everything that shares its transactions. What follows a
transaction (the sort, the Etag) changes none of its state, and `SortScheduler`
and `ConfigCache` start from "a transaction committed" (`WriteContent`,
`ChangeContent`) rather than from its contents, so each is checked on its own
with transactions at any time, which allows more than the store would do. The
same goes for `ContentSearch` and `ContentPaging`.

`NoteEditing` has the document and no input or code view; `NoteSession` has the
field and takes any change of content for a command's; both rest on `NoteHistory`.
The other parts of a page share no state with them. `MCAdminPage` and
`MCSortScheduler` therefore put several modules into one instance in which a
variable `focus` says which of them a behaviour follows while the others stay as
they start: the states are the sum of the parts' states and not their product,
and one run checks them all.

## Runs

Deadlock is checked wherever the system goes on for ever, and none is found. In
`sort_scheduler`, `sort_settles` and `admin_page` it is not: a client that has read
all pages, a form that was sent and a part that has used up its bound stop.

| Run | Bounds | What it shows |
|---|---|---|
| `content_store` | 1 type, 1 title, suffixes 0 and 1, 2 ids per bucket, 2 requests (symmetric), 1 upload; 777,352 states | the invariants, the action property and the refinement of `ContentStore` |
| `content_slug_lost` | 1 id, 1 request | violation of `LocatableBySlug` |
| `content_merge_lost` | 1 id, 2 fields, 2 requests | violation of `MergeKeepsOtherFields` |
| `sort_scheduler` | `Wait` 1, 3 transactions, any `InvalidateCache` may fail, 1 restart, torn reads; up to 4 rows of times of one and two digits, or 3 or 12 rows of one time, pages of -2 to 5; 2 ids, 3 versions, 1 stop; 233,213 states | no transaction that a sort was called for is forgotten, each reaches a sort; pages give every row once, in order; a quiet write that finds the index open puts it right |
| `sort_settles` | sorting as above, without restarts and torn reads | violation of `QuietMeansSorted` |
| `config_cache` | 2 requests or pages, 2 values of the other settings, 2 seconds; 239,568 states | cache and store agree, Etag renewed unless Max-Age is large |
| `config_max_age` | 1 request, 1 second | violation of `EtagRenewed` |
| `analytics` | `RANGE` 3, `Year` 4, channel of 1, 2 requests, 2 dashboards, days 0 to 4; 605,466 states | metrics, deletions, liveness of the queue |
| `analytics_by_day` | `RANGE` 4, `Year` 5, days 0 to 5, 1 dashboard | violation of `CountedByDay` |
| `analytics_prune` | the same | violation of `PrunesOnlyOld` |
| `admin_users` | 3 emails, 1 password, 4 ids, 2 requests (symmetric); 960,697 states | accounts are unique and stay deleted |
| `admin_page` | below; 220,779 states | the parts of the page of an item |

`admin_page` bounds each part by itself. *Editing:* 18 documents of up to 7 nodes
(`SomeDocuments`: paragraphs, lists, lists beside items and in items, a link, two links,
a table, a quotation, texts in the editable itself, a text beside a paragraph), every
selection between two places a caret can stand at, and then one command (`Budget`), two
where the document is empty or one item, so that there is a past to undo and a future to
redo; `MaxNodes` 7. *Session:* 3 pieces, one of them an image and one with a character
that `replaceBadChars` replaces, 2 snapshots (`MaxRecords`). *Dialogs:* a word and a
caret, one url, 3 showings of the two dialogs together (`MaxShowings`). *Gestures:* 2
editors, 2 elements. *Markup:* all sequences of up to 4 pieces (`Pieced`): tags, one with
a ">" in an attribute, texts, blanks. *Tooltip:* 2 buttons, 2 ticks of delay, 2 fades
under way per button. *Form:* 8 times around midnight and noon, 3 clicks.

What the properties of `admin_page` say, each with the exceptions the code makes:

- `PageTypeOK`: the document is a tree with the selection in it, and the types of the
  other parts.
- `SnapshotIsCurrent`: undo starts from what is shown, unless a change was not recorded,
  and a selection saved as paths is found again. `WordBeforeCaret`: the word before a
  place in a text is whole.
- `SelectionKept`: a command at a caret leaves a selection, but for outdent. Wider
  selections are left out; there `createLink` may leave none.
- `TextKept` has three parts. A paste at a caret behind a character comes in order. A
  command at a caret, and a list or style command on any selection, keeps the text and
  its order; not so a link's replaced text, and toggling a list in a document with a
  list inside an item, where `releaseList` puts what the inner list holds behind the
  rest of the item. A command that replaces a selection deletes the selected characters
  and no others; a paste is claimed to do so only within one text, since over a wider
  selection it may delete to the end of the document.
- `StructureKept`: lists hold items, items are in lists, after every command that found
  them so; and in a document whose blocks stand beside blocks alone and in no paragraph
  or item, no command but a paste puts a block into a paragraph. Where a text stands
  beside a block, or a list in an item, the code does (`wrapBodyInlineWithPara`,
  `releaseList`).
- `CopiesAgree` and `SessionKeepsUndoPromise`: the field's three copies, and its undo.
- `FieldsReachOneSpot`: a click on the link button brings its fields to one place.
  `FirstUseAsAsked`: links keep the words they are made of while no showing was closed
  without a link; the first image accepted starts to load; and an image is inserted where
  it was asked for, unless the selection moved while it was loading.
- `ResizingGetsRecorded` and `DropzoneFollowsDrag`: drags.
- `LayoutKeepsMarkup`: the layout loses, repeats and moves no character but blanks, and
  where no attribute has a ">", no line has more than one tag or text, or a part of one.
  `LayoutEnds`: it ends for every markup that ends in a tag.
- `NoTooltipIsLeftBehind` and `TooltipsSettle`: tooltips.
- `PostedAsAsked`: until a confirmation was declined, a post does what its button stands
  for, and outside the hour after noon it carries the item's own time. Nothing is
  claimed after a declined confirmation, which breaks the buttons (below), nor for noon,
  which moves by half a day and of which no text of the repository says what the fields
  give back.

**Why the bounds are enough.** In `content_store` both ids of both buckets get the same
title, so that slugs collide, are numbered, freed and taken again while two requests
hold stale copies and an upload takes the name in between; a third request or id adds no
kind of conflict, since every hazard listed is between one holder of a copy and one
writer, and the theorems cover all instances. Three transactions let `sort_scheduler`
have a call that passes, one that waits and one that supersedes it; the theorem covers
any number of transactions for the invariant. In `config_cache` two requests can overlap
in every way two SetConfigs can. `RANGE` 3 and `Year` 4 let a date come round again
within the run while other days are charted; `RANGE` 4 gives a request two later days to
be counted on. Twelve rows of one time have positions of two digits, and times of one
and two digits have the orders of text and of numbers disagree. Two ids and three
versions let an item be written, deleted and written again while an older goroutine is
under way; the theorem covers any bounds. In `admin_page` the documents are the smallest
that have each structure a command looks for, and a command is one step from every
selection in them, so what a second command would start from is in most cases another
document of the list. Two editors, buttons or showings are what it takes for one to hit
the other, and with three showings of the dialogs two images load at once, or one beside
a link, or one while a third showing moves the selection; the theorems cover any number.
Four pieces put a text or a blank before, between and behind two tags. Three emails let
a rename hit another user's email while a third acts; 4 ids allow a deleted email to be
added anew.

**Symmetry** is used in `content_store` and `admin_users`, which check
invariants and box formulas only; the runs with liveness use none.

**Fairness.** `SortScheduler`: time passes, and each call or goroutine goes on,
as the Go scheduler runs what is runnable; nobody is obliged to write, and
writes are bounded, so a sort starved by writes without end is not looked at.
`ConfigCache`: a request being served goes on, and a stopped server is started
again; no change or page is obliged to happen. `Analytics`: the ticker of
`serve` fires, a batch ends one way or the other, and a goroutine that could
send does. In `admin_page` timers fire, fades end and a recursion goes on (`PageFairness`);
the pointer need not move and nobody need click. `ContentStore`, `AdminUsers` and
the other parts state safety only and assume nothing.

## What the violations show

1. **A public item can lose its slug** (`content_slug_lost`). An administrator
   saves a pending item, which gets a slug that is checked against the index and
   not entered in it. A public item then gets the same slug. Rejecting (or
   approving) the pending item deletes the index entry of the public one.
   Approving a pending item that was saved before does it to the item it
   publishes.
2. **A merge undoes other updates** (`content_merge_lost`). `UpdateContent`
   merges into a copy it read before its write transaction.
3. **The sorted rows can stay stale** (`sort_settles`). Two sorts overlap when
   one takes longer than two seconds, and the one that read first stores last.
   Nothing sorts again until the next change.
4. **A Max-Age of a million or more stops the Etag** (`config_max_age`).
   `PutConfig` formats it as `2.592e+06`, which no longer parses; from then on
   every change of content is committed and answered with an error, and the
   server does not start again.
5. **Requests are counted on several days** (`analytics_by_day`). The loop over
   the days lacks a `continue`.
6. **Pruning removes everything** (`analytics_prune`). The threshold is added to
   today and not subtracted.

Other defects were met while modelling and are part of the models as they are; no run is
devoted to them. Two of them contradict the repository's words. A write right after a
start is not indexed: the server serves while `InitSearchIndex` still opens the indexes
(`main.go` 160), and `UpdateIndex` and `DeleteIndex` do nothing, and report nothing, for
a type that has none yet, against `docs/src/Interfaces/Search.md` 8; `missed` of
`ContentSearch` keeps the items this happened to. And Approve may not publish, against
the form's label (`editor.go` 139): Delete and Reject change the form's action before
they ask, and no answer takes that back (`editor.go` 187, 207), so that after a declined
deletion Approve posts to `/admin/edit/delete/approve`, which nothing serves, and after
a declined rejection to the deletion; `declined` of `PostForm` records it. In the
editor: a paste over a selection throws after it has deleted (`materialNote.js`
1968-1978), and over more than one text it may delete to the end of the document, when
the node that held the end of the selection was detached (1828-1864); toggling off a
list within an item reorders its text (3204-3216), leaves a list in a paragraph
(3206-3211), and may throw in `select()`, with the document changed (3139);
`wrapBodyInlineWithPara` wraps a block with the text beside it (1933-1940); what is
inserted at the left edge of a text comes in reverse order; outdenting an empty item
loses the selection, and so does `createLink` when it joins neighbouring links
(2947-2955), which throws if the second has two children, since it walks a list that
shrinks; a rule (3661), a font size at a caret (3848) and the removal of its zero-width
character (3879) are neither recorded nor announced; the first snapshot is empty, since
the History is made before the content is put in, so that undo can empty a field; after
undo the saved paths may not fit the markup read back, and the exception keeps the
change from being announced; edits in the code view are not sent when the form is
submitted from there, and an image that arrives meanwhile is overwritten; `beautifyHTML`
(4819-4876) never ends on markup that ends in a text; handlers of abandoned dialogs stay
(5235, 5352), a second image by url is never inserted, and an image that loads late is
inserted wherever the selection is by then, in place of what is selected (3757-3773);
`$document.off('mousemove')` ends the drags of every editor (4491, 4649). In the form:
an item published between noon and one moves on by half a day when it is saved
(`util.js` 37).

## What is proved

Each theorem holds for every value of the constants that satisfies the module's
`ASSUME`s. Every argument is one inductive invariant, which adds to the
properties what they rest on.

`ContentStoreProofs` (markers such as `NoSlug` and `Uploaded` are none of the values
they stand beside, client slugs are slugs, the bounds are naturals):
`TypeCorrect`, `IndexIsSound`, `NothingBeyond`, `OneSlugForLife`, the action property
`IndexForward`, and `Implements`: `ContentStore` implements `SlugDirectory`.
`IndexSound` alone is not inductive: a late save could change the slug of the item
an entry leads to, and a late deletion could remove an item and the entry of a
former slug. So `IndInv` says (`StoreInv`) that an issued public id has one slug,
recorded in `born`, which every stored public item has, and that entries lead to
stored items with that slug; and (`CopiesOK`) that every copy a request holds of a
public item carries the slug of its id, under an id already issued (`NamingOK` is
the type of `naming`). A save, a merge and a deletion then work with the right
slug however stale the copy is. The refinement maps the ids issued, `born`, the
set of public items that are stored, and the index without the entries of
uploads; each action is shown to be a step of `SlugDirectory` or a stutter.

`DerivedProofs`: `NothingForgotten` (`NoWriteForgotten` for any `waitDuration`, number
of transactions and restarts, with deletions that fail before their sort): given the
types it is inductive by itself. What it promises is up to `owed`: a deletion whose
`InvalidateCache` failed is made up for by the next call or start. When a call is
dropped by its debounce, another has set the last invocation after the timer was started
and has yet to read the bucket; when a transaction commits that moves `owed` it brings
its own call; when a sort that read the latest transaction ends it has either covered it
or failed. `IndexFollows` (`IndexFollowsQuietWrites` for any ids, versions and stops,
and an index opened at any time) rests on `QuietWritesAreAlone`: the goroutine still on
its way for an undisturbed id is the only one and brings what is stored; once it has run
and has not missed the index, the index has it. `ReadingOnGetsAll` (`PagesInOrder`, for
any number of rows, any times and any count) needs that the keys are in a strict order.
The position of a row is written in decimal, so its digits are a recursive function;
that no two positions have the same digits follows from a number's digits giving the
number back. Keys are then distinct, and the order of the bytes is total, so the rank of
a row (how many rows come before it) is a bijection onto the positions: sorting repeats
and loses nothing. A page is a stretch of the sorted rows, and the pages read so far are
the stretch from the first row on (`PagingTypeCorrect` and the invariant).
`DerivedTypeCorrect` puts the types of the three together.

`ConfigCacheProofs`: `CacheFollows`. The invariant says what `overlapped` stands for:
while it is FALSE, the request about to set `configCache` is the only one, and
the one that stored the settings last.

`AnalyticsProofs`: `NoLaterRequest`, `DeletedAreCounted` and the action property
`WrittenOnce`. What holds of stored metrics is extended to those a dashboard has
counted and not written yet; the requests made up to a day only get more, so a
count stays below their number however late it is written.

`AdminUsersProofs`: `AccountsOnce`, `GoneForGood` and the action property
`EmptiedByOverlap`. Every id in the bucket, gone from it or held by a request has
been issued, so a new one is none of them; and nobody deletes the own account.

`NoteHistoryProofs`: `HistoryKeepsPromise`, the refinement of `UndoRedo`: past and
future are the array up to the offset and after it. It rests on two lemmas about any
array of snapshots, whatever they hold (`OffsetStep`, `PromiseStep`), which
`EditorProofs` uses again. `PageProofs` carries it to a session
(`SessionKeepsPromise`), and shows `CopiesStayInStep` with the types as the
invariant.

`PageProofs`: `NoneLeftBehind` (at most the timer of the button below the pointer runs,
and it is the one `counterInterval` names), `ResizingIsRecorded` and `DropzonesFollow`
(each editor's collection is the element below what is dragged and the one whose
dragleave is due), `OneSpotPerClick` (after the first handler of a click the url
field is empty), `FirstUse` (`FirstUseAsAsked`: as long as no showing was closed without
a link, one handler is attached while a dialog is open, and it was attached by this
showing; and an image that is loading and was not overtaken by a move of the selection
was asked for where the selection is, `ImagesFollow`), `TimeIsKept` and
`ButtonsAreHeeded`, together `PostsAreAsAsked` (before a confirmation was declined the
action is empty, so that it is what the one button appended that sends). `MarkupTypeCorrect`
says that what the layout cuts and trims is made of the markup's characters; `indexOf`
and `trim` look for the first or last place with a property, which exists because the
natural numbers are well-founded (`SmallerIsWellFounded`, `MinIsIn`, `MaxIsIn`).

`EditorProofs` is about documents of any size. What the editor's functions compute
is shown by the least counterexample to it, in place of an induction: of the nodes
or points where a claim fails, take one of the least rank (`LeastRanked`). In the
same way a recursive definition is shown to have a solution at all
(`RankedRecursion`), the rank being the number of a node, its height, or the place
of a point in the walk. Its results:

- `WordsAreWhole` (`WordBeforeCaret`): the search backwards ends at the first place
  that is no character, and everything it passed is one.
- `SelectionFound`: a path below the editable, followed down again, ends at the node
  it was made for (`PathLeadsBack`, since the ancestors of a node end at the editable
  and each is found at its position in its parent).
- `HtmlAgain`: writing a document out and parsing it, a second time, changes nothing.
  The walk in document order passes every node below the editable once
  (`WalkSpans`, `OrderSpans`), so numbering the nodes along it is a renaming, after
  which the walk is 0, 1, 2, ... (`RenumberedOrder`); and a document without
  neighbouring texts and empty texts, which is what joining texts leaves
  (`CanonicalJoined`), joins to itself.
- `SnapshotStaysCurrent` (`SnapshotIsCurrent`): the invariant `HistoryKept` adds that
  every snapshot in the array is such a settled document, so that an undo shows what
  its snapshot holds. Of a command it uses only whether it records, skips the record,
  leaves the document alone or steps through the array (`CommandKinds`).
- `EditorKeepsPromise`: the editor's array implements `UndoRedo`, whatever the
  commands make of the document.
- `PageTypeCorrect`, `PageKeepsAll`, `PageKeepsPromises`, `PageEditorKeeps`: the parts of
  `PageSpec` change nothing of each other (`PartsRun`), so all of the above holds of
  the page that `admin_page` checks. `PageTypeCorrect` is about every part but the
  editor, and assumes nothing of what the editor's commands do.

`SnapshotStaysCurrent`, `WordsAreWhole` and `PageEditorKeeps` assume
`[]NoteTypeOK`: that the commands leave a tree and a selection in it. That is the one
part of `PageTypeOK` that is not proved. `admin_page` checks it for every command from
every selection in its documents.

**Only model-checked:** liveness (`WritesReachSorted`, `EtagRenewedUnlessLarge`,
`RequestsLeaveMemory`, `LayoutEnds`, `TooltipsSettle`), which the prover does not do
under fairness; `LayoutKeepsMarkup`, since what the folds over its lines give is
induction over data; `NoteTypeOK`, `SelectionKept`, `TextKept` and `StructureKept`, what the
some thirty commands of the editor do to a tree, since each is a chain of folds over
lists of nodes on trees that change under way, and what a fold of the library
computes is induction over data. The violations are TLC's counterexamples.

## What is not modelled

- *The browser.* `execCommand` (bold, italic, colours, alignment, native lists), its
  own undo, the parser's repairs, and where it moves a caret. The editor's commands
  that are one such call are in `NoteSession` as changes of content.
- *The rest of the editor.* Toolbars, popovers, fullscreen, the building of its
  markup, help dialog and plug-ins decide nothing about the content. The clipboard's
  work-around for Firefox (5057-5148) depends on how that browser pastes into an
  element focused during the event. Browsers without W3C ranges.
- *Uploads beyond their index entry.* A name is tested with `Stat` and the file
  created later (`upload.go` 79); `UploadBySlug` opens a read transaction within
  another (`db/upload.go` 171), which can block against bolt's remapping of its
  file. What is lost or blocked is the file system's and bolt's matter.
- *Addons.* A status is read and written back in two transactions (`addon.go` 172),
  as `PutConfig` does with settings (`config.go` 175); nothing in the repository
  promises that two such changes both survive.
- *Failing disk writes.* Transactions are taken to commit, except `batchInsert`'s,
  whose failure loses what is no longer in the channel. That `update` reports
  success when its transaction fails (`content.go` 114) is so not followed, nor that
  `initHandler` may stop between the user and the settings' cache (`handlers.go` 103)
  beyond what `AdminUsers` has of it.
- *Reads of the API.* Hits of the search that are gone (`api/search.go` 79) and
  responses of old rows under a new Etag, which is renewed before the sort
  (`content.go` 118): a composition of `SortScheduler` and `ConfigCache` with a
  caching client, about which the repository promises nothing. The whole seconds of
  the Etag (`cache.go` 42) are in `ConfigCache` as its clock.
- *Undecodable pages that happen to decode.* A torn read in `ContentAll` is either
  harmless or makes the sort give up.
- *Tokens.* They are not revoked when an account is deleted (`user.go` 229): the
  models let any request come from any account there ever was.
- Addon indexes, backups, command line, TLS; hooks and content types of the user.

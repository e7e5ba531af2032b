# Kubeflow Metadata: TLA+ models, model checking and proofs

This directory holds the specifications kept beside the code of
`kubeflow/metadata`: models of its components translated from the source, the
TLC configurations that check them on small instances, and theorems that TLAPS
proves for every instance. `PROJECT.json` lists the components, the runs, the
mutants that show each property can fail, the lines of source each definition
stands for, the hazards and the theorems.

## 1. Inventory of the system

| component | state it keeps | operations | interacts with |
|---|---|---|---|
| **Resource watcher** (`src/watcher`): one process, per Kubernetes kind an informer, a rate-limited work queue, one worker, a `MetaLogger` handler | informer cache, queue, the event in progress; nothing persistent | `NewMetaLogger`, `OnAdd/OnUpdate/OnDelete`, `processNextWorkItem`, `ifExists`, `PutArtifacts` | API server (list/watch), ML Metadata store over gRPC, its own restarts |
| **Metadata service** (`src/service`): gRPC handlers | none of its own: each handler is a sequence of store calls | Create/Update/Get/List/Delete of types, artifacts, executions; `CreateEvent`, `ListEvents` | the store, many clients at once |
| **ML Metadata store** (`src/third_party/ml_metadata`): Go binding of a C++ library | database of types, artifacts, executions, events, contexts | `PutArtifactType` with `PutTypeOptions`, `PutArtifacts`, `PutEvents`, the `Get...` calls | service, SDK, watcher |
| **Server process** (`src/server/main.go`) | connection attempts, phase of the start | `mlmdStoreOrDie`, `RegisterSchemas`, serve, `glog.Fatalf` | store, deployment (restarts) |
| **Schema registration** (`src/schemaparser/register.go`) | the loop over the schemas | `RegisterSchemas`, `registerArtifactType`, `registerExecutionType` | service, schema set |
| **Schema sets** (`src/schemaparser/schemaset.go`, `schemajson.go`) | schemas by `$id` | `PropertyType`, `SimpleProperties`, `ConstantStringType`, `TypeName`, `AddSchema` | registration |
| **Python SDK** (`src/sdk/python`) | ids in client objects | `Workspace`, `Execution`, `log_input`, `log_output`, `_retry` | store over gRPC; concurrent clients |
| **Frontend table and list pages** (`src/frontend/src`: `CustomTable`, `ArtifactList`, `ExecutionList`, `lib/Utils`) | query, page, tokens, spinner, debounce timer; items, types, rows | `reload`, `_pageChanged`, `_requestSort`, `_requestFilter`; `groupRows`, `toggleRowExpand` | store over gRPC-web, asynchronous answers; the router that mounts and unmounts them |
| **Frontend shell and detail pages** (`Router`, `Page`, `Banner`, `Toolbar`, `SideNav`, `LocalStorage`, `ArtifactDetails`, `ExecutionDetails`) | frame (toolbar, banner), page, what a page has loaded, the navigation's state in the browser's storage | `showPageError`, `clearBanner`, `load`, `refresh`, `_toggleNavClicked`, `_maybeResize` | store, URL, browser |
| **Frontend server** (`src/frontend/server`) | none | static files, proxy | - |

What is hard, and what makes each component correct:

- *Watcher.* Logging an object is check-then-put over two calls without a
  transaction, with retries, ambiguous failures, crashes, lost watch
  connections, and possibly a second watcher. Correct: no object is forgotten;
  duplicates are bounded; an object that stays is logged.
- *Service.* A handler is several transactions and the handlers of different
  clients interleave between them; any call may fail half way; a name passes
  through several forms. Correct: an answer speaks of the caller's own item,
  items keep conforming to their types, types only grow, what was stored is
  answered, a list leaves nothing out because a call failed.
- *Server process.* It dies anywhere in its start and starts again on the
  database it left; clients and other releases have changed that database
  meanwhile. Correct: it serves only with its predefined types registered,
  changes no stored type, and comes back.
- *SDK.* Check-then-put of workspaces and artifacts, retries of puts that are
  not idempotent, partial failure between a put and its attribution. Correct:
  what is in the store twice, or outside its workspace, has a race, a lost
  answer or an exception behind it; what a log returned is recorded.
- *Schema sets.* Two resolutions of the same inheritance, one looking for a
  property and one collecting all, have to agree.
- *Table and lists.* Reloads overlap and are answered in any order; what is
  typed is asked for later; state is read before an await and used after it.
  Correct: the spinner stops, the page shown is the page counted, the filter
  last typed is asked for, a table that is gone is silent, the rows are the
  whole answer to one query, in groups.
- *Shell and details.* Answers arrive after the user has gone elsewhere.
  Correct: no page writes into another's toolbar or banner, the artifact shown
  is that of the URL, a page that shows nothing says why.

The full list, with lines, is under "hazards" in `PROJECT.json`.

## 2. Modules

| module | models |
|---|---|
| `ResourceLog` | abstract specification: what the watcher promises |
| `Watcher` | the watcher, the API server's list/watch stream, the work queue, the store's artifacts of one type |
| `MetadataStore` | the store's contract as operators: what a put accepts and what it leaves |
| `Service` | the gRPC handlers over `MetadataStore`, any number of concurrent clients |
| `ServerBoot` | the server's connection, registration of the schemas, serving and restarts, over `MetadataStore` |
| `SdkClient` | concurrent clients of the Python SDK and what they leave in the store |
| `TableContract` | abstract specification: what a table promises the page it is in |
| `CustomTable` | the table: paging, sorting, filtering, refresh, unmount |
| `RowGroups` | pure: rows filtered, sorted and grouped; what grouping means |
| `RoutedPage` | URL, frame and page; banner and title; mounting and unmounting |
| `ListPages` | the pages of artifacts and executions, over `RoutedPage`, `RowGroups` and the contract of the table |
| `DetailPages` | the pages of one artifact and of one execution, over `RoutedPage` |
| `SideNav` | the side navigation and what it saves |
| `Frontend` | composes `ListPages`, `DetailPages` and `SideNav` |
| `WatcherProofs`, `MetadataStoreProofs`, `ServiceProofs`, `ServerBootProofs`, `SdkClientProofs`, `CustomTableProofs`, `RowGroupsProofs`, `FrontendProofs` | theorems, section 4 |
| `MCWatcher`, `MCService`, `MCServerBoot`, `MCSdkClient`, `MCCustomTable`, `MCFrontend` | small instances for TLC |

Definitions whose comment begins with *Mutant* are plausible bugs; they are used
by no specification, only put in the place of another definition to see that a
property notices.

### Watcher

`CreateObject`, `ModifyObject` and `DeleteObject` are the API server: an object
is its UID, never reused, created under a name; a change is appended to the
stream of each open watch. `List` is the informer's list and replace, after a
start and after a lost watch: it compares *names* (client-go's store keys) with
its cache, so an object whose name is still cached arrives as an update.
`Deliver` is the callback `OnAdd`/`OnUpdate`/`OnDelete` (watcher.go:83-105).
`Fire` ends an event's rate-limiting delay. `GetItem`, `Done` and `Requeue` are
`processNextWorkItem` (124-147). `FoundExisting`, `FoundNone`, `IfExistsFails`
are the answers of `ifExists`; `PutApplied`, `PutReturns`, `PutFails` separate
the store executing `PutArtifacts` from the worker learning of it. `Abandon`
lets a put whose caller crashed or gave up be executed later (`OrphanLands`) or
never (`OrphanDropped`). `Start`, `RegisterOk`, `RegisterFails` and `Crash` are
the process: queue and cache are memory.

Abstracted: one kind (each has its own artifact type, so kinds do not
interact); the fields of the artifact (only `version`, the UID, is ever read);
the objects inside update and delete events (the handler ignores them); delays
(an event is delayed or due). Events are values: the same object is handed to
`OnAdd` at most once per life of a process, so two add events of an object
never coexist with different pointers. A crash also stands for the stop asked
for by SIGTERM.

### Service and MetadataStore

`call[c]` is the last request of client `c`, the step its handler is at and its
answer. Each store call is a step; `StoreFails` fails the next one, leaving no
trace in the store, and `OnError` is what the handler makes of it: the handlers
that list take the error with the text "Cannot find any record" for an empty
list and return all others. The record of a call has three histories: whether it
stored something (`stored`), the steps at which a store call failed (`failed`),
and what there was to list when it came (`known`). Artifacts and executions have
twin handlers, so `Kinds` is a parameter of one set of actions. A name is its
number of leading collection prefixes (`artifact_types/`) and what follows:
`TrimPrefix` removes one, as `strings.TrimPrefix` does, and the item-name
regular expressions require one. Ids are positions in the sequence of stored
items. `Rejected` gathers the guards that precede a handler's first (or next)
store call, `Delete...` included, and a `CreateEvent` without an event, which
the store cannot take. `ListEvents` differs from the other handlers: the error
of its first call is assigned to a shadowing variable, so it goes on with no
events. Its answer has the events (`result`) and the items at their ends
(`ends`).

`MetadataStore` is the contract the C++ store (not under `src/`) offers through
`mlmetadata/metadata_store.go`. An existing type accepts a put only if common
properties agree and, unless the options allow it, none is added or deleted;
items conform to their type; an event's ends exist; nothing is deleted.

### ServerBoot

`Boot`, `ConnectOk`, `ConnectFails`, `GiveUp` are `mlmdStoreOrDie`
(main.go:57-103). `RegisterSchemas` first reads all files: `ConnectOk` includes
that, and `LoadFails` is the exit when one cannot be read. Then comes the loop
over the schemas in any order (a Go map): `Skip`, `Register`, `RefuseSchema` (no
category, or properties that resolve to no type of the store), `RefuseType`,
`RegisterFails`. `Serve`, then `ClientPuts`: the successful
create and update calls of clients, as `Service` shows they act on the store.
`Crash` and `Die` end a life; a `Boot` may start another release.

### SdkClient

Each client opens the one workspace (`GetContexts`, `PutContexts`), makes an
execution of its own (`PutExecutions`, `Associate`) and logs `Model` objects of
one uri, name and version (`Log`, `GetArtifactsByUri`, `PutArtifacts`,
`Attribute`, `PutEvents`), one store call per step. `_retry` makes a call again
whatever exception it ends with: `Lost` is a call the store executed and
answered with an exception, made again; calls for which that changes nothing (a
context of an existing name, an attribution that is there) do the same by
staying where they are. `Raise` is the exception that reaches the caller after
the last try; the caller makes again the object that was not made, or may call
`log_input` again with the same one. Which of several duplicates
`get_artifacts_by_uri` gives first is left open. An `Execution` is not searched
for before it is put, so two clients never share one.

### CustomTable and TableContract

An event handler, with the state it batches and the callbacks of `setState`, is
one step; the answer to a reload is a later one. A request carries what the
code after its `await` has kept from before it (the page asked for,
`maxPageIndex`); `flight` holds at most `Slots` of them. `Answer` is the whole
rest of `reload` and of the caller that awaits it: `ContinuePage` for
`_pageChanged`, `ContinueReset` for `_resetToFirstPage`. Page tokens are
`[query, page]`, so that a token used under another query can be told.
`TypeFilter` starts the debounce timer, `RequestFilter` is the timer. `LastPage`
gives the number of pages of each query, since tokens come from the page
component. `orderly` is a history variable: no reload has failed or overlapped
another, no filter was asked for off the first page.

`TableContract` has only what the page sees: `header`, `asked`, `busy` and the
mount. `CustomTable` implements it (`KeepsContract`), and `ListPages` is built
on the contract, so that it need not repeat the table.

### RowGroups, ListPages

A row is the item it shows, `[id, group, name, match]`; `group` is the first
column, the pipeline or workspace, by which alone `groupRows` groups
(Utils.tsx:166). The filter is one of the four things `rowFilterFn` makes
of a text. The comparison of equal cells is the JavaScript engine's choice
(`Sortings`). `ListPages` follows a reload through its awaits: `Ask`,
`TypesAnswered`, `ItemsLoaded` or `NoResponse` or `ItemsFailed`, `Settle`. The
two lists differ in when rows are computed anew (`GoOn`, `RowsOfCached`).
`Settling` keeps other events away between an answer and the microtasks it
leaves. A store without types answers with none and no error
(`TypesAnswered`), and the next reload asks for them again.

### RoutedPage, DetailPages, SideNav, Frontend

`frame` is the `RoutedPage` of the router with its toolbar and banner, `page`
the component in it; both are numbered as they are constructed, so that an
answer finds its own or finds it gone (`IsMounted`). `SameFrame` and `SamePage`
say when React keeps a component: same route, or same route and key. Whoever
speaks through banner or title is kept with them, as a page record.

`DetailPages` keeps every unanswered call as `[by, step, n]`: `ArtifactFound`,
`ArtifactNotFound`, `ExecutionFound`, `ExecutionNotFound`, `TypesLoaded`,
`TypesFailed`, `SectionAnswered`. `Refresh` is the button of the banner. An
execution's four sections ask for artifacts in the same way and are one call.
`SideNav` has the state shown (`collapsed`), whether the user has chosen
(`manual`), and the saved state; `LocalStorage.hasKey` compares `null` with
`undefined`. `Frontend` adds what crosses components: `Navigate` unmounts one
page and mounts another while the calls of the old one stay out, `LateListStep`
is such a call of a list, `LoadAgain` is the browser's reload.

## 3. Runs

| run | instance | checks | result |
|---|---|---|---|
| `watcher_safety` | 2 watchers, 1 object, 1 crash, 1 lost watch, 1 orphaned put | `TypeOK`, `AttemptsBounded`, `NoEventLost`, `DuplicateBound` | hold |
| `watcher_live` | 1 watcher, 2 objects of two names, 1 crash, 1 lost watch, fairness | `EventInOnePlace`, `EventuallyLogged`, `ImplementsLog` | hold |
| `watcher_replaced` | 1 watcher, 2 objects of one name, 1 lost watch, fairness | `EventuallyLogged` | **violated** |
| `service_store` | 2 clients, 1 type name with and without prefix, 3 property maps, 2 items, 1 failure | `TypeOK`, `ReplyIsOwn`, `ItemsConform`, `StoredIsAnswered`, `TypeAnswered`, `TypesOnlyGrow` | hold, 1.0 M states |
| `service_events` | 2 clients, 1 artifact, 1 execution, their events, 1 failure; no updates | `EventsAnswered`, `ListsAreComplete` | hold, 1.2 M |
| `service_swallowed` | 1 client, 1 failure | `ListEventsReportsFailure` | **violated** |
| `boot` | 5 releases (one adds a property; in the others a schema lacks its category, does not resolve, cannot be read), clients put types, 3 faults, 2 connection tries, fairness | `TypeOK`, `ServesPredefined`, `RestartKeepsTypes`, `KeepsServing` | hold |
| `boot_crashloop` | 1 release, clients update types, 1 fault, fairness | `ServesAgain` | **violated** |
| `table` | 2 requests in flight, 2 pages in one order and 1 in the others, 2 filters, fairness | `TypeOK`, `SpinnerIsWaiting`, `OrderlyPages`, `SilentWhenGone`, `KeepsContract`, `FilterCatchesUp` | hold, 0.4 M |
| `pages` | both lists, 2 artifacts, 2 executions, answers of 0, 1 and 3 items in 2 groups, none with the rows of another, 3 pages mounted, 2 reloads, 2 calls | `RowsGrouped`, `RowsOfHeader`, `FrameIsOfRoute`, `ArtifactIsOfUrl`, `LoadExplained`, `ChoiceIsShown` | hold, 3.5 M |
| `pages_rows` | a text in the filter box | `RowsAsAsked` | **violated** |
| `sdk` | 2 clients, 2 objects each, 2 logs each, 1 lost answer per call, 1 exception per step | `DuplicatesExplained`, `UnattributedExplained`, `LoggedIsRecorded` | hold, 2.3 M |

Deadlock is not checked: objects, crashes, failures, stored items, pages and
logs are bounded, so each bounded system comes to rest, and a table that is gone
does nothing. Clients of a service instance are interchangeable, as are clients
and objects of the SDK: those runs use symmetry, and no liveness is checked
there.

### Findings

1. *Replaced objects are never logged* (`watcher_replaced`). An object deleted
   and created again under its name while the watch is down comes back from the
   re-list as `OnUpdate`, which does nothing. The watcher README says it "can
   watch the creation of any Kubernetes resouce object".
2. *`ListEvents` swallows a store failure* (`service_swallowed`). `id, err :=`
   (service.go:500, 506) declares an inner `err`; the failure of the first call
   is answered as an empty list.
3. *A documented update keeps the server from starting* (`boot_crashloop`). Once
   a client adds a field to a predefined type, `RegisterSchemas` of the next
   start is refused and main exits, on every restart.
4. *What is typed in the filter box filters nothing* (`pages_rows`). The box
   passes the text on as it is; `rowFilterFn` keeps every row unless the filter
   is a JSON object with predicates, though its comment (Utils.tsx:87) and a
   test (Utils.test.ts:46) say that it looks for the text.

### Seen while modelling

No run shows these, but they are worth a maintainer's look. Some
disagree with a comment or a test of the repository:

- The comment of `groupRows` says it groups "by name and type" (Utils.tsx:160).
  The code takes the first column alone for the key (166), which is the pipeline
  or workspace, and so does its test (Utils.test.ts:90-124). The model follows
  the code; `RowsGrouped` is about groups of one first column.
- `LocalStorage.hasKey` compares with `undefined` what is `null` (LocalStorage.ts:23)
  and is always true, so the navigation never collapses by itself. The tests
  of the navigation promise that it does in a narrow window
  (SideNav.test.tsx:106, 124), with `hasKey` mocked. In the model `manual` is
  therefore always true, and `ChoiceIsShown` is about the choices of the user.
- `UpdateArtifactType` stores a name with a collection prefix as it is and
  answers with the type of the trimmed name, which it did not update
  (`WellNamed` in `TypeAnswered`).
- `ExecutionList` computes rows only when the execution list is not there yet
  (ExecutionList.tsx:132), so a later sort or filter changes nothing, whereas
  the comment at 200 speaks of sorting and filtering. `RowsOfHeader` is about
  artifacts for that reason.
- Two reloads that overlap on an empty list both ask for the items; if the later
  answer meets a filter on which `rowFilterFn` throws, the table keeps the rows
  of the earlier one although the items are those of the later. `RowsGrouped`
  therefore says that the rows are the whole answer to one query on one answer
  of the store, and that it is the items the page keeps only under `calm`. The
  older of two overlapping reloads may be the one whose rows are left.
- Overlapping reloads of the table, a failed one, or a filter typed off the
  first page leave tokens and page numbers that do not belong together:
  `OrderlyPages` holds only under `orderly`, `RowsOfHeader` only under `calm`.
  Both list pages disable paging (ArtifactList.tsx:97, ExecutionList.tsx:107)
  and return an empty token, so what `OrderlyPages` says of pages and tokens
  concerns the component, not the application as it is.
- Two artifacts share a frame: a late answer for the first may set the title or
  banner over the second, within their route.
- `ExecutionDetails` has no key: when the id in the URL is edited it keeps the
  execution it has, and its sections load only when mounted.
- No detail page clears its banner after a refresh that succeeds.
- A failed load of the artifact list leaves "No artifacts found." without an
  error when the reload clears the banner after the error was shown
  (ArtifactList.tsx:136, 151); which comes last depends on how microtasks are
  compiled, and `NoResponse` leaves it open.

### Bounds, and why they are enough

*Watcher.* `MaxStream` 1: a second notification in flight adds only delay, since
the API server may wait. Two objects of one name are what a re-list can confuse;
two of different names are what the queue can reorder. One crash, one gap and
one orphaned put give every pairing of a fault with a step; `WatcherProofs`
covers any number. *Service.* Two clients give every pairing of handlers: of
those that create, update, read and list types and create items in
`service_store`, of those that create, read and list items and events in
`service_events`. The property maps are a map, one extending it and one
contradicting it. One artifact and one execution are enough for a list to lack
something, and an event to lack an end. `MaxPrefixes` 1 tells apart the forms of
a name that the code treats differently. `MaxFailures` 1 fails each call of each
handler once. *ServerBoot.* `MaxFailures` 3 exceeds `RetryNum` 2, so that giving
up, a failed registration and a crash combine. *SDK.* Two clients race; two logs
each make the second find what the first left; `MaxLost` 1 and `MaxRaised` 1,
per call, put every fault at every step, and two faults of different calls into
one behaviour. *Table.* `Slots` 2: two requests overlap, and a third would add
only another older answer. `MaxPage` 1 and a query of two pages: page numbers 0
and 1, a last page that is short, a next button at the end; `Unbounded` 3 lies
beyond them. *Pages.* `MaxMounts` 3: leave a page, and come back to it, while an
answer for the first is out. `MaxCalls` 2: a load of an execution makes two
calls, so a refresh overlaps a load. Three items in two groups alternate, so
that grouping has to join rows that are apart; the other answer has one of them
as it was before it was put again in another workspace. The rows of either are
not among those of the other, so that a mixture of two answers can be told.

### Fairness

*Watcher*: the deployment restarts the process, informer, timers and worker run
(weak fairness of their actions). The store may fail any call, but does not
fail for ever a call that is repeated for ever (strong fairness of
`RegisterOk`, of an answered check and of an executed put, per object):
without it retrying promises nothing. Nothing is assumed of crashes, gaps,
failures or the API server. *ServerBoot*: the process runs and is restarted
(weak fairness); failures end because they are bounded. *CustomTable*: a
request is answered or fails (weak fairness, per slot; gRPC-web calls end, at
the latest with the connection). The debounce timer fires: in the code it waits
for nothing, in the model for a free slot, which other requests may take and
give back, hence strong fairness. Nothing is assumed of the user.

## 4. Proofs

Nearly every theorem is `Spec => [](...)` of an inductive invariant, for any
values of the constants that meet the named ASSUMEs of the modules; TLC
evaluates those in the runs. The others are facts about a put of a type and
about `groupRows`, and the two refinements.

`WatcherProofs` (any numbers of watchers, objects, names and faults):

- `TypeCorrect`: `TypeOK`. Not inductive alone: `Release` and the put need that
  a worker is idle exactly when it holds no event, and that one that puts holds
  an add event. `Shape == TypeOK /\ WorkerShape` is inductive.
- `EventsSurvive`: `NoEventLost`, from `Shape`: each step of queue and worker
  moves an add event between delayed, queued and processed, or leaves it when
  the object is in the store (`acked` implies a copy).
- `DuplicatesBounded`: `DuplicateBound`. Copies alone say nothing of puts under
  way; `AttemptsBounded` counts copies, orphaned puts still travelling and
  workers at `put` together. A worker starts a put only when there is no copy,
  so then each other contributor is a worker or an orphan. `AttemptsStayBounded`
  is that induction.
- `AtMostOnce`: with one watcher and no orphaned put no object has two
  artifacts.
- `EventsInOnePlace`: `EventInOnePlace`. It holds because a UID is never reused
  and OnAdd is told of an object once in the life of a process, which is an
  invariant of API server, stream and cache (`ToldOnce`: an add on the way is
  the only one and not yet seen; what was seen and still exists is in the cache,
  so that no re-list adds it again). Given that, `InOnePlace` is inductive for
  the queue.
- `KeepsLog`: one watcher of which no put outlives the process implements the
  safety part of `ResourceLog`: an object is logged only once, and only by a
  process that was told of it. The step lemma `LogStep` maps every step under
  `RefineInv`, which joins `Shape`, `InOnePlace`, the bound of attempts and that
  nothing is orphaned: a worker that puts has been told of the object and finds no copy.
  With two watchers or an orphan the code does log twice, so the hypotheses are
  needed; they are those of `watcher_live`, which checks `ImplementsLog`, the
  same with fairness.

`MetadataStoreProofs`: conformance is reflexive and transitive; an accepted put
extends types (`PutExtends`); one that may neither add nor delete repeats what
is stored (`PutRepeats`, which needs that property maps are functions).

`ServiceProofs` (any clients, names, property maps, items and failures).
`ServiceInv` says of the store that items conform and of each call how far it
has come (`Progress`): what it has stored is there, what it has read is its own.
A step of one client disturbs another's progress only through the store, so the
induction has two halves: the steps of a client keep its own progress, and every
step only lets the store grow (`Grows`), which keeps everybody else's.
`ServiceTypeCorrect`, `RepliesAreOwn`, `ItemsStayConforming`, `StoredAnswered`,
`TypesAnswered` and `TypesGrow` follow. `ListsComplete` needs the same of a call
that lists (`ListsInv`): before its first store call, what it knew of is still
in the store, since `Grows` holds of items and events; after it, it has found
it, or has noted the failure.
`EventsFound` adds that stored events have both ends
and that a `ListEvents` under way holds only stored events (`EventsInv`); it
assumes that both kinds are modelled.

`ServerBootProofs` (any releases, client maps, retry limit, faults):

- `BootTypeCorrect`, `PredefinedServed`: `BootInv` adds to `TypeOK` that the
  schemas the loop has passed have their types. It is preserved because every
  accepted put extends types, so clients cannot undo it.
- `TypesSurviveRestarts`: `RestartKeepsTypes`, from `PutRepeats`.

`CustomTableProofs` (any filters, columns, page sizes, pages and requests in
flight). `TableInv` joins `TypeOK`, `SpinnerIsWaiting`, and two facts about a
table not mounted: its timer is stopped, and a new one is idle. From it
`TableTypeCorrect`, `SpinnerWaits`, `GoneIsSilent`, and `TableKeepsContract`:
initial states map to initial states of `TableContract`, every step to a step or
a stutter.

- `PagesStayInOrder`: `OrderlyPages`. It speaks of a table at rest, so it needs
  to be known what a request under way will find when it is answered: `Orderly`
  says that there is one at most, that it is for the query of the header, that
  the token list is a prefix of the tokens of that query (`TokensOf`), and that
  the page number, the list and `maxPageIndex` fit (`Footing`), before and after
  the answer.
- `FilterIsNeverDropped`: the text in the box is in the query or in the timer,
  the part of `FilterCatchesUp` that needs no fairness.

`RowGroupsProofs` (any list of rows). `GroupRows` is a function over the number
of rows seen; `StepsExist` shows that there is such a function and
`GroupRowsGroups` that it does what its comment says. The library's induction
takes a predicate as a parameter, which the provers cannot instantiate; an
induction over a *set* of numbers, `SetInduction`, is a first-order fact and
follows from the well-foundedness of `<`. `Grouping` is what holds after each
row: the rows seen are all there, each in the group of its kind, and the first
rows of the groups come in the order of the rows. `RowsOfAnswer` is that for the
rows of an answer, filtered and sorted.

`FrontendProofs` (any ids, items, queries, pages mounted and calls).

- `FrameIsOfRouteHolds`, `ArtifactIsOfUrlHolds`: `FrameInv`. A page remembered
  by a banner, a title or a call may be gone; what protects the next one is that
  frame and page numbers only grow, so that a remembered page with the current
  number *is* the current page, with its route and id.
- `LoadExplainedHolds`: `ExplainInv` adds what each kind of call can belong to.
- `RowsGroupedHolds`, `RowsOfHeaderHolds`: `ListInv`. The rows at rest are those
  of the header because, while nothing overlaps, the one reload under way is for
  the query in the header and its rows are there once its promise is settled
  (`Calmly`); `RowsOfAnswer` gives the rows, `ToggleFacts` that expanding a group
  moves none. In whatever order answers come, what is left in the table is all of
  one answer that one query keeps (`Tidy`), since rows are only ever replaced
  as a whole.
- `ChoiceIsShownHolds`: `NavInv`.

`SdkClientProofs` (any finite set of clients, any objects, lost answers and
exceptions):

- `LoggedRecorded`: `SdkInv` adds that an object's id is that of a stored
  artifact, that none of a client's objects has one when it puts, and that a
  client logs only after its execution was associated. Nothing recorded is
  taken back.
- `UnattributedHolds`: the artifacts outside the workspace that no client is
  about to attribute are at most the puts whose answer was lost and the
  attributions given up (`AbandonedExplained`): each step that abandons one
  counts up one of them.
- `DuplicatesHaveReason`: `DuplicatesExplained`, each of its three parts with
  the bound narrowed to what has been done so far: the clients that hold the id of
  an artifact (`ArtifactsCounted`), those that made their execution
  (`ExecutionsCounted`), the logs whose event is stored (`EventsCounted`).

Only model-checked: liveness (`EventuallyLogged`, `KeepsServing`,
`FilterCatchesUp`, and the fairness in `ImplementsLog`: fairness and ENABLED are
out of the prover's reach). Every invariant of a passing run has a theorem.

## 5. Not modelled

- Schema sets: the resolution of JSON schemas is an algorithm over documents;
  `ServerBoot` takes its result, the schemas with category and properties, as
  the constant `Releases`.
- Python SDK: fields of artifacts, custom properties and the reading calls
  (`list`, `executions`, `events`), which change nothing.
- Store: contexts, attributions and associations exist only as the SDK uses
  them; the C++ implementation is not under `src/`.
- Frontend: checkboxes and radio buttons of the table (no page enables them),
  dialogs and snackbars (no page opens them), the banner's details dialog, the
  lineage view of a library, the unused copy `components/SideNav.tsx`,
  rendering of rows and resource properties, layout, CSS and test helpers. An
  unknown route renders a frame without a page.
- Frontend server: static files and a proxy. (A rejected fetch leaves its
  request unanswered.)
- Generated protocol-buffer and SWIG code, flags, logging, the HTTP gateway.
- An RPC of the watcher that never returns (it sets no deadline) would block
  its worker for ever, against the fairness.
- The events' `Type UNKNOWN` check, a property of the data alone.

## 6. Plan

1. Done: `ResourceLog`, `Watcher`; `MetadataStore`, `Service`; `ServerBoot`;
   `SdkClient`; `TableContract`, `CustomTable`; `RowGroups`, `RoutedPage`,
   `ListPages`, `DetailPages`, `SideNav`, `Frontend`; their theorems.
2. `SchemaSet`: `PropertyType` and `SimpleProperties` over bounded schemas,
   compared with a reference resolution; `Releases` of `ServerBoot` from it.
3. `MetadataStore` with contexts, attributions and associations, and
   `SdkClient` over it.
4. Proofs: how a client's view of the service relates to one that runs its
   calls one at a time; the order of rows within a group.
5. Larger instances: three clients of the service without updates, a third page
   of the table.

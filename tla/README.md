# WatchNexus: a verification of the core server and its web client

WatchNexus is a self-hosted media server: an ASP.NET Core host
(`src/src/watchnexus/core`), a React client (`src/src/web`), loadable modules
and a remote-access sidecar (Lobster). This directory holds TLA+ models of the
parts of the server and of the client whose correctness depends on the order of
things, the TLC configurations that check them on small instances, and TLAPS
proofs of the properties that matter most for every instance.

`tlc -config <cfg> <module>` runs a model, `tlapm <module>_proofs.tla` checks
the proofs. `PROJECT.json` lists the runs, the lines of code that each
definition models, the hazards, the findings and the theorems.

## 1. Inventory

The server is one process over one SQLite database (`Data/AppDbContext.cs`).
Every request runs concurrently with every other, in a DbContext of its own
without explicit transactions, locks or concurrency tokens; a few services keep
state in memory. Three hosted services run beside the requests: the update loop,
the bot timers and the tray icon. The client is one page at a time inside
contexts that outlive the pages; its handlers run to their next `await`, and
between two awaits anything else may happen.

| Component | State | Operations | What is hard | What makes it correct |
|---|---|---|---|---|
| **Patch pipeline** (`PatchService`, `UpdateBackgroundService`, `UpdateController`, boot hook in `Program.cs`) | live, staged, temporary and backup files; `update_patch_done`, `update_applied`, `update_restart_pending` rows | apply a patch (loop or admin), record it, restart, swap staged files at boot | two appliers at once, kills between file operations, a manifest republished between two fetches | only verified (and, for binaries, signed) bytes reach the disk; a file in use is whole; what is recorded as done is on disk; a due patch lands |
| **Licensing** (`CellarController`) | install id, license row, setup flag; seats counted by the license server | activate, activate on first launch, skip, deactivate | calls that are lost after they took effect, races of check and save | one install id, for the seats and for the stored license; no seat leaks or is freed while used; a licensed server is set up |
| **Accounts and sessions** (`AuthController`, `UsersController`, `AuthService`, `TokenVersionStore`, token check in `Program.cs`) | users, token versions, issued JWTs | setup, login, logout, create, change role, delete, reset and change passwords | check-then-save races, two saves that belong together | an administrator remains; no address has two accounts; revoked sessions stay revoked; a new password ends old sessions; what is deleted stays deleted |
| **Watch party** (`WatchPartyConnectionManager`, WebSocket endpoints in `Program.cs` and `FeatureControllers.cs`) | a dictionary of lists of sockets | join, leave, message, broadcast | lists shared without a lock across awaits | no dead members; the cap; a broadcast reaches everybody in its list |
| **Rate limiters** (watch-party messages, license attempts) | timestamps per socket or address | admit, refuse | clock boundaries, dictionary cleanup | no more than N in a window; refusals do not prolong the wait |
| **Libraries** (scans of `LibrariesController` and `BridgeController`) | library row, media items, `_scanJobs`, `_scanTokens` | start a scan, its background task, cancel, delete, scan through the bridge | a cancelled scan that still runs while the next one starts; deletion and restarts under a scan | background scans never add a file twice; a cancellation finds the scan that runs; counts are right; every scan ends |
| **Client: contexts** (`AuthContext`, `LicenseContext`, `GadgetContext`, routes of `App.js`) | who is signed in, edition, installed gadgets; the browser's cookie | load, login, logout, activate, install | answers that overtake each other or are lost | the client agrees with the server once everything is answered |
| **Client: first-launch wizard** (`FirstLaunchGate.jsx`) | steps, index, busy flag, timers | bootstrap, each step, reload | two steps mounted during a cross-fade; callbacks of old renders | no step is skipped; the preparing step ends |
| **Client: retrying API client** (`apiErrorHandler.js`, `enhancedApi.js`) | a retry count per method and url | send, 429, 503, 504, wait, retry | callers share the count | every call settles; the budget is overrun by a bounded amount |
| **Client: player** (`VideoPlayer.jsx`) | episode, stream, segments, prompt, countdown | load, skip, seek, auto-play, cancel | late answers of an episode that was left | the episode shown is that of the route; the countdown ends |
| **Client: pages and settings sections** (84 of `pages`, `components/settings`, `components/media`) | what is shown, selections, dialogs, busy flags | every handler, effect and timer | double clicks, failures midway, answers to old selections | no page is stuck; no change is sent twice; a page shows what the server has; typed text is kept |
| Fortress (`Fortress.cs`, `FortressController.cs`) | activation, seal, audit log | tier gate, seal, verify, audit | patches change sealed files; log at its cap | a gated feature needs its tier |
| Strudel (`StrudelController`, `StrudelPipelineController`) | jobs in memory and in JSON files | submit, cancel, retry, background phases | cancellation racing completion, restarts | a job ends in one final state |
| Bot service (`BotBackgroundService`) | balances, timers | drip, inactivity, featured film | timers against requests | balances are not lost |
| Module registry and loader (`shared/Module.cs`, `ModuleLoader.cs`) | registered modules and their flags | load, register, enable | registration order | routes match enabled modules |
| Lobster (`modules/lobster`, `lobster-sidecar`, relay, coordination) | sidecar process, sessions | start, stop, status, proxy | supervision, timeouts | one sidecar at a time |
| Settings, system, media, gadget, feature controllers | one table each | CRUD, calls to third parties | little | validation |
| Middleware, tray, helpers, website, installers, docs | none or local | | | |

**How they interact.** The update loop and the update controller call the same
`PatchService`; the boot hook is all that runs before the host is built, and
reads only the staging directory. A patch can replace the files that Fortress
has sealed. `CellarController` writes the license and the setup flag that
Fortress and the first-launch wizard read. Every authenticated request of every
controller passes the token check that `TokenVersionStore` feeds. The license
endpoints and the watch-party sockets each have a sliding-window limiter in
front. The bridge endpoints scan and delete the libraries of
`LibrariesController` without its lock. In the client the wizard decides whether
the routes are shown at all, the contexts decide which of them, and every
request of a page may go through the retrying client.

## 2. Plan

Most important first. Modules marked * exist.

1. `PatchPipeline`* with the abstract store `PatchStore`* it implements;
   `PatchPipeline_proofs`*, `PatchStore_proofs`*.
2. `License`* with the license server as its environment; `License_proofs`*.
3. `WatchParty`* and `SlidingWindow`*; `WatchParty_proofs`* for both.
4. `Accounts`*; `Accounts_proofs`*.
5. The client: `WebSession`*, `FirstLaunch`*, `ApiRetry`*, `Player`*, composed
   in `MCShell`*, `Shell_proofs`* for the four; the pages as data over one engine, `PageKit`*, `Pages`*,
   `PageClaims`* and six catalogs*, with `Pages_proofs`*.
6. `LibraryScan`*; `LibraryScan_proofs`*.
7. `RipJobs`: a Strudel job against its background task, cancel, retry and a
   restart that reloads saved jobs; an abstract job life cycle. Much of what its
   documentation promises the code does not have (section 6), so it waits for a
   repair.
8. `Fortress`: required and current tier of a request, seal and verification
   composed with the files that `PatchPipeline` changes, the audit log at its
   cap.
9. `Bot`: the timers against requests. `Modules`: registration and loading.
   `Sidecar` (Lobster).

Abstract specifications: `PatchStore`* (what the pipeline promises about the
bytes of files, implemented without a condition) and a job life cycle for
`RipJobs`. Licensing and accounts have none: a store whose writes decide on the
rows as they are is not what these endpoints implement, since they check in one
step and save in a later one. If they are repaired (a transaction or a
concurrency token), that store is the specification to state.

## 3. Modules and their correspondence to the code

In every model of the server a step is the code between two points at which
other work can run: an await, a query, a `SaveChanges` or a file operation. A
request or applier is a record with a program counter; `Goto` moves it and
`Return` ends it, answered or thrown. In the models of the client a step is a
handler up to its next `await`, or an answer.

### PatchPipeline

`ap[a]` is the local state of the auto-update loop or of a concurrent
apply-patch request. `FetchManifest`, `CheckDone`, `VerifySignature` and `Gate`
decide; `Download` is phase 1 of `ApplyAsync` (every file is fetched and hashed
before any is written); `BackupFile`, `OpenFile`, `CloseFile` and `MoveFile` are
phase 2: web and data files go to `<path>.patch-tmp` and are renamed, binaries
are staged in `pending-update`. `RecordRead` and `RecordSave` are `RecordAsync`.
`Restart` is the restart request, `Stop` a graceful stop, `Kill` anything else,
and `BootSwap`, `BootSwapFails`, `BootFinish` the hook `ApplyPendingUpdates`.
`CallFails` is an exception at any await.

Data: the content of a file is the patch it came from, `Orig`, `Absent` or
`Garbage`. A write that is not finished is *torn*. The Linux build is modelled:
a rename takes an open file along, and a second open of a file somebody writes
fails. `autoOn` joins the two settings the loop reads. A manifest is fixed per
version; the repository may publish another version (`Republish`). The check,
history and dismiss endpoints do not touch this state.

`PatchStore` is what an administrator may rely on: a patch is vouched for as a
whole, then files go one by one, each in one step, to the bytes of a vouched
patch that names them; a file that the process has loaded changes only while
the host is down. `ImplementsStore` says that `PatchPipeline` implements it, for
any number of appliers and whatever fails, with the bytes of the files in use,
`up` and the vouched patches mapped to its variables. Whether all bytes of a
file are there yet is no part of it: that is `LiveWhole`, which two appliers
break.

### License

The variables are the three rows (`install`, `lic`, `setup`), the `seats` that
the license server counts, and the requests. The pipeline is that of `Activate`
and `ActivateFirstLaunch`: install id, call, tier check, read, save, release of
the previous seat. The license server is external, modelled from how it is
called: one live token per serial and hardware id, a new generation each time it
is issued again, released by token. A lost call may have taken effect. Entity
Framework's change tracking matters and is kept: an INSERT fails if the key
exists, an UPDATE or DELETE fails if the row is gone, an unchanged row writes
nothing. The 429 path of the limiter is `SlidingWindow`; checking the serial's
format does not change state.

Every endpoint reads, calls the license server for up to 15 seconds and then
writes, and nothing keeps two of them apart. What holds although any of them
overlap is the install id: `OneInstall` for the seats, `StoredUnderInstall` for
the stored license. What does not is in section 6.

### WatchParty and SlidingWindow

`members[l]` is a list object and `room` the list that the dictionary holds for
the party (one party: keys are independent). `Join` gets or makes the list,
`Add` and `PartyFull` test the cap, `Receive`, `Send` and `FinishBroadcast` are
the receive loop (the enumerator throws if the list changed across an await),
`EndLoop` and `Leave` are the cleanup. The handler locks its list, not the
dictionary. `CleanExit` names what that does not rule out: a list left empty
while somebody who looked it up is still to enter, or while the entry is already
that of another list. The code allows both (`InOneRoom` in section 6);
`RoomKept` says only that nothing else splits a party. The two
places that register the socket
route (`Program.cs`, `FeatureControllers.cs`) run the same handler.
`SlidingWindow` models both limiters, chosen by `limiter`: they differ in the
comparison at the edge of the window and in the license limiter's removal of an
empty list, after which it records into the detached one. Two requests of one
socket never overlap; those of one address hold the lock. `MCParty` puts the two
beside each other; a behaviour is of one of them.

### Accounts

`users`, `pw`, `tver` and `tokens` are the users, the number of times each
password was set, the `sec_tokenver:` rows and the JWTs issued. `Authorized` is
the `[Authorize]` attribute together with `OnTokenValidated`: a JWT is as good
as its version, and carries its own role. `CheckFirst` and `Insert` are `Setup`
and `CreateUser`, `Credentials` and `GenerateToken` a login, `Find`, `Count`,
`SaveRole`, `Delete` and `SavePassword` the user management, `BumpRead` and
`BumpSave` `TokenVersionStore.IncrementAsync`. A row of `Users` is an id, used
once; `AddressOf` gives its email address, which several ids may share. A
deletion frees the address (`CoreController.cs:432`), and the next account with
it has another id. `CheckAddress` is the query of `AuthService.CreateUser`
(`Setup` does not make it), `Taken` the unique index that a save meets.
Validation, the `auth` limiter and the seven-day expiry are left out. A seeded
administrator (`SeedAccounts`) is a setup whose token was never used.

The endpoints read and save in steps of their own, and any two overlap. What
holds all the same is `OnePerAddress` and `DeletedStaysDeleted`, because the
database refuses the save; what only a check before the save guards is in
section 6.

### LibraryScan

One library: the statics `_scanJobs` and `_scanTokens` are keyed by its id.
`call[r]` is what request `r` does and how far it is. `Register` is the block
under `_scanLock`; `Enumerate`, `Look`, `SaveItems`, `Count`, `Close`, `Report`,
`Untoken` and `Dispose` are `RunScanBackground` with its `catch` and `finally`,
step by step; `Interrupted` is a look at the token. `source` is the
`CancellationTokenSource` of each scan: live, cancelled or disposed. `status` is
that of the job in `_scanJobs`: nobody sees a job that was replaced. `Signal` is
`CancelScan`, `Remove` both delete endpoints; the foreign key deletes the items
with the library, and a save for a library that is gone fails. The scan of the
bridge endpoint is the same steps inside its request, without lock, job or
token. A file is its path; which metadata is looked up does not matter. A
restart forgets the statics and the tasks and keeps the rows. Creating and
editing a library store one row in one request.

### WebSession, FirstLaunch, ApiRetry, Player

`WebSession` has the three contexts, the cookie and the server's side of them.
`wire` holds the requests in flight: `ServeRequest` is the server taking one
(with the cookie it was *sent* with), `AnswerRequest` its answer, `LoseRequest`
either of the two lost, in any order. `history` remembers what the properties
except.

`FirstLaunch` has the wizard as React renders it. A callback closes over the
step number of its render, so each `panel` and each request carries the number
its callbacks know; while `AnimatePresence` fades a step out, `panel` lags
behind `idx` (`MountStep` ends it). `prep` is the effect of the preparing step,
restarted by every render with another `onNext`.

`ApiRetry` has the calls of one url, which share one entry of `retryCounts`. The
interceptor of the client nests: a retry fails into the handler that retried it
(`unwinds`).

`Player` has the chain of requests of an episode (`loads`, one per run of the
effect, with the `ignore` flag and the copy the helpers were handed), the video
(`rolling`, `at`, four places: intro, body, credits, end), skip segments,
prompt, countdown and auto-play. The route of the next episode keeps the
component.

`MCShell` puts the four beside each other; a behaviour is of one of them.

### Pages and the catalogs

84 pages differ in data, not in kind (85 descriptions: the update settings have
one for a server that waits for a restart). `PageKit` is the vocabulary: a handler is
a sequence of awaited requests, with the flags it raises before, lowers after
(`finally`), on success or on failure, what it changes on the page without
asking the server, and which handlers it calls next. A page has what its effects call on mounting and on a
change of a selection, its timers, and its controls with the flags they need and
the flags that disable them. `MediaPages`, `ToolPages`, `GadgetPages`,
`AdminPages`, `ServicePages` and `SettingsPages` hold one definition per page,
mapped to its source. `Pages` runs one page against the server: `srv[r]` is the
set of changes the server has made to a resource, `shown[r]` those the page
shows, so that a stale or lost update is a difference of two sets. `PageClaims`
says what pages get right; `MCPages` names the exceptions (`Lagging`) and the
flags that act as locks (`Locks`).

A flag that holds the id of a row (`testing === row.id`) stands for one row.
What several rows do to each other through one such flag is in section 6. Where
the code keeps a map of flags instead (maintenance actions, requests of Menu and
Sage, grabs of the indexer search), each action, or each of two rows, has a flag
of its own.

## 4. Runs

Instances are the smallest in which the interesting case happens.

| Run | Instance | Shows |
|---|---|---|
| `patch_serial` | loop alone, two patches, republishing, 2 faults (network, disk, save, boot swap) or kills | a copy of what is overwritten; a due patch lands (liveness), also after an application that failed half-way |
| `patch_two` | loop and one request; a web, a signed and an unsigned patch; 2 faults or kills | one record per patch; only bytes on disk that were shipped or belong to a patch verified as a whole; only signed binaries (no republishing), done is on disk; implements `PatchStore` |
| `license_first` | requests of all kinds, two at a time, any overlap, 4 requests, one fault (network, save, crash) | seats under the one install id, one per serial; the stored license issued to it |
| `party` | 3 clients, cap 2, 5 joins; limit 2, window 2, three windows | no dead members, cap of a list, complete broadcasts, a party split only by an exit that is not clean; at most the limit (license attempts: one more), refusals only while the window is full |
| `accounts_two` | two at a time, any overlap, 3 accounts of which two have one address, 5 requests, 1 fault | one account per address; deleted stays deleted |
| `library_scan` | 3 requests of any kind (one deletion, one bridge scan), 2 files, 1 fault, 1 restart | background scans add no file twice, a cancellation reaches the scan that runs, counts are right, scans end (liveness) |
| `shell` | contexts: 2 logins, 2 logouts, a reload, an installation, a change of edition, one lost request, 2 requests in flight when the user acts; wizard: 4 requests, one lost, 2 visits; client: 3 callers, 2 retries; player: 3 episodes, 2 moves, one failing request | client and server agree once everything is answered, nothing skipped in the wizard, retries bounded, the route's episode on the screen; the preparing step, the calls and the countdown end (liveness) |
| `pages` | each of the 84 pages, 2 values of its selections, 2 calls beyond those of the mount, one failing request | no flag stuck, no lock held twice, nothing stale after calls one at a time, typed text kept where the page is careful |
| `patch_race`, `login_tier`, `accounts_admin`, `license_double` | see section 6 | the code disagrees with a comment, a test or a message of its own |

**Bounds.** The constants `MaxFaults`, `MaxRequests`, `MaxJoins`, `MaxCalls`,
`MaxTime`, `MaxRestarts` and those of `MCShell` cap counters. Two requests and
two patches are enough for a race between a check and a save, because every race
there is between one reader and one writer of a row or file; a third party is
there for lists (a broadcast needs somebody who joins and somebody who talks),
for accounts (two that have one address after the other, and who deletes the
first), for scans (the scan that was cancelled, its successor and whoever cancels
or deletes) and for retries (the budget is overspent by one less than the
callers). Five requests reach setup, login, create, delete and create again. No
run keeps requests apart: in each of them any two may overlap at any step. A page
sees two calls besides those of its mount: the races are between two, and three would add only a second
such pair. One call may begin while the page mounts, and calls of more than two
handlers begin only at rest: they are reloads of the whole page. In
`library_scan` requests arrive in the order of their numbers, which loses
nothing since their operation is chosen on arrival. The theorems lift the bounds
for what they state.

**Fairness.** `AutoLands` needs weak fairness of the loop's own steps (it
catches every exception and runs again after its interval,
`UpdateBackgroundService.cs:26-43`) and of the boot hook (the service manager
restarts the host); its premise is that the server is up for good, updates stay
enabled and the patch stays published, and faults are finitely many. `ScanEnds`
needs weak fairness of each background task: its awaits are of the disk, the
database or an `HttpClient`, which has a timeout; it catches everything and
reports in a `finally` block. In the client timers fire (`PrepareEnds`,
`CallSettles`, `CountdownEnds`) and every request comes back, since `api.js`
gives it a timeout of 30 seconds. Nothing is assumed of users.

**Deadlock** is checked for the patch pipeline, which always can go on. The
other systems stop in their models when the bound on requests, joins or calls is
used up; their runs say `CHECK_DEADLOCK FALSE`.

## 5. Proofs

All for every value of the constants, any number of requests and faults. A
theorem has a hypothesis where this table names one, of three kinds:
`BackupsPrecede` speaks of the update loop alone (`OneApplier`), `DoneDelivered`
of a boot hook that does not fail, and the theorems about all pages of a catalog
of what its descriptions say. Nothing else is proved under a condition that keeps
requests of the server apart, because the code does not. Exceptions that belong
to a property (a second logout in `SessionAgrees`, `CleanExit` in `RoomKept`) are
in its definition.

| Theorem | States | Inductive invariant |
|---|---|---|
| `PatchPipeline_proofs!TypeCorrect` | types | `TypeOK` with the index of each applier within its manifest |
| `AllVerifiedFirst` | bytes on disk were shipped, or belong to a patch verified as a whole before its first write | an applier past phase 1 has a verified payload for every file and its patch is vouched for; the bytes of a place somebody holds are that applier's |
| `AppliedOnce` | one successful record per patch | `okRows` is positive only for patches in `done`; whoever is to save has seen the row missing |
| `DoneDelivered` | the files of a done patch were delivered, if the boot hook does not fail | an applier at `record` has written all its files; files written are never taken back |
| `PatchStore_proofs!PipelineIsAStore` | the pipeline implements `PatchStore`, for any number of appliers, whatever fails or is republished | the bytes of a temporary or staged file are of a vouched patch that names it; only binaries are staged; an applier that has opened a place has written the bytes of its own patch there |
| `BackupsPrecede` | one applier (`OneApplier`) copies what it overwrites, whatever fails | what is in a place is what the applier found when it made its copy; what is staged is what the next boot copies first |
| `License_proofs!LicenseTypeCorrect`, `SeatsOfOneInstall`, `LicenseOfThisInstall` | types; seats under the stored install id, one per serial; the stored license issued to it | a request about to call the server carries the stored id, as does the answer it then holds: the id is only written when there is none, so no seat exists before |
| `WatchParty_proofs!NoGhostMembers`, `ListsAreCapped` | members have a running handler; lists within the cap | a socket is in the list its handler names, and there only |
| `BroadcastsReachAll` | a broadcast that ends has reached its list | while its enumerator is valid, members are visited, dead or to be visited; whom it found dead is still listed, so has not come back |
| `RoomIsKept` | only an exit that is not clean splits a party | who is on a list of its handler is there until it closed or was pruned |
| `LimitersSound`, `RefusalsAreFull` | the window bounds; refusals | what is recorded covers the admitted calls of the window, but for one detached call |
| `Accounts_proofs!AccountsTypeCorrect`, `AddressesAreUnique`, `DeletionsAreFinal` | types; one account per address; deleted stays deleted | a request in progress is about an account; a row is inserted only while no other has its address; who is to insert has an id that was never used, each other write to a role finds its row |
| `LibraryScan_proofs!ScanTypeCorrect`, `BackgroundCopiesAreOne`, `CancellationReaches`, `CountsAreRight` | types; no file added twice in the background; the token is that of the running scan; counts | a scan that runs owns the job, its token and a busy status, so at most one runs; what it is about to save no other background scan has saved; what it counted is what is there; a token in the dictionary is not disposed |
| `Pages_proofs!LocksHold`, `NoDoubleSubmitHolds` | any catalog, any number of calls: a flag that `Keeps` the rules of a lock admits one call | one call holds the flag, and it is up meanwhile |
| `FlagsRest`, `NoStuckFlagsHolds` | a flag that `Settles` is down at rest | a flag that is up has a running call that will lower it, or calls who will, or a timer that nobody stops without lowering it |
| `TypedTextStays`, `NoEditLostHolds` | text that the page `Minds` stays | the loader is up and nothing was typed, or no call is left that overwrites it |
| `ChangesAreShown`, `SerialFreshHolds` | a resource that the page `Refreshes` is shown as the server has it, after calls made one at a time, whatever was refused | the page shows what the server has, or a running call is going to fetch it, or the one running call is going to copy its change; what a running call was told is still true; only calls made together run beside each other |
| `Shell_proofs!SessionsAgree` | client and server agree on who is signed in once all is answered, if nothing was lost and no second logout sent | nobody signs in or out before the probe is back; one login and one logout are out at most; who is signed in holds the server's cookie unless a logout is out, who is not does not unless a login is |
| `CopiesAreCurrent` | edition and gadgets shown are the server's, under the same conditions | what an answer on its way carries is what the server has, or an activation or installation is still to be answered, after which the client fetches again |
| `WizardTypeCorrect`, `WizardSkipsNothing` | types; nobody past account or edition without it | the list of steps is whole, what remains once there is an account, or the choice of an edition; in the whole list nobody is past the second step; a panel and a request stand where their step is, or behind it |
| `RetriesBounded` | the shared count exceeds the limit by less than the callers | the count and the callers that wait out a rate limit are together below the limit and the callers |
| `PlayerTypeCorrect`, `ScreenFollowsRoute` | types; the chain of the route's episode is on the screen | the last run of the effect is the route's and the only one not ignored; what it has set is the route's |

Each theorem follows from three facts (initial states, every step, implication),
with one lemma per action, and `PTL` joins them. The refinement has a fact for
the initial states and one that every step is a step of the abstract store or a
stutter. The assumptions on constants are those of the modules
(`PatchesAssumption`, `LicenseAssumption`, ...); TLC evaluates them in every
run.

The hypotheses about pages are conditions on data (`PageClaims`): `Keeps` on a
lock, `Settles` on a flag, `Minds` on what is typed, `Refreshes` on what is
changed. Each is decided by reading one description, and each theorem is about
every page whose description satisfies it, with any number of calls and
failures; `NoDoubleSubmitHolds` and its like speak of catalogs all of whose
pages do. Evaluated over the 85 descriptions here, every flag in `MCLocks` keeps
the rules of a lock, each busy flag settles, the careful pages mind all they
show, and every pair of a page and a resource is refreshed but the 24 of
`MCLagging`. No run states this as a property, since no step of a page can
change it; to evaluate it again, assume the hypotheses of the four theorems in
`MCPages`.

Two proof attempts failed for a good reason. `CopiesFollow` was not true after a
second logout press, which the server may take when somebody has signed in again
meanwhile; it excepts it now as `SessionAgrees` does, and the run `shell` allows
two logouts, without which it could not have seen this. And the first rule for
busy flags left out those that another handler or a timer lowers (`scanning` of
Strudel, `saving` of Parfait, `running` of Saffron, `loading` of Chowder and of
Weather, `restarting` of the updates); `Settles` now covers how each of them
comes down.

**Only model-checked:** liveness (`AutoLands`, `ScanEnds`, `PrepareEnds`,
`CallSettles`, `CountdownEnds`: fairness and `ENABLED` are out of the prover's
reach). No proof needs induction over data and no module with a proof declares a recursive operator.

## 6. Where code and documentation disagree

Four runs end in a violation:

- `patch_race` (`LiveWhole`): two apply-patch requests share one `.patch-tmp`,
  so a rename publishes a file the other is still writing.
- `login_tier` (`LoginBringsTier`): the edition is fetched when the page loads
  and after an activation, but not after a login, so a licensed user who signs
  in sees locked routes until a reload.
- `accounts_admin` (`AdminRemains`): two administrators demoted or deleted at
  once are each counted while both still are; none is left.
- `license_double` (`StoredSeatHeld`): of two activations of one serial the loser
  hands back the seat that the winner has stored.

What else the code does not have follows; each is reached on the instance named.
A property in the first column is one that its module states and no run checks
on that instance, and marks what a repair would have to restore.

| Where | Instance | What happens |
|---|---|---|
| patch: boot hook | one binary patch, one kill | a binary staged by halves is swapped in at boot |
| patch: boot hook | one binary patch, one fault of the boot hook | a staged file whose swap failed is deleted with the directory, and its patch stays recorded |
| patch: backups | one web patch, one request | applying a patch again overwrites the backup of the original |
| `PatchPipeline!BinariesSigned` | two binary patches, republishing | signature and files come from two fetches of the manifest |
| licensing: tier check | two activations at once | a Pro activation replaces a newer Ultra one |
| licensing: reused seat | one lost call | a lost hand-back leaves a seat that the next activation takes for a live one |
| licensing: setup gate | first launch and skip at once | an anonymous activation lands after setup |
| licensing: setup flag | an activation by an administrator during the first launch | the license is stored, the first-launch screen stays open to anybody |
| licensing: replaced seat | two first-launch activations | the second leaks the seat of the first |
| `WatchParty!InOneRoom` | 3 sockets, cap 2 | joining while the last member leaves strands the client in a list nobody looks up |
| watch party: cap | 3 sockets, cap 1 | two lists together exceed the cap |
| watch party: broadcast | 3 sockets, cap 2 | a join during a broadcast disconnects the sender |
| `SlidingWindow!NeverOverLimit` | license limiter, limit 2 | one attempt too many: the emptied list is detached |
| accounts: setup | two setups at once | two first administrators |
| accounts: sessions | login and reset at once, or one crash | a login survives the reset; a crash between password and bump |
| accounts: token version | logouts at once | a late bump takes the token version back |
| `LibraryScan!FilesOnce` | a background scan and one of the bridge | the bridge takes no lock (against `LibrariesController.cs:178`): both add the same file |
| `LibraryScan!CancelStops` | one scan, one cancellation | a cancellation after the last look at the token stops nothing, and the job that was "cancelling" ends "completed" |
| `WebSession!ClearedOnLogout` | one login, one logout | the gadgets stay (`GadgetContext.jsx:41` says they are cleared) |
| `ApiRetry!ClearedOnSuccess` | one caller, one 429 | a success after a rate limit leaves the count (`apiErrorHandler.js:152`, `api.js:24`) |
| `PageClaims!ShowsSelection` | the radio page, two filters | the answer to the first filter, coming after that to the second, stays on the page; no page looks at which selection an answer belongs to |
| `Player!PlaysToTheEnd` | three episodes, one countdown | nothing sets the countdown back from 0, so the effect that fires at 0 leaves the new episode as soon as the one after it is known (`VideoPlayer.jsx:225-230`; line 1050 says "when current one ends") |
| `Player!WatchedWasPlayed` | one press of next | the old video ends after the route has changed and marks the new episode watched (`VideoPlayer.jsx:364-369`) |

Seen while reading, and part of the models unless they lie outside of them:

- **Player:** the next run of `checkEndCredits`, within a second, undoes
  `cancelNextEpisode`; `ignore` is handed to the helpers by value
  (`VideoPlayer.jsx:110`, 114); a failing `getStreamUrl` sets the error of an
  episode that was left (105-107).
- **Retries:** the 429 handler checks the budget before its wait and spends it
  after (`apiErrorHandler.js:273-275`).
- **Routes:** `/watch-party` is missing from `ROUTE_MODULE_MAP`, although
  `App.js:215` wraps it in `TierRoute`. A second press of logout signs out
  whoever signed in after the first.
- **Wizard:** a late answer to a library that was being created, after Skip,
  moves the wizard back; Enter twice creates two libraries; the account it
  creates leaves `isAuthenticated` false, so Launch lands on `/login`; a lost
  answer of `POST /auth/setup` leaves the step refused until a reload.
- **Settings:** `GeneralSettings` hands its preferences to `onSave` (381-390),
  but `SettingsPage.handleSaveSettings` (214-219) takes no argument and swallows
  errors. `CrumbsSettings.openEditor` (51-62): the late fields of one service
  land in the editor of another. The timer of `ZestSettings` (148-158) keeps the
  filters of an old render. The toggle of `IndexerSettings` (54-55) diverges on
  a double click, and its "fix" branch can lose the indexer. `IPTVSettings` adds
  and deletes on `iptvSources` of an old render (66, 82). `UsersTab` sends whole
  permissions, so two switches lose one. A failure midway in
  `importDefaultProfiles` leaves the list as it was. `UpdateSettings` does not
  guard apply.
- **Pages:** flags that hold one row's id (scan in the library manager, tests of
  download clients, services, indexers and subtitle providers, installation of
  gadgets, repair and redownload in media health) free the first row when a
  second is pressed. Pages that do not show a change of their own are the pairs
  of `MCLagging`. Pages that lose typed text when an answer comes late: the
  settings Crumbs, Engine, General, Paths, Playback, Qbit, Subtitle, ThemeForge,
  and Marshmallow, Parental controls, Popsicle, Sourdough, Sprout, Usenet.
- **Strudel (not modelled):** the background task uses a `DbContext` of the
  request after its scope is disposed, so a job stays "queued"; a retry reads
  `Id` back as "" and saves `strudel_job_`; a cancellation during transcoding is
  overwritten by "complete".
- **Other controllers (not modelled):** adding to Fondue or through the bridge
  with an empty `LibraryId` violates the foreign key; `RemoveMovie` of Fondue
  looks a string key up as an `int`, which throws.

## 7. Not modelled

The components of section 1 without a module, with the reason in `PROJECT.json`:
Fortress, Strudel, the bot, the module loader, Lobster and its sidecar are left
for later (section 2); settings, media, gadget and feature controllers are
endpoints over one table each; middleware, tray, website and installers keep no
state that others read. Of libraries, creating and editing. Of the client:
`DVRPage`, `PlaylistsPage`, `WatchPartyPage`, `HelpPage`, `RoadmapPage`; of
`AuthPage` what signs in (`WebSession`); of the settings `QualityProfilesSubTab`
of media management, `IntegrationsSettings` (rendered nowhere) and
`AboutSettings`; navigation, folder browser, themes, audio and dialogs.
Everywhere: cryptography (hashes and signatures are right or wrong), parsing and
validation of requests, markup and layout, and the machines around the server:
the license server, the patch repository and the service manager appear only as
what the core sees of them.

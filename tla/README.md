# OwlDrop in TLA+

OwlDrop is one Go process: an HTTP server, for browsers and as a desktop shell, in
front of the local Tailscale daemon. It shows what arrived over Taildrop, saves it,
sends files, takes uploads from strangers through *drop links*, keeps a shared *sync
board*, and switches its own exposure (LAN mode, Serve, Funnel). Every HTTP request
is a goroutine; besides them run the inbox watcher, auto-saves, the sync of open
pages over server-sent events, and a few timers. State is kept in memory under small
mutexes and copied to JSON files in one data directory.

This directory models the parts of it that keep state of their own, checks them with
TLC on small instances, and proves with TLAPS, for every value of the constants, the type
invariants, safety invariants and safety action properties that those runs check.

- [The system](#the-system): components, state, operations, what is hard about them
- [The modules](#the-modules): how state and actions correspond to the code
- [The runs](#the-runs): what is checked, with which bounds, and what it shows
- [Fairness](#fairness)
- [What is proved](#what-is-proved)
- [What the code does not keep](#what-the-code-does-not-keep)
- [Not modelled, and the plan](#not-modelled-and-the-plan)

## The system

| Component | Source | State | Operations | What is hard about it |
|---|---|---|---|---|
| Drop links | `drops.go` | links by token, `droplinks.json`, one upload lock and one token bucket per link | create, revoke, set the auto-save folder; `handleDropUpload` | the check and the count are two critical sections, change and write another two; crashes and failing writes in between |
| Rate limiter | `drops.go:74-101, 338-358` | tokens and time of the last check | `allow` | rounding and the cap |
| Quarantine | `drops.go` | uploaded files on disk, the registry of names, the save folder | store a file, store a folder as a zip, save, delete, rebuild at start | a zip takes its name long before it registers it; saves race saves and deletes; a restart lists what it finds |
| History log | `history.go` | the log, open sessions, when each name was last seen | arrivals, saved, deleted, sent, clear, load | its callers report late and out of order; the log is pruned; a restart loses `lastSeen` |
| Sync board | `sync.go`, `post_sync` in `mcp_tools.go` | the list, `sync.json`, one payload per file item | post, upload, remove, clear, load | payloads are stored before and unlinked under the mutex, but before the list is written |
| Configuration | `main.go:90-253`, `server.go:745-775, 896-1020`, `mcp.go:82-165` | the config in memory, `config.json` and its temporary file | load, set, hide a device, toggle and rotate MCP | saves run outside the mutex and share one temporary file; loading saves before it has read everything |
| Serve and Funnel | `serving.go`, `funnel.go` | cached config, etag, one mutex; the real config is the daemon's | read the state, switch on and off | other tools change the same config; each toggle is a read, a second read and a conditional write |
| Inbox, watcher, auto-save | `server.go:1048-1303`, `ops.go`, `localapi.go` | the daemon's inbox, what is being auto-saved, what failed last | long-poll, save, delete, auto-save | stale snapshots, retries after partial failures |
| Event hub | `server.go:30-75, 664-706` | one bounded channel per page, the last inbox | subscribe, broadcast | full channels drop events |
| Share queue and sending | `share.go`, `ops.go:36-77`, `server.go`, `shell.go`, `send_file` in `mcp_tools.go` | files that wait to be sent, the pushes under way | hand over, take, send to several peers, put back, clear | a failure half way through the peers; a request that ends while its push goes on |
| Listener | `server.go:270-313, 983-1020`, `shell_server.go`, `shell.go` | LAN mode, the listener, rebinds that are due | serve, switch, rebind | the mode is read 300 ms after the answer; rebinds overlap; binds fail; one build waits for the listener that is closed |
| Updater and version poll | `updater.go`, `updater_server.go`, `updater_shared.go` | two answers, the poll's and the updater's; what the updater resolved | poll, check, install, the updater's events | each check is answered twice, by a return and by an event, and others come in between |
| Telemetry | `telemetry.go` | a switch and a buffer | event, flush | flushes run beside each other |
| MCP endpoint | `mcp.go`, `mcp_tools.go` | its token, in the configuration | JSON-RPC tools that call the operations above | none of its own |
| Access guard | `server.go`, `mcp.go` | none | a predicate per request | reads the configuration and the serve cache |
| ntfy, Mullvad, shell, web UI, site, tools | | none that other parts depend on | | |

The parts meet in few places. A drop upload goes through the registry (a use is
counted), then the quarantine (files are stored), then the history and the hub. The
watcher combines the daemon's inbox with the quarantine, broadcasts it, records it in
the history and starts auto-saves, which call the same functions as a save from the
page. The guard asks the serve cache on every request. MCP tools call the handlers'
functions. All of it shares the configuration.

What makes each part correct:

- **Drop links**: no upload beyond a link's budget, no upload after an acknowledged
  revocation, the file is the registry whenever nobody is between a change and its
  write, every upload is answered.
- **Quarantine**: an accepted upload is never lost, hidden, saved twice or overwritten,
  and a copy of it is whole.
- **History**: an open session has no end in the log and survives a restart; sessions
  are separate; what waits is not reported deleted; what is gone is closed.
- **Sync board**: what is listed can be downloaded, what is not listed takes no space,
  changes are atomic for readers and for a restart.
- **Configuration**: what a request was answered for stays in effect and is stored; the
  session token never changes. (The code keeps these with exceptions, see below.)
- **Serve**: other tools' changes survive, a finished write is seen by the guard, no
  call hangs with the mutex.
- **Sending**: a file the system handed over is in one place until its peers have it, the
  user cleared it or it cannot be opened; the history says what arrived; no request
  keeps a shared file for ever.
- **Listener**: the app keeps serving, in the end where LAN mode says.
- **Updater**: only newer releases are offered and installed; an install is told "not
  found" only if there was nothing.
- **Telemetry**: every event leaves once, none once it is switched off.

## The modules

Crashes, failing writes and other bounded events are counted in a variable and
limited by a constant (`MaxCrashes`, `MaxDiskErrs`, `Limits`): these are bounds of the
check, not of the code. Variables marked *history* in a declaration record what
happened for the sake of a property; no guard reads them. An operator that follows the
comment "Mutant" is not part of any specification: it is a plausible wrong version of
the definition after it, kept to show that the properties notice.

### `TokenBucket` and `RateLimiter`: `rateLimiter.allow`, `checkRate`
The operators of one bucket. A token is `Unit` sixtieths, so that a refill of
`RatePerMin` per minute is an integer per second, and the bucket stores its debt (what
is missing to a full bucket) so that the burst needs no separate variable. Go computes
in `float64`; the model is exact, with time in whole seconds. `RateLimiter` is one
bucket alone with a clock: `Allow` and `Refuse` are the two returns of `allow`.
`DropLinks` uses the same operators.

### `DropLinks`: the registry and the way of an upload
`links` is `m.links`, `disk` is `droplinks.json`, `lock` the per-token mutexes in
`uploadMu`, `buckets` the limiters. Each method that changes a link does so under
`m.mu` and then calls `persist`, which takes `m.mu` again, so each is two actions:
`Create`, `Revoke`, `SetAutoSaveDir` and then `Answer`; `Consume` and then `PersistUse`.
`Persist` writes all of `links` as it is then, or fails without a word, as the code
does. An upload runs `Arrive`, `Admit` (take the lock, `usable`), `CheckRate`,
`Consume`, `PersistUse`, `Parse`, `Store`, one action per critical section, and gives
the lock back in every action that ends it. `Crash` may happen in every state; it
loads `disk` and renews locks and buckets. A fresh token is one no link, file or
pending request uses: tokens are 128 random bits. Where the bytes go is the next module's business;
here an upload only lands or does not.

### `Quarantine`: where the bytes go
`files` maps a name to the link it came through (`m.files`), `disk` maps link and name
to what the file holds: whose upload, and whether it is whole. `target` is the save
folder. A single file is stored under `m.mu` from the choice of its name to its
registration (`BeginFile`, `CreateFile`, `Register`), a folder without (`BeginZip`
and the same two). Saves and deletes run without any lock: `LookUp`, `PickTarget`, `CreateTarget` (open the
source, create the target), `CopyOut`, `Unlink` or `UnlinkFails`, `Unregister`. The target
has its final name from the start, so a copy in `target` is `done` or not. `CopyFails` is an
error on the way, after which a half-written target is removed, `FragmentStays` one after
which it cannot be. `Crash` rebuilds `files` from the directories of the links that are known
after it (`links`; one whose write to `droplinks.json` failed may be forgotten), and what was
being copied then stays half made. `halves` are the names of such copies. Names are a base name and a number, as `uniqueName` and
`conflictFreeName` make them; the names in the daemon's inbox, which count for uniqueness
too, are the constant `DaemonNames`.
`raced` records that one of the two races the code does not exclude has begun: two saves or
deletes in flight for one name, or two uploads that got the same name. The properties that
these break are checked up to then.

### `History`: sessions
Each method of `history` runs under its mutex and ends with a write, so each is one
action, and the log on disk is the log in memory. What is interesting is who calls
them, and when: the watcher takes a snapshot of the inbox in `Poll` and records it
in `RecordPoll`, some steps later; a save or delete takes the file (`Take`) and then
records it (`Record`); the command line takes files without telling
(`TakenOutside`); a drop upload reports an empty inbox (`UploadDone`, `drops.go:490-491`).
`age` is the time since `lastSeen`, up to the grace period.

### `ServeConfig`: Serve and Funnel
`daemon` is the daemon's config; the value itself serves as its etag, as the daemon's
hash does. `cache` is the cached object, with an identity, since callers keep and edit
the very object the cache holds (`held`, `EditHeld`). A caller goes through `get` (from
the cache, or asking the daemon with the mutex held), builds the config to write
(`BuildOn`, from nothing; `BuildOff`; `Refuse`, if a proxy has the root; `BuildOffPanics`;
`Nameless`, if the daemon has not told the machine's name, `named`), asks for the etag and sends the
`Put`, and finally `Invalidate`s. `Foreign` is `tailscale serve` run by hand. The
config is abstracted to its root handler, whether the port is served, Funnel, and
whether other hosts have entries.

### `Config`: settings and the token
`mem` is the server's config, `conf` and `tmp` are the file and its temporary file,
which can be `Missing` or `Torn` (truncated and not yet written). A save is `Open`,
`Write`, `Rename`, each of which may be followed by anything, by a failure (`SaveFails`,
`RenameFails`) and by a crash; the file a descriptor belongs to is tracked through another
request's rename (`fd`). `HandleConfig`, `HandleMcpStatus` and `HandleMcpRotate` take a copy
in which everything they are about has changed, while in memory only what is not MCP's has;
`Hide` changes the shared map and saves the shared config, as it is at `Marshal`. `Finish`
answers, and a request about MCP then puts *both* of its settings from its copy into memory.

The program that starts (`Main`) saves too: `boot` counts its stages, `Load` (read the file),
`Mint` the install ID and the session token, `ApplyLate`, and two times `Flag` (`-save-dir`,
`-lan`), each with or without a save in between. Of a save that fails it only writes a line to
its log and runs on. A value is a number that grows with every change, one setting stands for
each way a setting is treated, and MCP has its two. A config that is there but cannot be read
at a start counts as missing when it is torn; a read that fails although the file is whole is
not modelled.

### `SyncBoard` and `Board`: the sync board
`SyncBoard` follows `sync.go` step by step: `Begin`, `FileStored`, `FileNotStored` are an
upload or an MCP post before it takes `st.mu`; `AddItem`, `RemoveItem` and `ClearBoard`
take it and change the list; `Unlink` removes one payload that fell off; `SaveList` writes
the list and lets go. `Reload` loads what was saved. `Board` says what this amounts to:
posts, removals and clears that each happen at once, in the list and in the stored list,
unless the disk refuses the latter. `SyncBoard` implements it, with `board` mapped to
`seen`, the list as its readers last saw it (the mutex hides the steps in between), and
`stored` to `sync.json`. `torn` collects the posts over which the process died between
an unlink and a save.

### `Inbox` and `Hub`: saving and showing the inbox
`Hub` is one page and its channel: `Broadcast` remembers the last inbox and offers the
event to the channel, where it is lost if there is no room; `Subscribe` (the channel starts
to fill), `Replay` (of the last inbox), `Read` and `Disconnect` are `handleEvents`. `Inbox` extends it with the files that wait at the daemon
or in the quarantine. The watcher is `Poll`, two broadcasts (`Announce` the inbox, `AnnounceStatus`), which the page
may read between, and one `Consider` for each file of its snapshot, with saves and deletes in between. A save is `Open` (the file, and a free
name for the copy), `Create`, `CopyAll`, `Delete`, then `Tell` and `Send`
(`broadcastInboxNow`: fetch, then broadcast); `Fail` is an error in any of them, with what
each of the two kinds leaves behind. An auto-save goes by its file's name, which is in `autosaving` meanwhile and
in `cool` for a minute after a failure. `raced` records that two jobs were on their way
for one waiting name, which nothing excludes: the second may then delete a file that it has
not copied.

### `Sending`: the share queue and every way to send
`shares` is `s.shares`. A request takes a shared file, the first with its ID (`TakeFirst` in
`TakeShare` and `OpenFails`), or
brings a file of its own (`HandleSend`, `QuickSend`, `SendFile`), then sends it to one peer
after another: `StartPush`, and `sendOne`'s select sees the result (`Pushed`,
`PushFailed`) or the end of the request's context (`Abandon`), whichever it looks at
first, also when both are there. A push that failed may have arrived all the same: the
daemon's answer was lost (`PushEnds`). A push nobody waits for is an orphan, and may still arrive
(`OrphanEnds`). After any error a shared file is put back (`GiveUp`), whole, to be sent to
all its peers again. The list of peers is what the request says, with a peer perhaps twice. What
the daemon delivered, what the history logged and what requests
were answered are counted apart, which is what the properties compare.

### `Listener`: where the app listens
`Toggle` is `handleConfig` with a changed LAN mode; once the config is saved, `Schedule` starts
the goroutine, and `ToggleUnsaved` is a save that fails. The goroutine sleeps, then reads the mode (`Wake`), then
gets `listenerMu` and closes the old listener (`CloseOld`); between the two another switch
or another rebind may come. `Bind`, or `BindFails` and `Restore` or `RestoreFails`.
`MainReturns` is `runApp` of the server build, whose `Serve` call ends with the first
listener. `excused` and `deaf` record the exceptions the properties make.

### `Telemetry`: events on their way
`UsageEvent` appends and may start a flush, `FlushTick` is the loop's, `Flush` takes a batch
under the mutex, `Post` sends it. Several flushes run at a time.

### `Updates`: is there a newer release?
`poll` is what the version poll found, `state` and `checked` what the desktop's updater
said, `found` what that updater (Wails', external) has resolved. `BeginCheck`, `Answer` or
`AnswerFails`, then `SetChecked` or `SetError` are `check` (its return and `markChecked` are
one step); an install goes on with `NotFound` or `Download`, `Swap` and `Restart` or
`RestartFails`. What the updater says also comes as an event, later, in any order
(`Notice`). `Shown` is `withPolledAvailability`, what the page is told.

### The proof modules
`DropLinksProofs`, `QuarantineProofs`, `HistoryProofs`, `ServeConfigProofs`,
`SyncBoardProofs`, `InboxProofs` and `ConfigProofs` each extend the module they are named
for. `PartsProofs` extends `MCParts` and has a section for each of the smaller parts; it
takes the settings from `ConfigProofs`. See [What is proved](#what-is-proved).

### `MCParts`
The modules that share no state with another are checked together: `MCParts` extends six of
them, whose names for that reason do not clash, and adds a variable `part` that says which
of them moves. A behaviour of `PartsSpec` is thus one of a single part, with the others
standing still in a first state, and every behaviour of a part (within its bounds) is
among them; an invariant or a step property of a part is checked on exactly the states and
steps a run of its own would reach. `SendingFair` is the only fairness, and asks nothing of
a behaviour in which nobody sends.

## The runs

`tlc -config <cfg> <module>`; each takes from a second to about two minutes.

| Run | Configuration | Bounds | What it shows |
|---|---|---|---|
| `drop_links` | `MCDropLinks.cfg` | 1 link, 2 uploads, 2 requests of the owner, single-use and unlimited links, one crash, one failing write | budget, revocation, serialization, durability, every upload is answered |
| `quarantine` | `MCQuarantine.cfg` | 2 uploads, through the same or different links, files and folders, 2 saves or deletes, one crash, one failing disk operation | no upload lost, hidden, saved twice or overwritten, but for the two races that `raced` names; what is saved is whole, but for a copy that a crash, or a failed removal after an error, left half made |
| `history` | `MCHistory.cfg` | 2 names, 2 arrivals, a log of 3, grace of 1 tick, 2 other events (restart, clear, send, upload) | sessions and log agree, across restarts and pruning, and an open session has no end in the log; vanished files are closed |
| `serve_config` | `MCServeConfig.cfg` | 2 calls of any kind, 1 change by another tool, 1 failing request | the cache does not fall behind a write, a write that lands is the one its toggle was asked for, every call ends |
| `sync_board` | `MCSyncBoard.cfg` | 4 posts on a board of 2, one crash, one failure each of unlink, save and write | implements `Board`; listed files are whole; nothing leaks |
| `inbox` | `MCInbox.cfg` | 2 files of one name, one auto-save at a time and one request, one trouble (failure, crash, switch of the setting or lost connection) or the request; a channel of 1 event; of two files that are alike only one order, and a link's own folder only with auto-save off and beside a file at the daemon | no file is lost or saved twice, none waits for ever, the page catches up if its channel has room for an announcement again and again |
| `parts` | `MCParts.cfg` | see below | the six smaller parts keep what they promise |
| `quarantine_names` | `MCQuarantineNames.cfg` | as `quarantine` | **violation**: two uploads under one name |
| `history_upload` | `MCHistoryUpload.cfg` | as `history` | **violation**: waiting files logged as deleted |
| `serve_clobber` | `MCServeConfigClobber.cfg` | as `serve_config` | **violation**: another tool's change overwritten |
| `config_legacy` | `MCConfigLegacy.cfg` | one request at a time, 3 in all, 2 crashes, no save fails, a config of an older version | **violation**: settings lost after an upgrade |
| `listener_exit` | `MCListenerExit.cfg` | as `parts` | **violation**: the first LAN switch ends the server build |

What `parts` checks, part by part:

| Part | Bounds | Properties |
|---|---|---|
| rate limiter | a cap of 7 per minute (a token takes no whole number of seconds), pauses of 8, 9 and 20 s, 40 s in all | `GrantsBounded`: grants over any stretch of time are at most a full bucket and the refill; `RetryIsExact`: `Retry-After` is neither too short nor too long |
| configuration | 2 settings requests, also at the same time, one failing save (of a request or of a start), one crash | `SettingsKept`: memory keeps what was answered (but for MCP's settings), and if no requests overlapped the file keeps it, MCP's too, and a restart changes nothing; `TokenStableUnlessRaced` |
| sending | one shared file, 2 sends, to one peer, to two, or to one named twice, 2 failures, one clear | `NoShareLost`, `SendsAccounted`, `EverySendEnds` |
| listener | both builds, both modes, 2 rebinds at a time, 3 switches, a failing save, 2 failing binds | `ListensAsAsked` |
| telemetry | 2 flushes at a time, a flush at 2 events, batches of at most 3, 5 events, 2 ticks, 2 switches | `EachEventOnce` |
| updates | 3 versions of which the middle one runs, a poll beside 2 checks or installs, one release that appears or is taken back, one failure | `OffersOnlyNewer`, `NotFoundUnlessRaced` |

Why the bounds are enough for what is asked. The races are between two requests, so
two actors of a kind suffice to have each of them in every order; a third actor only
repeats what the second does to the first. One link, since links share nothing but the
file, which is written as a whole, and the registry's names, where `quarantine` has
two. A board of 2 with 4 posts evicts twice, also after a removal made room. The
history's log of 3 events is pruned within the 2 arrivals and what follows them. One
crash suffices to reach every state a crash leaves; what a second adds is a crash
during recovery, and only `loadConfig` writes while recovering: `config_legacy` allows
for it, and the proofs about the settings allow any number. Two binds fail because only then neither address can be bound. A batch smaller than
the buffer leaves a rest behind, a second flush takes it. One peer more than one is what a
failure half way through needs. Every action of each specification is taken in the runs.

Deadlock is not checked where the bounds let the model stop (no event left, everyone
idle).

The properties leave out what is true by construction; each was seen to fail on a
wrong version of the definition it is about (the operators marked "Mutant").

## Fairness

`DropLinks!LiveSpec`: weak fairness of each upload's handler. A goroutine that is not
blocked runs. Taking the per-token lock is weakly fair too: with two uploads the lock
stays free once the other is done (Go's mutexes hand over to waiters after a
millisecond, so this holds with more). For `Parse` it is an assumption about the
sender: the server sets no read timeout (`main.go:68` sets only `ReadHeaderTimeout` and
`IdleTimeout`), so `EveryUploadAnswered` says that no return path of the *handler* keeps
the lock, not that a silent sender cannot.

`History!LiveSpec`: the watcher polls for as long as the process runs, a daemon that is
down answers in the end, and time passes.

`ServeConfig!LiveSpec`: each call goes on. A request to the daemon is answered or ends
with its context.

`Inbox!Fairness`: saves, the watcher and the page's connection go on, the browser
reconnects by itself, and the minute after a failed auto-save passes. The one failure
may be a poll; a daemon that never answers again is not covered.

`Sending!SendingFair`: a request that has something to do goes on, and the thirty minutes of
a request that sends a *shared* file end (`share.go` gives it a context of its own). The
daemon need not ever answer a push: `EverySendEnds` holds all the same, and only for
shared files, as the other senders wait for as long as their caller does.

The other modules have no liveness property and assume no fairness.

## What is proved

Every safety property of a passing run is a theorem, checked by TLAPS, for every value of the
constants its module's assumptions admit: any number of requests, links, posts, callers, any
limits, any number of crashes and failures. (`Board` needs none: it is the abstract
specification. The rate limiter inside `DropLinks` is proved about on its own.)

| Theorem | States | Checked on an instance by |
|---|---|---|
| `DropLinksProofs`: `TypeCorrect`, `Serialized`, `BudgetKept` | `Spec => []` of `TypeOK`, `UploadsSerialized`, `UseBudget` | `drop_links` |
| `LandedKept`, `UsesExact`, `WrittenBack` | `Spec => []` of `LandedWithinBudget`, `UsesAreUploads`, `WrittenWhenQuiet` | `drop_links` |
| `RevocationFinal` | `Spec => RevokedMeansGone` | `drop_links` |
| `QuarantineProofs`: `QuarantineTypes`, `UploadsKept`, `SavesWholeAndOnce` | `Spec => []` of `TypeOK`, `NoUploadLost`, `SavedWholeAndOnce` | `quarantine` |
| `NeverOverwritten` | `Spec => NothingOverwritten` | `quarantine` |
| `HistoryProofs`: `HistoryTypes`, `SessionsApart`, `SessionsSurvive` | `Spec => []` of `TypeOK`, `SessionsAreSeparate`, `SessionsSurviveRestart` | `history` |
| `InboxProofs`: `InboxTypes`, `SavedOnceAlways` | `Spec => []` of `TypeOK`, `SavedOnce` | `inbox` |
| `SyncBoardProofs`: `BoardTypes`, `Downloadable`, `NoLeaks` | `BoardSpec => []` of `BoardTypeOK`, `ListedHasPayload`, `NothingLeaks` | `sync_board` |
| `BoardImplemented` | `BoardSpec => ShownSpec`: the sync board implements `Board` | `sync_board` |
| `ServeConfigProofs`: `ServeTypes`, `CacheCovers` | `Spec => []` of `TypeOK`, `CacheCoversWrites` | `serve_config` |
| `WritesAsAsked` | `Spec => WritesWhatWasAsked` | `serve_config` |
| `ConfigProofs`: `SettingsTypes` | `ConfigSpec => []ConfigTypeOK` | `parts` (in `PartsTypeOK`) |
| `SettingsStay`, `TokenStays` | `~Legacy /\ ConfigSpec =>` `[]SettingsKept`, `TokenStableUnlessRaced` | `parts` |
| `PartsProofs`: `CapKept`, `RetryExact` | `LimiterSpec => []` of `GrantsBounded`, `RetryIsExact` | `parts` |
| `ListenerTypes`, `ListenerFollowsMode` | `ListenerSpec => []` of `ListenerTypeOK`, `ListensAsAsked` | `parts` |
| `UpdatesTypes`, `NeverOlder`, `NotFoundIsTrueUnlessRaced` | `UpdatesSpec => []` of `UpdatesTypeOK`, `OffersOnlyNewer`, `NotFoundUnlessRaced` | `parts` |
| `EventsOnce` | `TelemetrySpec => []EachEventOnce` | `parts` |
| `SharesKept`, `SendsAddUp` | `SendingSpec => []` of `NoShareLost`, `SendsAccounted` | `parts` |
| `PartsAreTheParts`, `PartsTypes` | `PartsSpec` implies the specification of every part, and `[]PartsTypeOK` | `parts` |

The assumptions are those the modules declare about their constants, each next to the
`CONSTANTS` it is about, and evaluated by the runs in the table: markers such as "nobody" or
"no file" are none of the real values, caps and versions are positive numbers, bounds are
numbers. A few say more: the names in the history and the tokens of links are finitely many
(`HistoryAssumption`, as a name has a greatest length; `QuarantineAssumption`), and so are the
requests that send at a time (`SendingAssumption`), and the callers of Serve (`ServeAssumption`).
`ConfigAssumption` says nothing of the age of a config; the two theorems that need
one with a session token say so themselves (`~Legacy`), and finding 4 is what happens
without. The bounds appear in the guards of the proved specifications, as arbitrary
numbers.

None of the properties is inductive as it stands. Why they hold:

**Drop links.** `Consume` counts without looking at the limit: what makes it right is that
`Admit` looked, and that nobody else could count in between. So the invariant is

    IInv == TypeOK /\ LockHeld /\ UseLeft /\ UseBudget

where `LockHeld` says that an upload between its admission and its answer holds its
link's lock (two uploads that both hold one are the same one: this is `UploadsSerialized`),
and `UseLeft` that from `Admit` to `Consume` the link the upload uses still has a use left,
or is gone, in memory. `UseBudget` speaks of the file too: `Persist` copies the registry,
`Crash` copies the file back, so both need the other's budget.
`RevocationFinal` needs another invariant, `RevocationKept`: a link whose revocation was
acknowledged is revoked in the registry, and, as long as every write went through, in the
file. It survives `Crash` because `Answer` had written the file before it acknowledged.
A token whose link was revoked is never reused, as its link stays in the registry.

`UsesAreUploads` compares the counter with what became of the uploads: those that were stored
or failed in their body, or are past `useOnce` (`Charged`), have cost a use each, those that
wait or were refused none, those cut off by a crash one or none. A crash takes the
counter back to what the file says, so a bound in terms of memory alone is not kept: the
file must count every upload that has read its body (`Past`), and memory also the one whose
use is about to be written (`Counted`); `useOnce` persists before the body is read for just
this reason. In the other direction no more is counted than uploads got so far or were cut
off (`Paying`). Only finitely many uploads have arrived at any time, so these sets are finite
whatever `Uploads` is. For `WrittenBack`, only a request on its way and an upload at
`persist` can hold a change the file lacks.

**Quarantine.** No bytes are overwritten because every file is created under a name that is
free at that moment, in the quarantine and in the save folder alike; this needs no invariant
but the types. All else follows a name, and holds unless two removers or two uploads met for one
(`raced`). While a remover is on its way the name stays registered (`Taken`), so nobody
creates a file of it; while a file is written its name is not (`Writing`), so no remover is on
its way to it. Hence a file is where its upload put it and alone of its name (`OwnPaths`,
`NamesApart`), and what a remover unlinks is what it saw (`Seen`), which a save had copied.
`Kept` and `Once` are then about one upload's bytes: here, or saved, or both while its save is
about to unlink them. A copy that is not done belongs to the one remover that makes it, or was
left behind by a crash or a failed removal (`Drafts`), raced or not, as every target is
created with `O_EXCL`.

**History.** That sessions are separate is not enough to survive a restart, which opens the
sessions the log leaves open, nor a cut, which takes the beginning of a session away. The
invariant speaks of the log's order: of two entries of a session the later is an end and the
earlier was no sending (`InOrder`), so an arrival comes first and what is open has no end
(`StillOpen`); IDs are given out once (`Given`), and two names never share an open session
(`Apart`), which matters when all of its entries were cut away. `Poll` may add and close
sessions of many names at once: the lemmas before it say what appending a block of arrivals
and a block of ends does.

**Inbox.** A save keeps no hold of the file it opened: it deletes what waits under the name
when the copy is done. `SaveCourse` says that this is the file it copied: the opened file is
the one that waits under the name from `Open` to `Delete`, as long as no two jobs are on their
way for one (`Alone`). `Writing` is `O_EXCL`: a copy under way belongs to one job and is not
whole. `Accounted` is the first half of the property; the second needs that a file with a
whole copy that still waits is about to be deleted by the job that made it (`Leaving`), so
that no one makes another. A crash and a failure break just this, and nothing else. That the page
catches up is liveness, and TLC's: the watcher's two broadcasts are two steps, so in a channel of
one event the daemon's status can take the place of the inbox poll after poll. The property
therefore asks that the inbox be about to be announced, and the channel have room for it, again
and again (`Room`).

**Rate limiter.** The bucket remembers a debt and a time, the property speaks of every
stretch of the past. `DebtCovers` bridges them: what was given since a grant is owed now, but
for the refill since. The cap never forgives more, as a bucket that was capped owes nothing.
`PromiseKept` says that a refusal stands, with the arithmetic of rounding up in `Rounds`.

**Sync board.** The properties speak of the list while whoever holds `st.mu` is half way
through. `Pending` says that the list is one post, one removal or a clear ahead of what its
readers see; `Unlinking` that what the holder has still to unlink is out of the one and in
the other (so nothing listed loses its payload); `StoredFirst` that a post that waits for
the mutex has its file. The lemmas on sequences say what appending, evicting and removing
do to a list without repetitions. The refinement then is: `SaveList` is the abstract change,
`Reload` the abstract restart, every other step a stutter.

**Serve.** A stale config gets into the cache only if it was fetched before a write and
stored after it. `get` and `set` keep the mutex while they wait for the daemon, and the
invalidation needs it: `OneAsks` and `NoneLate` say that only the mutex's holder has an
answer on its way, and none is late. For `WritesAsAsked` the objects matter: what a toggle turns on it
built itself, and nobody else has it (`Own`); what it turns off may be the cached object, which
others edit while it waits, but every such edit only turns something off, so what was made of it
(`Made`) stays so. Answers on their way are nobody else's yet (`Apart`), and equal identities are
equal objects (`Shared`). For the types, a caller holds at most two config objects and the cache
one more, so that there is always an identity for a new one.

**Listener.** With several rebinds under way the one that counts is the last to read the
mode. `Leads`: while one is asleep nothing is promised; once none is, the one that is awake
has the mode's host; once none is awake, the one that binds has it, or the listener.
`OneLocked` is `listenerMu`.

**Updates.** A version wanders from the feed through answers, events and jobs, each of which
may be overtaken. `OnItsWay` says that all of them are newer than the running release and
listed once, or nothing; `Arrived` is what the page and the restart get of it. `Undisturbed`:
an install that is alone finds, when it decides, what its own check was told.

**Telemetry.** An event is in the buffer, in the batch of one flush, or posted: `Numbered` says
that these together are the events recorded, `NoneTwice` that they have none in common, nor
any of them one twice. `Flush` cuts the buffer in two under the mutex; what that and `Post`
keep is a lemma about sequences without repetitions each.

**Sending.** A shared file is fresh, in the queue once, or with one request (`OnePlace`). What a
request has behind it in its list of peers was delivered (`Served`), which makes the answer
true. What was logged and what a request is about to read add up to what was delivered, but
for pushes nobody waits for, or whose answer was lost (`Tallied`). `Chances` bounds the
deliveries of a file to a peer: those made, those that may still come from pushes given up, and
those still ahead in a request's list are no more than the times requests named the two.

**Configuration.** Memory is simple: a copy is never ahead of it, as the values of a setting
only grow, and only MCP's settings are written back from a copy (`Ahead`). The file needs the
whole save: `Alone` says that who saves with nobody else on the way finds its own copy in the
temporary file when it renames it (the file was emptied before it wrote), and that what it
saves is memory but for the settings of MCP it is about to put there (`AloneSaves`). `Keeps` is
about the file: it has every setting that was answered for, and a token it has is the
program's; and while it has none, it never held a setting anybody was answered for. This is why
the saves of a start, in which the late settings are still missing, take nothing back, and why
a start whose saves failed is harmless, but for the next one minting another token. With two
overlapping requests none of this holds, which is why the properties say "unless raced".

Checked only by TLC: liveness (`EveryUploadAnswered`, `VanishedIsClosed`,
`EveryCallReturns`, `EveryFileIsSaved`, `PageCatchesUp`, `EverySendEnds`), because the prover
handles neither fairness nor `ENABLED`. No run's safety property is without a theorem.

## What the code does not keep

Five runs show that the code does something else than a comment or the documentation says;
`PROJECT.json` lists them as findings, with the lines. In short:

1. A folder upload chooses its name under the mutex, writes the zip without it, and
   registers the name at the end (`drops.go:520-580`). An upload through another link can
   take the name meanwhile; the second registration hides the first file until a
   restart, which again lists only one of the two.
2. `handleDropUpload` gives the history an empty list (`drops.go:490-491`). The grace
   period hides this, except right after a restart, when nothing was seen yet: every
   waiting file is then logged as deleted.
3. The etag that protects a Serve change is fetched when the config to write has already
   been built (`serving.go:164-176`), so a change in between is overwritten.
4. `loadConfig` saves a freshly minted token before it has copied all settings
   (`main.go:213-236`); the settings of an older version's config are lost on disk and,
   at the next start, in effect.
5. The server build's main goroutine waits for the `Serve` call of the listener it began
   with (`shell_server.go:51-63`), and a LAN switch closes that listener
   (`server.go:298`): the process ends with it.

Further statements that do not hold are kept at the end of their modules, under "What the
source says and the code does not keep", each with the line it comes from. No run checks
them; to see the counterexample, replace the properties in the module's `.cfg` by the one in
question: `CapPerMinute` (`RateLimiter`; a full bucket and its refill make up to twice the
rate within a minute), `SaveUnlinksItsCopy` (`Quarantine`; a save unlinks a path whose file
was replaced since it was copied), `ArrivalsWait` (`History`; the watcher's old snapshot
reopens a saved file's session), `OtherRootSurvives` and `TogglesDoNotPanic` (`ServeConfig`; a
proxy that came after the config was read is overwritten, and turning something off writes into
a map that is not there), `AnsweredIsStored`, `McpSettingsKept`, `TokenStable` and
`ShortcutSurvives` (`Config`; of two overlapping requests the older copy may be saved last; of
two about MCP the one that ends later puts both settings back as it found them; a token whose
save failed is minted again; the shortcut is not loaded), `OffMeansOff` (`Telemetry`; what was buffered when it was
switched off is still posted), `NotFoundIsTrue` and `FailureIsNoAnswer` (`Updates`; an
overlapping check or event makes an install say there is nothing, and a check that failed
hides what the poll found).

Where a property makes an exception, the code does what the exception says: a LAN switch
whose config cannot be saved has changed the mode but moves nothing, and asking for the
same mode again changes nothing (`excused` in `Listener`); a shared file that cannot be
opened is gone from the queue, and one whose send fails is put back into a queue the user
has cleared meanwhile (`gone` in `Sending`); a post whose payload was unlinked when the
process died is listed again (`torn` in `SyncBoard`); and a copy in the save folder, which has
its final name from the start, stays there half made when the process dies in it or its removal
fails (`halves` in `Quarantine`).

## Not modelled, and the plan

Order of the modules, most important first; those with a mark are written.

1. [x] `TokenBucket`, `RateLimiter`, `DropLinks`, `DropLinksProofs`
2. [x] `Quarantine`
3. [x] `History`
4. [x] `ServeConfig`
5. [x] `Config`
6. [x] `Board`, `SyncBoard`
7. [x] `Hub`, `Inbox`
8. [x] `Sending`, `Listener`, `Telemetry`, `Updates`, `MCParts`
9. [x] `SyncBoardProofs`, `ServeConfigProofs`, `ConfigProofs`
10. [x] `QuarantineProofs`, `HistoryProofs`, `InboxProofs`, `PartsProofs`
11. [ ] What an upload, a waiting file and a shared file go through, as abstract specifications
   (kept, then saved or deleted, in one step each), and that `Quarantine`, `Inbox` and
   `Sending` implement them as long as nothing raced.
12. [ ] Pure algorithms against reference definitions: `sanitizeZipPath`,
   `normalizeDomains`, `semverCompare`, the hidden-device filter. They keep no state; the
   models abstract from the strings they work on. (`uniqueName` and `conflictFreeName` are
   part of `Quarantine` and `Inbox`.)

Partly modelled: of the configuration, the validation of single values and the move of
the data directory are left out, and one field stands for those that are handled alike; of
the MCP endpoint, the tools that change something are in the modules of what they change,
and the JSON-RPC framing, which has no state, is left out.

Left out: the access guard (a predicate over one request), notifications over ntfy (one
POST each, nothing depends on them), Mullvad (the daemon's preferences), the desktop shell
and the web pages (GUI code over the same operations), QR codes, start-up detection, and
build, packaging and site scripts. What else is left out of the covered parts: the Go
runtime's own reaction to a data race (`server.go:768` marshals a map another request may
be changing, which ends the process), failing writes of the history log, tsnet's second
listener, and a port that changes (no request changes it).

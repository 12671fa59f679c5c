# df-web: TLA+ models, checks and proofs

df-web serves Dwarf Fortress to several players over the web.  A session
manager written in Go (`session-manager/`) runs one container per player, and
around that keeps accounts, passkeys, saves, tilesets, journals and a timeline
of game events.  This directory holds TLA+ modules of that program, the TLC
configurations that check them on small instances, and proofs of the most
important theorems for instances of any size.

References such as `manager.go:265` are to files under `session-manager/`
unless another directory is given.

## 1. Inventory

| Part | State | Operations | Hard behaviour | Correct when | Module |
|---|---|---|---|---|---|
| Session lifecycle (`manager.go`) | `m.containers` (uid → container, `stopping`, `lastSeen`), `m.mu` | `ensureContainer`, `handleSessionStop`, `handleLogout`, `handleAccountExport`, keepalive, `idleReaper`, `reconcile` | `m.mu` held over `docker run` but dropped over the 15 s of `docker stop`; entries read before and used after; restarts with an empty map | one container per user, none unnoticed, cap holds, a flag never sticks, idle sessions end | `SessionManager`, `SessionLease`, `SessionClaims` |
| Runtime driver (`docker.go`) | the runtime's containers | run, stop, rm, inspect, ps | every command can fail; a failed inspect reads as "not running" | names never clash | `Docker` |
| Admin API (`admin.go`) | – (acts on store, disk, sessions) | create, delete, rotate token | delete is five steps, each of which may fail or overlap with another delete | users in the store have directories; nothing removed under a game; a replaced token is dead | `SessionManager`, `UserStore` |
| User store (`users.go`) | tables users and passkeys: rows, token hashes, sign counts | import of users.yml, CRUD, `UpdatePasskeys`, `UpdatePasskeySignCount` | a SELECT and then a transaction or an UPDATE | passkeys have a user; nothing enrolled is lost; an admin remains; sign counts advance | `UserStore` |
| Passkeys (`auth_passkey.go`, `passkey_session.go`) | ceremonies in memory | begin and finish, register and login | the answer arrives twice, out of order, or for an account that is gone | a challenge is answered once | `UserStore` |
| Token and OIDC login (`auth_token.go`, `auth_oidc.go`, `session.go`) | – (a signed cookie) | log in | a token replaced between lookup and session | a dead token opens nothing | `UserStore` (tokens) |
| Timeline (`gamelog.go`) | ring, subscribers with channels and drop counters, `sl.mu`, `sl.done`; the tailer's offset and buffer | tail, append, subscribe, stream, stop | slow readers, replay under the lock, a file reset between two polls | lines whole and in order, up to the client; losses counted and told; streams end | `GamelogTailer`, `SessionLog`, `Timeline`, (life of a log) `SessionManager` |
| Save import (`saves_import.go`) | save directory, staging directories | gate, upload, unpack, find the saves, install | archives of any shape against a budget; two imports at once, a failure half way, a crash | unpacked as packed, own regions untouched, answers true | `ArchiveUnpack`, `SaveImport`, (gate) `SessionManager` |
| Export and snapshot (`manager.go:325-509`) | – (reads the disk) | stop and stream; sign, stream, sign | the game writes, creates, removes and renames during the walk | what the trailer says is so | `Snapshot`, (stop) `SessionManager` |
| Tilesets (`tilesets.go`, `df-image-sdl/apply-tilesets.sh`) | directory of PNGs, selected name, the player's `init.txt` | upload, set, clear, delete; copy at container start | no lock; the selection is used a session later | selection and font exist, the limit, no leaked temporary files | `Tilesets` |
| Journal (`journal.go`) and its editor in the play page (`web/play-sdl.html:340-453`) | one file per save, temporary files; in the page the selected save, the text, a dirty flag, a timer | list, read, replace; select, type, autosave | fetches that overtake each other and are applied to whatever the page shows by then | no text in another save's journal, nothing lost unnoticed | `Journal` |
| Therapist page (`web/therapist.html`) and DFHack bridge (`dfhack_proxy.go`, `web-commit.lua`) | the units loaded, a queue of edits; scripts that run in the container | queue, clear, commit, reload; exec with a time limit | edits queued during a commit, scripts that outlive their request | what was chosen last is queued or in the game; a page at rest is true | `Therapist` |
| Rest of the play page, account, admin and index pages | timers | poll, keepalive, forms | – | – | not modelled |
| Reverse proxy, configuration, installation scripts | none worth a model | | | | not modelled |

How they interact: the HTTP routes call the session lifecycle, which calls the
runtime driver and opens or closes session logs; a session log owns one tailer
goroutine, which reads a file the container writes; the admin API acts on the
store, on the disk and on the lifecycle; the lifecycle reads the selected
tileset from the store when it starts a container; the container copies
tilesets and truncates the game log when it starts; the play page reads and
writes journals over HTTP, and the therapist page runs scripts in the player's
container through the bridge.

Every hazard of the code that a test would hardly reach is listed, at its
line, under `hazards` in `PROJECT.json`, with the properties that cover it.

## 2. Modules

**`Docker`** – the container runtime as `docker.go` drives it.  Containers have
a unique id and a name that is reserved until the container is removed.
`Faults` lists the commands that may fail although the model gives no reason:
those of docker, and, for `SessionManager`, the making and removal of
directories (`dirs`), the statements that change the store (`store`) and the
lookups of a restart (`lookup`).

**`SessionManager`** – `m.containers`, `m.mu`, the set of uids with a session
log, the users in the store and their directories; every handler that changes
them, the reaper and the reconciliation at startup.  A handler is a process
with a program counter `pc` and a `job` (request, uid, the container id it
read).  One step is one critical section of `m.mu`, one docker command, or one
write to the store or disk.  Only `ensureContainer` keeps the mutex over docker
commands, so `mu` records who does; other critical sections are atomic and
need `Unlocked`.

| Code | Actions |
|---|---|
| `requireAuth` | `Begin` |
| `ensureContainer` | `EnsureRefuses`, `EnsureReuses`, `EnsureMisses`, `SpawnMakesDirs`, `SpawnFreesName`, `SpawnRuns`, `SpawnFails`, `SpawnInserts` |
| `handleSessionStop`, `handleLogout`, stop part of export and delete | `Flag`, `CheckStale`, `DockerStop`, `DockerRemove`, `StopSessionLog`, `Forget`, `ForgetFailed`, `Unflag` |
| `handleAccountExport` | the same, then `StreamEnds` |
| `adminDeleteUser` | the same, then `DropUser`, `RemoveDirs` |
| `adminCreateUser` | `CreateMakesDirs`, `CreateInsertsUser` |
| `handleAccountImport` (gate) | `ImportGate`, `ImportCheck`, `ImportUpload`, `ImportInstalls` |
| `handleTimeline` (opening) | `TimelineCheck`, `TimelineOpensLog` |
| keepalive, time | `Keepalive`, `BecomesIdle` |
| `idleReaper` | `ReaperScans`, `ReaperTakes`, then the stop steps |
| `main`, `reconcile` | `Restart` |

`Restart` is `main` up to the listener: `users.yml` (`Legacy`) is imported into
an empty table or is not, directories are made for the users that `store.All`
finds, `reconcile` adopts the running containers of the users it can look up,
and the exited ones are removed.  None of its errors stops the start.

Left out: rendering and proxying (they change nothing), the exact idle time (a
session becomes idle at any moment), and the order of the map's iteration.

**`SessionLease`** – the abstract specification: each user has at most one
session, off, on or ending; a game runs only inside a session; at most `Cap`
are open; a session closes only once its game is down.  `SessionManager`
implements it under the mapping at its end (`Phase`): a session is on from the
`docker run` that starts its game, ending while flagged, and off once the entry
is gone.

**`SessionClaims`** – a statement of a comment that the code does not keep.

**`GamelogTailer`** – `startGamelogTailer` against the container that writes
the file.  A line is a sequence of pieces; a poll is `Stat` and `Read`, two
system calls between which the game goes on, and then one `EmitLine` for each
complete line of the buffer, since `sl.append` may have to wait for `sl.mu`
while the game writes on.  The constants of the code (4096 and 65536 bytes) are
`ReadSize` and `BufCap`.

**`SessionLog`** – `newSessionLog`, `append`, `subscribe`, `unsubscribe`,
`takeDrops`, `stop` and the loop of `handleTimeline`.  `subscribe` replays
event by event under `sl.mu`, since each send could block.  `before`, `got` and
`told` are history variables.

**`Timeline`** – the two together, as `getOrCreateSessionLog` starts them: the
tailer's `EmitLine` and the log's `AppendEvent` are one step (`AppendLine`),
which waits while a `subscribe` holds `sl.mu`; every other step is one module's
alone.  The n-th event is the n-th line handed over, so that what a client was
sent can be read as lines of the file (`ClientsGetLines`).

**`ArchiveUnpack`** – a module of operators: the unpacking of an archive entry
by entry (`Extract`; `After` is the recursive function of what is there after
the first entries) with the rest of the budget, the clashes between files and
directories, and `findSaveRoot` (`Find`, a recursive function of the depth).
Beside it stands what the result should be, said without going through the
entries (`ReadRightly`).

**`SaveImport`** – `handleAccountImport` after the gate: concurrent requests
in one save directory, one file operation per step, rollback, deferred
cleanup, a crash of the manager.  The save directory has a slot per region
number and one per name that an archive may bring and keep.  A `RemoveAll`
takes a save away bit by bit and may stop there (`Removes`), which leaves one
that is not `whole`.  What an archive
holds comes from `ArchiveUnpack`, whose work is one step, since nobody else
looks into the staging directory of a request.

**`Tilesets`** – the handlers of `tilesets.go` without a lock, one system call
or store call per step, the start of a container (`Spawn`) and
`apply-tilesets.sh`, which copies only names that end in `.png` (`Lower`) and
goes on when `cp` or `sed` fails.  `init` stands for any one of the four tokens
of `init.txt`.  `deleted`, `stray`, `unchecked` and `calm` are history: what
was deleted, which temporary files a crash or a failing removal left, how many
uploads were let pass uncounted, and whether a tileset was selected and deleted
at the same time.

**`UserStore`** – rows with roles and tokens, passkeys with sign counts, the
ceremonies in memory; admin requests, the two halves of an enrolment, the two
halves of a passkey login and token logins, one statement or transaction per
step (the database has one connection); the import of `users.yml` whenever the
table is empty at startup.  A credential is named by the number of the
challenge it answers.  `Sign` is the authenticator, which counts its
signatures; its answers may arrive in any order and more than once.  `PRAGMA
foreign_keys` is on in `openDB`, hence `ReferenceHolds`.  `enrolled`,
`retired`, `answered`, `fresh` and `calm` are history.

**`Journal`** – the editor of the play page, its fetches and the handlers of
`journal.go` in one module, for the hazards are between them.  A fetch is sent,
handled step by step (temporary file, write, rename) and answered; what it
answers is applied to the page of that moment.  A fetch that throws is no more
`awaited`, but the handler of a PUT goes on and may still replace the file: it
never looks at the request's context.  A text is a set of passages, so that the
module can tell where each belongs (`home`).  `mishaps` and `hasty` are history:
which acts of the user did not wait, and whether a text was sent while such an
abandoned handler was at work.  The timer is never held back.

**`Therapist`** – the queue of nicknames and professions, the requests with the
scripts they run, and the game.  A script has its own life: it may run before
the handler answers, after it, or after the page has given up (`runs`, `over`).
The listing may carry errors and fewer units, which the page takes for all there
are.  A unit is `gone` when the scripts do not find it, for good or until its
fortress is loaded again; the commit reports it, and the page only counts it.
`wish`, `unsure`, `missed` and `heard` are history: what the user chose last for
each field, whether it was chosen on a page out of date, whose edit found no
unit, and whether something failed, changed or overlapped.

**`Snapshot`** – the two signatures and the walk of `data/` and `config/` in
`streamUserTarball`, file by file (header, then copy), beside a game that
changes files.  Each change has a time of its own, and a signature is the set
of the times, where the code has their sum, with the sum of the sizes: sums of
nanoseconds tell sets of times apart but for odd accidents.  The signature is
taken in one step: for each file it sees what it would have seen just before or
just after a change, and the walk between the two signatures is where the time
goes.  Calls may also fail for files that are there (`Faults`): a signature then
skips the file, the walk ends its directory, and a copy that fails half way
leaves the tar writer stuck.  `failed` and `blind` are history: where the walk
failed, and whether a signature missed a file.

`MC*` modules add symmetry sets and constant values for TLC and nothing else.
Definitions marked *Mistake* are not part of the models: each is a plausible
bug that, put in place of the definition it stands beside, breaks a property.

## 3. Runs

| Run | Instance | Shows |
|---|---|---|
| `sessions` | 2 users, 3 containers, 2 handlers and the reaper, cap 1, 1 restart; play, stop, import, create; run, the store and directories may fail | `RunNeverConflicts`, `NoOrphans`, `CapHolds`, `ImplementsLease` |
| `faults` | 1 user, 2 containers, 2 handlers and the reaper, 1 restart; all routes but create; run, stop, rm, ps, the store, its lookups and directories may fail | `EndingHasOwner`, `UsersKeepTheirDirs`, `TeardownSeesGameStopped` |
| `liveness` | 1 user, 2 containers, 2 handlers and the reaper; play and delete; stop and directories may fail | `EndingResolves`, `IdleIsReaped`, `RequestsAnswered` |
| `tail` | lines of 1, 3 and 4 pieces, reads of 2, buffer of 4, 4 lines, 2 resets | `LinesWholeInOrder`, `LinesArrive` |
| `timeline` | 2 clients of 2 connections, ring 3, replay 2, channel 2, 4 events | `EventsCounted`, `EventsInOrder`, `LockIsReleased`, `DropsAreTold`, `StreamsEnd` |
| `imports` | 2 imports, archives of up to 4 of 12 kinds of entries, budget of 3 bytes, 2 levels, 3 regions, any of them taken, all faults, 1 crash | `UploadsReadRightly`, `PlayerRegionsKept`, `SourcesStayStaged`, `InstalledAreOwned`, `AnswerIsTrue` |
| `tilesets` | 3 names, one of them in capitals, 2 requests at a time, 4 in all, limit 1, all faults, 1 crash | `ExcessBounded`, `TempsAreInUse`, `ActiveExists`, `FontPresent` |
| `passkeys` | 2 admins, one with a passkey, 2 requests of any kind at a time, 4 in all, 2 challenges, faults, 1 restart | `PasskeysHaveUser`, `EnrolledKept`, `AdminRemains`, `AnsweredOnce`, `RetiredTokensStayDead`, `SignCountsAdvance` |
| `snapshot` | 2 files in data/, 1 in config/, 2 sizes, 2 changes of any kind, all faults | `TrueIsFaithful`, `QuietIsFaithful` |
| `journal` | 2 saves, 2 fetches or handlers at a time, 1 passage typed beside what the journals had, 1 hasty act, all faults | `NoMixing`, `PassagesAreKept`, `StoredAsSent`, `TypedIsStored` |
| `therapist` | 1 field, 2 values, 3 requests or scripts at a time, all faults | `EditsAreKept`, `ShownIsTrue` |
| `claim_delete` | 1 user, play and delete | the finding of section 5 |

No run checks the modules' `TypeOK`: it is proved (section 4), in `Snapshot` as
the conjunct `Typed` of the invariant, in `GamelogTailer` as `TailTyped`.

`Timeline` has no run of its own.  Its property `ClientsGetLines` is proved for
all values of the constants (`StreamsCarryLines`), and while the module was
written TLC found it to hold with 2 clients, ring 2, replay 1, channel 1, 2
lines of 1 or 3 pieces and 1 reset (420,326 states), and to break once the
tailer keeps its buffer over a reset, forgets to seek, or keeps the newline of
a line handed over.

Why the bounds are enough to be interesting. Two handlers and the reaper are the
three stoppers that can hold the same stale entry, and a handler that is still
stopping an old container while another opens the next one needs two container
ids. The cap of one makes two users compete; three ids let each have one and one
be replaced. One restart suffices, since `Restart` keeps nothing but the disk,
the store and the containers. In `tail` a line of 4 pieces overruns the buffer,
one of 3 needs two polls, and two resets catch a reset during the recovery from
another. In `timeline` 4 events exceed channel, ring and replay. In `imports`
three regions that may be taken in any pattern leave gaps before, between and
after them, and four entries make up to three saves of either kind, a file in
the way of a directory, a name that comes twice, a nested save, and every way to
reach the budget exactly, to pass it, and to meet an empty file there. In
`tilesets` limit 1 with two concurrent uploads shows an excess, and two requests
more that others do not add to it, or a selection, its game and a delete. In
`passkeys` two challenges let an old ceremony meet a new one and two assertions
of one passkey overtake each other, and four requests are enough to rotate, log
in and delete across the import. In `snapshot` two changes can balance each
other in both sums, one before and one after the files concerned are visited,
and two files in `data/` leave one to be lost behind a failing one. In `journal`
two fetches can overtake each other, and an abandoned handler and a later save
are two; what a journal had at the start is a passage as much as what is typed,
so that one typed passage makes two texts of one save and three in all; the one
hasty act lets the properties be checked after it where they still promise
something. In `therapist` the fields do not interact but by the requests that
carry them, so that one field does; of the three requests one can be a script
that outlived its own while a commit and a load run. Nothing else bounds it: any
number of edits, commits and loads follow each other.

Bounds in the guards: `Ids` (containers ever run; a `docker run` past it
fails), `MaxRestarts`, `MaxLines`, `MaxResets`, `MaxAppends`, `MaxConnects`,
`MaxCrashes`, `MaxServed`, `MaxChallenges`, `MaxChanges`, `MaxEdits`,
`MaxHasty`.  `CHECK_DEADLOCK` is
off where a bounded instance or a finished request really stops; `sessions` and
`faults` never stop and check it.  Symmetry is used only in runs without liveness.

Assumptions under which a property is checked are part of its statement or of
the configuration:

- `NoOrphans`, `CapHolds` and `ImplementsLease` are for a `docker stop` and a
  `docker inspect` that fail only when the container is gone, and for restarts
  that adopt what runs: `docker ps` and the lookups of the users work and nobody
  is deleted.  Where there is no restart, deletes, a failing `docker ps` and
  failing lookups do no harm either.  A failing `docker stop`, a failing
  `docker ps` or lookup at a restart, and a restart after a delete beside a page
  load, do break them (section 6), so `stop`, `list`, `lookup` and `inspect` are
  no faults of the run `sessions`.  `RunNeverConflicts` is for a `docker rm -f`
  that works, which is why `rm` is none either.
- `TeardownSeesGameStopped` is for a `docker inspect` that tells the truth:
  any failure of it reads as "not running", and a delete then goes on without a
  stop (`docker.go:182-190`).  So `inspect` is no fault of the run `faults`.
- `TeardownSeesGameStopped` speaks of the container that the request found; a
  game started later is not covered (section 6).
- `UsersKeepTheirDirs` is without creations (section 6), and of the steps that
  take directories: a user whom `users.yml` brings back while `ensureUserDirs`
  fails has none to begin with.
- `IdleIsReaped` is for the time after the last delete of the user: a delete
  whose stop fails takes the flag back, and nothing in the code keeps that from
  happening between any two ticks of the reaper.
- `LinesArrive` and `LinesWholeInOrder` have `SlowGame = TRUE`: after a reset
  the game does not write past the tailer's old position before the next poll.
- `EnrolledKept`, `AdminRemains`, `AnsweredOnce` and `SignCountsAdvance` are
  for behaviours in which requests of the kinds concerned do not overlap
  (`calm`), for the last one neither two logins nor a login and an enrolment;
  everything else, including other kinds of requests, crashes and failing
  statements, may happen.
- `ActiveExists` is for behaviours in which no tileset is selected and deleted
  at the same time, the store works and the manager does not crash (`calm`);
  any other requests may overlap.  `FontPresent` is for fonts that were not
  deleted since, whose names end in `.png`, and for a copying that works.
  `ExcessBounded` counts the uploads whose target or directory could not be
  looked at, `TempsAreInUse` the files whose removal failed.
- `TrueIsFaithful` is for changes whose kinds the sums tell and for calls that
  do not fail for files that are there; what `QuietIsFaithful` lets be missing
  comes after such a failure.
- `RetiredTokensStayDead` holds until `users.yml` is imported a second time.
- `AnswerIsTrue` is for an import that no other one overlaps.
- `NoMixing` is for a user who neither types nor saves before the text of the
  save chosen last is there, nor chooses another save while a text is loading or
  unsaved (`mishaps`): after that the timer mixes them on its own.
  `PassagesAreKept` and `TypedIsStored` are for a user who also waits for what
  is loading and for a save to finish (`hasty`), `PassagesAreKept` besides for
  texts that are not sent while the handler of one whose fetch threw still works.
- `EditsAreKept` is for edits that are queued when no commit is under way and
  the page is up to date (`unsure`), and whose units the script finds
  (`missed`); `ShownIsTrue` for a page that heard of everything (`heard`).

### Fairness

`SessionManager`: strong fairness of each process's own steps. The code gives
every HTTP handler a goroutine of its own, docker commands return, and Go's
mutex hands over to starving waiters, so a process that can again and again go
on does. The reaper's scan has weak fairness only: its ticker fires every two
minutes, and an entry that is idle and unflagged now and then may be flagged by
somebody else at each tick. Steps that wait for the client (`StreamEnds`,
`ImportUpload`) are not fair, nor are requests, exits of games, restarts or
idleness.

`GamelogTailer`: weak fairness of `Open`, `Stat`, `Read`, `EmitLine` (timers
fire, system calls return, `sl.mu` is let go).  The container owes nothing.

`SessionLog`: weak fairness of the replay and of the select's keepalive ticker,
strong fairness of waiting for `sl.mu` and of the `done` case, since Go's
select picks among ready cases at random.  Nobody must append, close, connect
or disconnect, and no fairness is assumed of a client that reads.

`Journal`: weak fairness of the timer, of each handler and of the arrival of
each answer: browsers fire timers, system calls return, and a fetch is answered
or throws.  The user owes nothing.  `TypedIsStored` needs no fairness of a
failing step, since it speaks of behaviours without failures.

## 4. Proofs

Checked by TLAPS, for all values of the constants that satisfy the named
assumptions of the modules.

| Theorem | Extra assumption | Inductive invariant |
|---|---|---|
| `TypeCorrect` | – | `Typed` = `TypeOK` and what each process works on (`JobOK`) |
| `FlagIsResolved` (`EndingHasOwner`) | – | `Typed`, itself |
| `DirectoriesKept` (`UsersKeepTheirDirs`) | no creations | `DirsInv`: who removes directories has seen the user gone, and so no step takes those of a user who stays |
| `TeardownSafe` (`TeardownSeesGameStopped`) | inspect tells the truth | `KnownInv` (ids in use were run), `DownInv` (past a successful stop the container is down, and stays so) |
| `NamesAreFree` (`RunNeverConflicts`) | – | `LockInv`: whoever spawns holds `m.mu`, and its user has no entry |
| `NoGameUnnoticed` (`NoOrphans`) | `StopsAreSure`, `RestartsAdopt` | `KnownInv`, `LockInv`, `NamesInv` (one existing container per name), `GamesInv` |
| `CapRespected` (`CapHolds`) | the same, finitely many users | the above and `CapInv`: at most `MaxSessions` users are in the map or spawning |
| `LeaseImplemented` (`ImplementsLease`) | the same, finitely many users | the above; each action is a step of `SessionLease` or none |
| `LinesComeWhole` (`LinesWholeInOrder`) | `SlowGame` | `TailInv`: file and buffer are runs of lines (`Formed`), the buffer is what stands in the file before the offset (`Linked`), and what was handed over comes before all that is to come (`Ahead`) |
| `LogTypeCorrect` | – | `Typed`, `Placed`, `ReplayCounted`, `EventsCounted` |
| `NothingLostSilently` (`EventsCounted`) | – | the same |
| `ReplayThenLive` (`EventsInOrder`) | – | the same and `InOrder`: the ring ends with the newest event, what a replaying client was sent and is to be sent is one run up to it, and what a subscriber has and will get increases |
| `StreamsCarryLines` (`Timeline`'s `ClientsGetLines`) | `SlowGame` | those of the two modules and `OnePerLine`: as many events as lines were handed over, and no client was sent one that was not |
| `ImportTypeCorrect` | – | `TypeOK`, `PlayerRegionsKept`, `TargetsNotMine` |
| `PlayerRegionsSafe` (`PlayerRegionsKept`) | – | the same |
| `SourcesAreSafe` (`SourcesStayStaged`) | – | `StagedInv`: while a save is handed over, the ones after it are still staged |
| `InstalledOrUnderWay` (`InstalledAreOwned`) | – | itself and `StuckInv`: a request that is stuck has ended |
| `ArchivesReadRightly` (`UploadsReadRightly`) | – | no state; along the entries of an archive `Reads`, along the depth of the search `FindsFirst` |
| `SuccessIsTrue` (`AnswerIsTrue`) | – | `AloneInv`: while one import has run alone, each save it installed is in its slot and handed over (`Placed`), and the next one goes elsewhere (`Aside`) |
| `TrailerIsTrue` (`TrueIsFaithful`) | – | `Aged` (no two files of one time, none from the future), `Told` (writes and creations leave a time that is new on the disk, writes and removals take one away), as long as no signature was `blind` |
| `QuietArchiveIsComplete` (`QuietIsFaithful`) | – | the above and `Quiet`: while nothing has changed, all that is `Behind` the walk is archived as it is or was lost to a call that failed (`Right`) |
| `JournalTypeCorrect` | – | `TypeOK` |
| `JournalsAreApart` (`NoMixing`) | – | `Sorted`: the text shown, those in flight and those in files are each of their save |
| `PutsStoreTheirText` (`StoredAsSent`) | – | `PutsAreWhole`: a written temporary file has the text of its own PUT |
| `NothingIsLost` (`PassagesAreKept`) | – | `KeptInv`: each passage is stored or unsaved on the page, whatever replaces a file has all that is in it, and one PUT, abandoned or not, and one GET at most are under way |
| `TilesetsTypeCorrect` | – | `TypeOK`, `Named` (a request under way has its file's name) |
| `UploadsAreBounded` (`ExcessBounded`) | – (`RequestsAssumption`: finitely many) | `CoverBounded`: files there and files to come from uploads that passed the check, together |
| `NoTempLeaks` (`TempsAreInUse`) | – | `TempsInv` (itself) and `TempsAreOwn`: a file in progress is none of the stray ones, and the next number is new |
| `SelectionIsThere` (`ActiveExists`) | – | itself and `CalmInv`: while calm, no tileset is being selected and deleted, and what is to be selected is there (`Apart`) |
| `FontIsThere` (`FontPresent`) | – | `Remembered`: whatever was selected, asked for or written is there or was deleted |
| `TherapistTypeCorrect` | – | `TypeOK` |
| `NoEditIsLost` (`EditsAreKept`) | – | itself, `Flow` (which requests may still run a script) and `Kept`: the queue and the commits on their way carry what was chosen last, and once one arrives the game has all of it but what was `missed` |
| `PageShowsGame` (`ShownIsTrue`) | – | `Truth`: page and game agree, or a load is to come that will see the game |
| `StoreTypeCorrect` | – | `Typed` = `TypeOK` and what each label says of the request (`JobFits`) |
| `PasskeysBelong` (`PasskeysHaveUser`) | – | itself |
| `EnrolmentsLast` (`EnrolledKept`) | – | `AllAlone`, `EnrolInv`: a lone enrolment has read all that is enrolled |
| `SomebodyAdministers` (`AdminRemains`) | – | `AdminInv`, `OthersGo`: a delete that has been admitted is another admin's |
| `ChallengesAreSpent` (`AnsweredOnce`) | – | `AllAlone`, `Placed`: a challenge is with a user, with the logins, with the request that took it, or answered |
| `RetiredTokensAreDead` (`RetiredTokensStayDead`) | – | `TokensInv`: the tokens of the table are neither retired nor shared |
| `CountsNeverGoBack` (`SignCountsAdvance`) | – | `SignInv`: a login that is alone knows the count of the table, and enrolments that no login overlaps agree with the table on every count (`LoginsAgree`, `EnrolsAgree`, with `Known` and `Unmixed`) |

Why the strengthenings are needed.  `EndingHasOwner` is inductive on typed
states because every exit from the stop steps passes through a step that
forgets or unflags the entry; the types must say that such a process has a uid
and a container.  `NoOrphans` needs to know that the entry of a user names the
user's only existing container, which takes `NamesInv`, and that no process
about to run a container is another's rival for the name, which takes
`LockInv`.  The cap counts entries while `docker run` goes on, so it is the
union of entries and spawners (`Busy`) that is bounded, and containers are
mapped into it one to one.  `EventsCounted` speaks of subscribers only, but a
subscriber comes out of a replay, so `ReplayCounted` carries the balance
through it, and it needs `Placed`: only the holder of `sl.mu` replays, hence no
event is appended meanwhile.  `PlayerRegionsKept` needs `TargetsNotMine`: a
region chosen as free is not the player's, and remains so however often another
import has filled or cleared it since.

`NoOrphans` needs three things to go well.  A stop that fails, or an inspect
that calls a running game stopped, makes the manager forget an entry whose game
runs; a restart has an empty map and adopts only what it can list, and only for
users whom it finds in the store.  Nothing else does harm: a run that fails
inserts no entry, a container that `docker rm` leaves behind is down, and a
write to the store or the disk that fails ends a request before the map is
touched.  The hypotheses say just that (`StopsAreSure`, `RestartsAdopt`), and
`GamesInv` says of the users in the store what it says of all while there are no
deletes.

The refinement rests on the same invariants.  The phase of a user
changes in few ways, so one lemma per step of the lease says which change it is
(`IsStart`, `IsAnnounce`, `IsClose`, ...), and each action of the manager is
shown to be one of these changes.  That `docker run` finds room is `CapInv`
less the spawning user itself; that an entry is dropped only when its game is
down is `GamesInv`.

The induction theorems of the library take an operator as a parameter, which
the installed provers cannot instantiate.  What `ArchiveUnpack` computes is
proved for every archive all the same: a set of numbers that is not empty has a
least one (`LeastNat`, from a theorem about well-founded relations), hence a
set that holds 0 and, with a number, the next one, holds all (`SetInduction`),
and the induction is over the set of the n for which the claim holds.  `Reads`
says for the first n entries what `AcceptedAsPacked` and `RefusedForCause` say
for all, with one fact more: the directories unpacked are finitely many and
closed under parents (`Tree`).  `FindsFirst` says which directory is
found below any other, and not only below the top.  That the saves are finitely
many, hence a list, comes from the same induction.

`AnswerIsTrue` needs `Fresh` (a request that has not begun has installed nothing) and
`AloneInv`: for a request that has run alone, `Placed` says that the save
installed as the k-th is the k-th of the archive in its slot, and `Aside` that
no later save took that slot from it, which is why regions are chosen among the
free ones and two names of one archive are never the same.

In `Snapshot` no file is of the future and no two are of one time (`Aged`).
So a change since the first signature that only wrote or created left a time
that the signature lacks, and one that only wrote or removed took one from it
(`Told`), so that the second signature differs.  If nothing changed, `Quiet`
says that the archive is complete but for what `Lost` names: a failing call ends
its directory, and `torn`, which only a failing copy sets while nothing changes,
leads back to one that comes before all that is left.

`LinesWholeInOrder` says nothing of the file or of the buffer, and a line is
put together from both over several polls.  `Formed` says that the pieces of
either, up to the next newline, are those of one line and that a newline is
followed by the start of a later one; `Linked` joins the two: the buffer is the
piece of the file that ends at the offset, and, unless a long line was dropped
half way, it begins where a line begins.  After a reset below the offset nothing
links them, but then there is nothing to be read before the next `Stat` drops
the buffer: that is where `SlowGame` is needed.  `Ahead` keeps the order through
resets: all that is in the buffer, and all of the file that no `EmitLine` has
covered, are lines later than those handed over.

`ClientsGetLines` adds little to that and to `EventsInOrder`: numbers that
increase, of lines whose numbers increase.  What it needs is that a number means
the same line on either side (`OnePerLine`), which is so because the tailer
splits off a line and appends its event in one step, however long it waits for
`sl.mu`.

`EventsInOrder` needs the ring, since a client that subscribes is replayed from
it: its numbers are consecutive and end with the newest event, so the first
live event comes after all of the replay.  `PassagesAreKept` needs to know that whatever replaces a
file has all of it, so the texts of the GETs, which the user types on, must
have all of it, too; that holds because a user who waits has one GET and one
PUT under way at most.  `SignCountsAdvance` is about two writers, logins and
the enrolments that write back all passkeys of a user: `Known` says that a
passkey in the table can never be enrolled anew with count 0.

In `Journal`, `Sorted` has to speak of every place a text can be: the textarea,
the bodies on their way, the temporary files.  In `Tilesets` the excess is not
inductive by itself, for an upload that passed the check adds a file later; the
cover counts it from then on.  In `UserStore` the history `calm` is turned
around: as long as a kind is calm, all requests of that kind but one are idle
(`AllAlone`), so that nothing of its kind happens between its read and its write.

Only model-checked: all liveness properties, since the prover has no ENABLED.
Every invariant and every action property that a run checks is also proved.

## 5. Finding with a run

**`claim_delete`** – a page load that passed `requireAuth` before a delete
starts a container after it (`manager.go:265`), although `admin.go:241-244`
says `ensureContainer` cannot.  The container is one of a user who no longer
exists; a restart does not adopt it.

## 6. Other divergences met while modelling

These have no run of their own.  They are why the properties above carry the
assumptions they do; each was seen as a counterexample of the model, and the
models keep the behaviour.

- A lookup that fails at a restart reads as an unknown user (`manager.go:310`,
  `users.go:236-242`): the running game is not adopted, no entry counts it
  against the cap, and the player's next `/play` removes it by name.  A failing
  `docker ps` does the same to all games (`manager.go:292-296`).
- An import of `users.yml`, or the count before it, that fails at startup leaves
  the table empty without stopping the start (`users.go:102-107`), and a user
  whom a later one brings back lacks directories if `ensureUserDirs` fails then
  (`main.go:34-38`).
- Clearing the tileset leaves the old font in the player's `init.txt`
  (`tilesets.go:245`, `apply-tilesets.sh:18-34`), although `apply-tilesets.sh:10`
  says the game falls back to the default.
- A file created after the first signature and gone when the walk visits it
  ends the walk of that directory while both signatures agree: the trailer says
  `true` of an archive that lacks the rest (`manager.go:379`, against
  `manager.go:457-460`).
- A file that is there and cannot be opened or read, or a socket, which has no
  tar header, ends the walk of its directory, and one that fails half way leaves
  the tar writer stuck for `config/`, too, while both signatures agree
  (`manager.go:355-381`): the trailer says `true` of an archive that lacks the
  rest, and the export sends it without a word.
- A tileset named `FOO.PNG` is accepted (`tilesets.go:22`), can be selected and
  is written into `init.txt`, but never copied (`apply-tilesets.sh:15`); a `cp`
  or a `sed` that fails is not noticed either, so that the game looks for a font
  it does not have.
- An upload whose target cannot be looked at is not counted (`tilesets.go:131`);
  a delete whose lookup fails leaves the selection (`tilesets.go:269`), and a
  cleanup that fails the temporary file (`tilesets.go:158`).
- A `RemoveAll` that fails half way leaves a save of which a part is missing,
  for an import that answers an error (`saves_import.go:252`).
- `stopSessionLog` goes by uid (`gamelog.go:289`), so a late second stopper
  closes the log of the session opened meanwhile (`manager.go:47`).
- `handleTimeline` opens a log after its check of the map (`gamelog.go:226`);
  beside a stop that leaves a log and its tailer without a session.
- The import's gate on a running game is passed before the upload and not
  again (`saves_import.go:45-46`, `64`), and a game may be started while an
  export streams the directories it writes to (`manager.go:449`).
- After a failed `docker stop` the entry is forgotten though the game runs
  (`manager.go:618`): the cap and `NoOrphans` no longer hold.
- A delete whose stop fails clears the flag of another stopper
  (`admin.go:226`, against `manager.go:28-31`).
- A keepalive answers 204 for a session already flagged, which is then stopped
  (`manager.go:570-571`).
- A create beside the last step of a delete of the same uid may lose its
  directories (`admin.go:99-105`).
- A log that is reset and grows past the old position between two polls loses
  its first lines (`gamelog.go:175`), which `SlowGame` rules out.
- The tailer may read the lines of the session before, until
  `link-gamelog.sh` truncates them (`gamelog.go:143`).
- A stream that ends on `sl.done` does not tell its last drops
  (`gamelog.go:256`).
- Two imports may choose the same region, and one removes the other's save
  (`saves_import.go:231-252`).
- A set that races a delete leaves a selection without a file
  (`tilesets.go:239-245`); uploads at the same time exceed the limit of 20 per
  user (`tilesets.go:133`, README.md:230).
- Enrolments that overlap lose a passkey that was answered ok, and one that
  outlives its account writes the old passkeys into a new one of that name
  (`auth_passkey.go:139-145`).
- `users.yml` is imported again after the last users were deleted
  (`users.go:99-114`), which revives the tokens listed there, replaced or not.
- Two finishes of one ceremony that overlap are both answered
  (`auth_passkey.go:122-137`, `182-207`).
- The write-back of an enrolment beside a login sets a sign count back
  (`auth_passkey.go:139-145`).
- A login that is begun and never finished leaves its entry in the map for ever
  (`passkey_session.go:21`).
- Choosing another save while a text is unsaved leaves the timer set, which then
  stores the old text in the journal of the new save with no further act of the
  user, unless the new text is there first (`play-sdl.html:414-453`); the
  same may happen while a text is loading.
- The handler of a PUT does not notice that its client has given up
  (`journal.go:100-134`): it may replace the text of a newer PUT that was
  answered, and the page thinks all is saved.
- A save chosen on another tab never loads its journal: coming back shows, and
  can save, the old text (`play-sdl.html:414-420`).
- Two loads may answer out of order, and the journal of the save left is shown
  and saved as that of the save chosen; two PUTs may do so, too, and the older
  text stays.
- What is typed while a PUT is in flight loses its dirty flag when it answers
  (`play-sdl.html:438-450`).
- A load that fails shows an empty text, which can be saved over the journal;
  opening the sidebar again loads the journal and drops what was unsaved
  (`play-sdl.html:423-431`).
- An autosave that fails is not tried again until something is typed.
- Edits queued while a commit is in flight are cleared unsent
  (`therapist.html:692`).
- An edit committed while its unit is not loaded, or no fortress is, is reported
  as an error and cleared all the same (`web-commit.lua:39-41`,
  `therapist.html:691-692`): when the unit is there again the choice is neither
  queued nor in the game.
- A listing that fails in part, or altogether, in the script empties the page as
  far (`therapist.html:382-397`).
- An edit is dropped as taken back when it has the value the page loaded, even
  when the game has another by now (`therapist.html:627-660`); one that was not
  queued before is queued whatever its value.
- A script whose request timed out may run later, over the edits of a newer
  commit (`dfhack_proxy.go:51`).
- A renamed save changes neither sum of the signature (`manager.go:484`).

## 7. Not modelled, and why

Listing, rendering and proxying change no state.  The session cookie is a
signed value.  The OIDC flow keeps its state in cookies and at the provider and
only reads the store.  Configuration is read once; its values are the
constants.  The words of a log line, the bytes of tar, gzip and zip and the
contents of PNGs are abstracted to what the handlers tell apart.  Quotas are a
choice to refuse, but for the budget of an unpacking, which `ArchiveUnpack`
has.  The bridge's short listing, animals and single labors are one exec each
without a queue.  The idle warning and the polls of the play page show what the
server says and keep nothing; the account, admin and index pages are forms over
the routes.  The runtime, Dwarf Fortress, DFHack, Xpra, browsers,
authenticators and the database engine are external.

## 8. Plan

Done since the first plan: the unpacking of archives, logins and tokens, the
journal, the therapist page, the proofs of `Tilesets`, `UserStore` and the rest
of `SaveImport`, and the refinement of `SessionLease`.

Proved since: `EventsInOrder`, `SignCountsAdvance`, `PassagesAreKept`,
`UploadsReadRightly`, `AnswerIsTrue`, both properties of `Snapshot`,
`LinesWholeInOrder`, and the composition `Timeline`; the theorems about running
games hold for faults and deletes as far as the code keeps them.

Since then the models fail where the code can: the lookups of a restart, the
making of directories, calls on files that are there in `Snapshot`, copies and
clean-ups in `Tilesets`, removals half way in `SaveImport`, listings in part in
`Therapist`, the import of `users.yml`; and handlers go on after their clients
have given up.

Left, in this order:

1. A run of `Timeline` with the fairness of both sides: a line that stays in
   the file reaches every client that stays and reads, or is told as dropped.
2. `IdleWarning` – the polls and the idle warning of the play page beside the
   reaper.

# ZeroMux in TLA+

ZeroMux is a Rust server (`src/src`) with a web frontend that multiplexes long-lived
sessions: AI agents (Claude, Codex, Crew) and tmux terminals. It starts the processes,
decides when prompts reach them, turns their output into turns, runs prompts on a
schedule, notifies phones, indexes a vault of notes, survives restarts and updates
itself. This project models the parts of it that decide, checks them with TLC on small
instances, and proves the most important properties with TLAPS for every value of the
constants.

Paths below are relative to `src/src`; `SM` is `session_manager.rs`, `ST`
`scheduled_tasks.rs`.

1. [Inventory](#1-inventory)
2. [How the modules fit together](#2-how-the-modules-fit-together)
3. [Modules](#3-modules) - what is modelled and how it corresponds to the code
4. [Runs](#4-runs) - what TLC checks, the bounds, the fairness
5. [Disagreements](#5-disagreements-between-the-code-and-what-is-said-of-it)
6. [Proofs](#6-proofs)
7. [Not modelled](#7-not-modelled)
8. [Plan](#8-plan)

## 1. Inventory

| Component | State it keeps | Operations | Talks to | Module |
|---|---|---|---|---|
| **Claude fan-out** `SM::spawn_acp_fanout`, `TurnStarts`, `PromptQueue`; `acp/process.rs` | turn_seq, boundary_count, local_running, FIFO of started turns with intents, prompt queue and its debounce, the scheduled run's id | handle an event, a prompt (idle, collect, interrupt), an interrupt, a cancel, a timeout kill, flush the queue, end | CLI (stdin, event channel), SessionManager, push | `TurnFanout` |
| **Session lifecycle** `SM::ensure_running`, `create_*`, `remove_session`, `load_persisted`, `session_store.rs` | sessions map, spawning flag, resume token; their rows | create, spawn again (with fallback), backfill the token, end of a fan-out, remove, restart | fan-outs, store, web sockets | `SessionLifecycle` |
| **Scheduled runs** `scheduled_tasks.rs`, `SM::trigger_run`, handlers in `web.rs` | agent_runs_config, agent_task_runs | tick, claim, tie-break, trigger, finalise, watchdog, prune, reconcile, run now, replay, confirm, delete | lifecycle, fan-outs, update gate | `ScheduledRuns` |
| **Codex and Crew agents** `SM::spawn_codex_fanout`, `spawn_crew_fanout`, `acp/codex_process.rs`, `acp/crew_process.rs` | turn state, thread or slot, resume token, connection | prompt, cancel, in-turn and idle notifications, reconnect, stop | MCP child, Crew Gateway | `AgentBackends` |
| **Replay and broadcast** `SM::record_and_broadcast`, `subscribe_with_history`, `acp/ws_handler.rs`, `useAcpSocket.ts` | scrollback with a byte budget, broadcast channel; what a tab shows | record, evict, subscribe, replay, replay_done, forward, lag | fan-outs, sockets | `ReplayBroadcast` |
| **tmux terminals** `SM` tmux parts, `tmux.rs`, `ws_handler.rs`, `pty_bridge.rs` | bindings to tmux names, origin, pending_kill_until | create, attach, preflight, exit, soft close, restore, finalise, reconcile | tmux server, store | `TmuxTerminals` |
| **Self-update** `auto_update.rs` | last stat and SHA, smoke failure, pending since; the failed marker on disk | poll, hash, gate, smoke, recheck, launch the script, roll back | counts of running agents and runs, systemd | `AutoUpdate` |
| **Vault index** `vault_watch.rs`, `fuzzy_index.rs` | inotify watches, dirty directories, model, published snapshot, rebuild claim | walk, drain, reconcile, publish, rebuild on overflow, remount or age; refreshes by searches and turn ends | file system | `VaultIndex` |
| **Accounts** `auth.rs`, `oauth.rs`, `db.rs`, `admin.rs` | users, state cookies, frozen tokens | redirect, callback, request, socket, approve, delete | browser, GitHub | `Accounts` |
| **Push subscriptions** `push.rs`, handlers in `web.rs` | table of endpoints | subscribe, prune, unsubscribe, send, delete what is gone | push services | `PushSubs` |
| **Session names** `SM`, `auto_titler.rs` | name, name_is_auto, in memory and store | rename, title once, remove, restart | web, fan-out | `SessionNames` |
| **Session files** handlers in `web.rs` | a workspace directory | upload, write, delete, rename, mkdir, rmdir | file system | `WorkFiles` |
| **Presets, quick targets** `prompts.rs`, `quick_targets.rs`, `main.rs` | two tables a boot fills | seed, backfill, create, update, delete, bump, forget | web | `SeededStores` |
| **Run metrics** `run_metrics.rs` | running cost, ring of records, sums, writer | diff at a boundary, record, verdict, page | fan-out | `RunMetrics` |
| **Logger** `logger.rs` | channel, rings, day file | log, write, flush, midnight | sockets | `SessionLog` |
| **Agent events** `events.rs` | table | create, list, delete, prune | fan-outs, web | `AgentEvents` |
| **Startup** `main.rs` | - | load, seed, reconcile, start the tasks | all | inside the above |
| **Claude stream parser** `acp/process.rs`, `format.rs` | - | translate a line | CLI | its events are `TurnFanout`'s |
| **HTTP plumbing, git, search, memory, frontend rendering** | - | I/O | browser | not modelled |

What is hard in it, and where it bites, is `PROJECT.json` `hazards`, by line, each with
the properties that cover it or the reason why none does. In short:

- *ordering and interleaving*: late and doubled turn boundaries after an interrupt, turns
  the CLI starts on its own, prompts collected while busy; the watchdog acting on a
  mirror of the turn; claims, spawns and ends of scheduled runs from four kinds of task;
  clients that spawn one session at the same time; a snapshot and a subscription that
  must not overlap; requests that check a file and act on another; a title against a
  rename; late chunks of a cancelled call.
- *failure*: a process that dies at any moment, a resume that fails early or late, a
  request dropped while it awaits, a panic of the scheduler, a restart between any two
  steps, store writes made outside the lock that decided them, a swap script of which
  any command fails, a Gateway connection that breaks, a slot that outlives its process,
  an event queue that overflows, a directory the kernel refuses to watch, a vault root
  that is mounted over.
- *liveness*: every turn ends, no collected prompt waits for ever, every run's row ends,
  an aborted agent stops, the spawning flag is given back, a closed terminal does not
  stay hidden, a killed agent session ends, a stable build is installed, the index
  catches up, an approval reaches who waits.

## 2. How the modules fit together

`TurnFanout` and `ScheduledRuns` meet at the run's prompt (`SM` 1528): ScheduledRuns
takes the fan-out as "the agent starts, finishes or exits", which TurnFanout's RunHandle
and RunOwnsLiveTurn justify (whose verdict an overtaken run gets is TurnFanout's); TurnFanout takes the run's row as one variable. TurnFanout
starts where SessionLifecycle's Install ends. `ReplayBroadcast` has of the fan-out only
what its clients can tell (record, mark, settle). `AutoUpdate` takes "a run is in
flight" and "a turn is running" from them as two flags that may change at any time.

`ExclusiveSlot` is the abstract specification that both `ScheduledRuns` and
`SessionLifecycle` refine. `Services` composes the eight components that share no state
with each other (accounts to agent events in the table): a variable `area` says which
component a behaviour is about and the others stay at their initial states. As no guard
reads another's variables, this is as good as the product, which would be too large.

## 3. Modules

### TurnFanout

The `tokio::select!` loop of `spawn_acp_fanout` (`SM` 2984-3512): one handler at a time,
whole. Its variables are the loop's own (`phase` to `activeRun`), the manager's mirror
that the callbacks write (`rp`, `posture`, `turnsCompleted`, `run`, `metrics`,
`pushes`), and the CLI (`stdin`, `channel`, `cli`). `HandleEvent` is the event arm with
everything a boundary does in the code's order (origin and echo marks, skip or settle,
classify by intent, metric, mirror, run row, posture, push, re-arm of the queue);
`HandleInput` the input arm; `FlushQueue` the timer arm.

- The CLI is external, modelled as the comments of the code describe it: one prompt on
  stdin yields an echo and a turn of its own, or is merged into a turn the CLI started,
  whose result is then marked; interrupts overtake prompts that wait; it may start turns
  on its own and may exit at any time. Capacity of the event channel blocks it.
- It starts with the session listed and its process running; `rp.live` is FALSE once the
  session is removed. A removed session's fan-out goes on while a client's socket holds
  an input sender (`lingering`).
- The session is in the map (`SM` 1392) before the run's prompt is sent (`SM` 1546), so a
  user's prompt or a turn of the CLI's own may be running when it arrives. The history
  variable `overtaken` remembers that; RunOwnsLiveTurn excepts such a run, whose verdict
  the superseded turn's boundary decides.
- Time is abstracted: the debounce may fire whenever it is armed, the watchdog whenever
  the mirror shows a turn. Text is abstracted to the number of the turn it belongs to.

### ScheduledRuns

One task and its rows (`row`, numbered by insertion, as rowid does). Every access to the
database takes the connection's lock once, so each is a step; HTTP handlers (`Web`) and
the scheduler are claimants with a program counter (`pc`, `job`) that go through overlap
check, claim, tie-break, spawn, bind, snapshot and prompt, each with the failures the
code handles. The watchdog reads stale rows and aborts them in two steps, and the kill it
spawns lands or gives up. Restart reconciles; a panic of the scheduler reconciles all but
rows bound to a live session. Prune runs on the scheduler's idle tick with retention
`Keep`; `Keep = 1` makes pruning meet rows in flight and rows that wait for a human.

- No handler really yields between claim and prompt, so a dropped HTTP request does not
  strand a claim.
- A claim becomes a turn in less than the minimum timeout of a minute, so the watchdog
  finds stale only claims that nobody works on; that is the guard of `Stale`.
- Left out: database errors, cron arithmetic, creating and editing tasks, pushes. The
  task may be disabled at any time.

### SessionLifecycle

One session, `type` "claude" (also Codex, which differs in nothing modelled here) or
"crew". `sess` is the entry of the sessions map (listed, running, spawning, token), `row`
its row, `fan` the fan-outs ever spawned. A conversation is named by the fan-out that
began it, so a resumed process carries an older name. Each step is one holding of the
sessions lock or one store write; between two steps anyone else may run: `Decide` /
`Wait` (phase 1), `SpawnWorks` / `SpawnFails` (phase 2 and its fallback), `Install`
(phase 3), `ClearStored` / `UpsertSnapshot` (persist_fallback), `Abandon` (the future is
dropped, its SpawningGuard runs), `Backfill` / `WriteToken` (set_resume_token in memory,
then in the store), `Ends` / `MarkEnded`, creation in its three steps, removal in its
two, `Restart`.

- A Crew resume asks the gateway whether the slot is there and fails if not; Claude's and
  Codex's spawn succeed with any token. Crew's first event names its slot, the others
  name their conversation when a prompt is answered, and prompts come through the
  session.
- Waiters may give up at any time (they poll for 30 s at most).
- Left out: worktrees, posture and size columns.

### AgentBackends

One session whose agent is reached over a protocol. `backend` chooses Codex or Crew for
the behaviour. `fan` holds the locals of the fan-out (the two are one program twice),
`cmds` and `events` the channels between it and the event loop, `loop` the event loop's
locals, `remote` the other side with what it works on and will still send.

- Codex: the idle and the in-turn `select!`, both biased to commands; a cancelled call
  ends in an error event at once while the server goes on (`ghosts`) and its late chunks
  arrive between or in later turns; a prompt in a turn is refused with an error; the
  thread of the next call is the one of the last completed call. `StaleRef` and
  `OuterTurn` are the two decisions that keep late notifications apart.
- Crew: the prompt worker's POST may fail or its answer be lost; frames end turns; a
  broken connection yields an error and a back-off in which inputs are dropped (all but
  the stop), then a reconnection; a slot may be deleted elsewhere, so a resume makes a
  new one. When the process is dropped its slot is deleted (`Deleted`), or outlives it
  (`Survives`): it was not ours, or the DELETE was skipped or lost. The stop only closes
  the socket, so a slot that outlives its process goes on with its turn, and the detached
  prompt worker still posts what it holds (`LatePosts`). Those turns are `OldTurn` to the
  next life, whose frames name the slot and no turn; what the loop's channel held is gone
  with the loop.
- Prompts are numbers, notes carry the prompt they belong to; a result's text is 0 if it
  is that turn's own, else the turn it is of (`Foreign`). Other content, permission
  requests and frame syntax are left out.

### ReplayBroadcast

The scrollback (`Fit` is the eviction by bytes, which may not take the newest event),
the broadcast channel with `Capacity`, and two tabs. `Subscribed` is the snapshot and the
receiver taken under one lock; the handler then sends the snapshot, reads the live turn
and the mode (`ReadRunning`, its own lock) for `replay_done`, and forwards, skipping what
the channel dropped. Between a broadcast and the mirror's update (`MarkRunning`,
`Settle`) other tasks run. The tab's `busy` and `mode` are those of `useAcpSocket.ts`.

### TmuxTerminals

The sessions map, its rows, one tmux server (names with generations) that others use,
too. Each step is one holding of the sessions lock or one tmux command: create in three
steps, the socket's preflight and spawn, the fan-out's exit (asks `has`, then marks),
`Close` with its timer, `Restore`, the finaliser's read, remove and kill, and at boot
reconcile_pending_kills before anyone is served. `Disturbs` names the restore that falls
between the finaliser's two locks: the code overrides it, and `raced` marks it.

### AutoUpdate

The updater's loop, step by step, the rendered script command by command under `set -e`,
and the service they both live in: the script's stop kills the updater, so only the
marker file crosses from one life to the next. The operator writes the watch path at any
moment, also between hash, smoke and copy; runs, turns and the store's readability
change at any moment; reads and copies fail and a healthy binary may miss the health
window (`Fault`). A run claimed after the recheck is "late": the gate cannot see it.

### VaultIndex

A tree of two levels whose directories are made, removed, renamed, given a note or
replaced by another mount; an inotify instance with its watches (by inode) and its
bounded queue; the watcher's model, walk, dirty set and published snapshot; the claim
that lets searches and turn ends rebuild while no watcher is active. The kernel may refuse
a watch at any time (`AddFails`, bounded by `MaxFails`): the walk goes on and nobody tries
again before the directory is dirty or the six-hour rebuild comes. Every directory is
read atomically. Two ghosts say what the properties speak about. `same` are the paths that
have held one directory since it was last watched there. `stale` are the directories the
code may have wrong, by its own rules and by what happened: a directory whose watch was
refused; one that was replaced, or away, between its watch and its read; and, when a dirty directory is read that was
another one, or away, since it was last watched, those of its children whose names are
known and which have not been watched since (`reconcile_dir_with` takes them for known, so
neither watches nor reads them). `Sure` are the paths with no such directory on their way
to the root.

### Services and its eight parts

Accounts (state cookie, first user is the administrator, tokens freeze claims, pending
ones are looked up again), PushSubs (upsert, prune by age and endpoint, senders that
work on a list read before), SessionNames (rename in four steps against the titler's
three), WorkFiles (each request a sequence of system calls on names and inodes),
SeededStores (two seedings with a version each, the board's backfill row by row, boots
that fail or die anywhere), RunMetrics (cost differences over doubled, skipped and
coupled boundaries and resumed conversations), SessionLog (channel, ring, batch, day
file, failed writes), AgentEvents (scope and retention).

### ExclusiveSlot

The abstract specification that ScheduledRuns and SessionLifecycle refine: a slot that
parties (runs of a task, processes of a session) take while it is free and give back
before another takes it; one that is over never takes it again.

## 4. Runs

| Run | Question | Instance |
|---|---|---|
| TurnFanout | all safety of the fan-out | 3 turns, 1 queued, 1 CLI-started, 3.79 M states |
| TurnFanoutLive | every turn ends, queued prompts leave | 2 turns, channel of 2, content blocks |
| TurnFanoutRemoved | violation, section 5 | as TurnFanoutLive |
| ScheduledRuns | rows cover agents, ends are final, the confirmation queue, refinement of ExclusiveSlot | 2 rows, 2 tabs and the scheduler, 1 restart, 1.5 M states |
| ScheduledRunsLive | rows end, aborted agents stop | 1 row, 2 restarts |
| SessionLifecycle | removal, tokens, refinement of ExclusiveSlot, spawns end | 2 clients, 3 processes, 2 restarts, 0.29 M states |
| AgentBackends | turns, boundaries, threads, kills | 3 prompts, 1 queued, 2 threads or slots, 1 error, slots that are deleted or outlive their process, 1.3 M states |
| ReplayBroadcast | what a tab was shown, its turn, its mode | 2 tabs, 2 connections, channel of 2, 4 events, 2 prompts, 2.1 M states |
| TmuxTerminals | undo window, no false report, nothing hidden for good | 1 terminal, 3 tmux sessions, 1 restart, 0.17 M states |
| AutoUpdate | no visible run dies, roll back, no reflap, upgrades happen | 4 builds (healthy, unhealthy, not even smoking), 2 writes, 1 fault, 1 restart, 96 k states |
| VaultIndex | the index is the tree when quiet, and becomes it | 2 + 1 names, queue of 3, 2 changes, 1 intruder, 1 refused watch, 0.9 M states |
| Services | access, approvals, choices, records | see its cfg, 0.61 M states |

Bounds and why they are enough. Three turns are what an interrupt-resend needs twice
over: one superseded and outstanding, one live, one to come; `MaxStdin = 3` and
`MaxChannel = 3` hold the lines and events of all of them. One CLI-started turn is
enough to meet each of ours before, between and after. Two rows let two claims, or a run
and its replay, overlap, and let retention drop one; three claimants make a tie with a
bystander. Two clients make a spawner and a waiter, or one who abandons and one who
takes over; three processes are the created one, a failed resume's fallback and a
later resume. Three prompts to a backend make a cancelled call whose chunks arrive in the
next but one; two threads are an abandoned and a current one. A channel of two with four
events makes a tab lag, a scrollback of two evicts. Three tmux sessions are a closed
one, one made anew under its name, and one of somebody else; a clock of three holds a
window that ends and another close. Two writes of four builds are a candidate and a
replacement between any two of the script's commands; one fault is one failed command.
The run holds one script at a time; that scripts overlap, and what then still holds, is
the theorems' case. A queue of three overflows with two changes, each of which may queue
several events; one refused watch is one of any directory, the root too, in a walk or
after it. `CHECK_DEADLOCK FALSE` everywhere: an idle program whose users do nothing
more, or whose bounds are used up, does stop.

Fairness is assumed of the program's own tasks only:

- TurnFanout: the runtime polls the fan-out (its arms are weakly fair), the watchdog
  ticks, a killed CLI exits. Nothing is assumed of the user, nor that the CLI answers: a
  turn ends because the watchdog kills it.
- ScheduledRuns: the scheduler ticks and a claimant goes on; the watchdog, which scans
  all rows each tick, finds a row that stays stale and a turn that stays silent (strong
  fairness, as a tick may find the claimant in between); a kill that is retried lands.
  The agent is never assumed to answer. RunsEnd is claimed while the task is configured:
  the watchdog's query joins the task's row. Liveness is checked with one row; two rows
  made the graph too large, and what two rows add is in the safety run.
- SessionLifecycle: a spawn returns or fails, a task that runs goes on. Codex awaits its
  MCP handshake without a timeout (`acp/codex_process.rs`), so for it "a spawn returns"
  is an assumption on the child. The flag itself is also freed by whoever drops the
  request.
- AgentBackends: the event loop, the fan-out and the insertion go on; the server, the
  Gateway and the user owe nothing.
- TmuxTerminals: time passes, a finaliser that sleeps or has begun goes on, a boot ends.
- AutoUpdate: loop and script go on, waits and the marker's TTL end. Writes, runs and
  turns owe nothing; UpgradeHappens is claimed for a build that stays, with no scheduled
  run for good and a service that is up again and again.
- VaultIndex: while the watcher's thread or a rebuild job has something to do, one of
  them goes on; the six-hour rebuild is not assumed, so that CatchesUp does not lean on
  it.
- Services (accounts only): a waiting page polls, a loading one asks, the database comes
  back.

Each property has a mutant in `PROJECT.json`: an operator, next to the one it replaces
and marked `mutant`, that changes the code's decision the way a slip would, and breaks
the property. Properties with several parts list one mutant for each part that matters.

## 5. Disagreements between the code and what is said of it

*TurnFanoutRemoved* is a run that TLC refutes and `PROJECT.json` `findings` quotes the
comment (`SM` 2086): with a client connected, removing a session does not end its fan-out
nor its CLI; the socket holds an input sender and waits for the event channel to close,
which the fan-out itself keeps open.

These are stated at the end of their modules, and fail when they are put into the cfg of
the module's run:

- `TurnFanout!PushBodyIsOwn`: the push of a turn shows an earlier turn's summary when a
  superseded turn's late result is posted in its place (`SM` 3782).
- `TurnFanout!RunPromptFindsIdle`: the run's prompt may find a turn running, so the branch
  that supersedes it is not dead (`SM` 3340, 1392, 1546).
- `ScheduledRuns!NoDoubleReplay`: a stale confirmation card replays a run twice (`web.rs`
  3732).
- `ScheduledRuns!NoPromptWithoutRow`: a task deleted under a claimant still starts an
  agent, which has no row and which the watchdog does not see (`web.rs` 3534, `ST` 739).
- `SessionLifecycle!NeverVainTwice`: an expired Claude conversation is resumed in vain
  for ever (`SM` 1903).
- `SessionLifecycle!BackfillKept`: a Crew slot named before its session is listed is
  never recorded (`SM` 4126, 1843).
- `SessionLifecycle!RunningIsLive`: a process that dies before it is installed is shown
  as running (`SM` 2817).

These the models show and the properties except, each at its definition:

- Turns: a prompt taken after Exit starts a turn no boundary ends (`SM` 3544); the
  interrupt arm bumps turn_seq while blocks of the superseded turn are to come, so they
  carry the next turn's id (`SM` 3874); the verdict of an overtaken run is decided by the
  boundary of the turn it superseded (`SM` 3344).
- Lifecycle: persist_fallback of Crew inserts the row of a session removed meanwhile and
  clears a token its new process stored (`SM` 2030).
- Codex and Crew: an error that belongs to no turn shifts the count of boundaries, and so
  does, in a session resumed on a Crew slot that outlived its process, the end of the turn
  the slot was still at: `chat_done` names the slot only, the stop closes the socket and
  posts no `/stop`, and Drop skips the DELETE for a slot that is not ours, an unreadable
  secret or a runtime that ends (`crew_process.rs` 147-168, 646, 671-677, 741-765); the
  resumed session's first turn is then settled before its answer. A connection lost in a turn tells half of its text with the next; a late chunk of an
  abandoned thread that is read in a later turn names the loop's thread, and if that turn
  then fails the next prompt goes on in the abandoned one (`codex_process.rs` 666-690,
  806-816).
- Replay: an interrupt during the collect window leaves the sender's page busy; a
  superseded turn's boundary after replay_done clears the live turn shown; a snapshot
  between the last result and mark_turn(Idle) shows a turn that is over; there is no
  replay_done for an empty history, so the mode stays "collect"; a client that lags is
  told nothing.
- tmux: a restore between the finaliser's two locks is overridden (`SM` 2562); "ended" is
  not stored, so after a restart a close may kill another session of that name (`SM`
  2435, 2576); two attaches at once are bound to one tmux session (`SM` 1225); preflight
  and spawn are two steps (`ws_handler.rs` 76); a crash between remove and kill leaks the
  tmux session.
- Self-update: a failed copy leaves the service stopped (`auto_update.rs` 165); a failed
  hash loses the build until it is written again (236); smoke runs what is on the path
  and blames the SHA hashed before (336); the roll back kills runs without a gate (172);
  two swaps may overlap if systemd restarts the service in the middle of one (217):
  InstalledIsProven and NoReflap hold until that has happened.
- Vault: a search's refresh may write the model after the watcher became active, against
  `vault_watch.rs` 8-9 (sole writer); a folder replaced by one of the same name within a
  debounce keeps its old subfolders (`fuzzy_index.rs` 202). The proof met a second form of
  it, beyond the run's two changes: a folder that is moved away and back, and whose
  subfolder was watched under the other name in between, comes back to a model that still
  knows the subfolder by name, so its inode stays mapped to the other path and its later
  events mark a directory that is gone, although the re-watch of `vault_watch.rs` 94-98 is
  there to prevent just that. A directory replaced between its watch and its read is a
  third. A directory whose `add_watch` failed, the root too, is not watched, nor is what
  appears below it (`vault_watch.rs` 77-81, whose comment says as much). All last until
  the directory is read again for another reason, or the six-hour rebuild;
  IndexMirrorsTree and CatchesUp except them (`stale`).
- Names: a title overwrites a name the user gave between rename's store write and its
  flag; two renames may be stored in the opposite order; a crash between the two store
  writes lets a titler start again.
- Files: a rename checks that its target is free and then replaces a fresh upload.
- Push: a user's subscriptions survive the user; the second account of a device is told
  "subscribed" and is not.
- Accounts: the token of a deleted active user is served until it expires; a second tab's
  login invalidates the first one's.
- Presets and targets: a partial backfill stays partial; forgetting the last target
  brings the history back at the next boot; a failed first boot lets a preset the user
  deleted be seeded.
- Metrics: the first turn after a resume records no cost (documented in the code).
- Log: bytes of a terminal are logged once for each socket; an entry still in the channel
  brings a removed session's ring back; pages count from the oldest entry.

## 6. Proofs

Eight modules, `TurnFanout_proofs`, `ScheduledRuns_proofs`, `SessionLifecycle_proofs`,
`AgentBackends_proofs`, `ReplayBroadcast_proofs`, `Watchers_proofs`, `TmuxTerminals_proofs`
and `Services_proofs`, EXTEND the module they are about and TLAPS; `Watchers_proofs` is
about two, AutoUpdate and VaultIndex.
The assumptions are the constants' (bounds are naturals, at least one process, one thread
to be had, the scheduler is not a web request); the theorems hold for every number of
turns, rows, requests, clients, tabs, prompts, processes, swaps, terminals, accounts,
restarts and changes of the vault, and for channels, queues and scrollbacks of every size.

**TurnFanout.** TypeCorrect is inductive. TurnAccounting (counters, FIFO and busy flag
agree) is inductive with it: each step keeps the turns, starts one at the FIFO's end, or
settles its front, and these three shapes (`KeepsTurns`, `StartsTurn`, `SettleBoundary`)
carry the argument. For aborts the invariant `TurnInv` adds that there is a metric per
settled boundary, that aborts hit started turns only and that pushes are of settled
turns: then an intent on the FIFO's i-th entry is the abort of turn boundary_count + i,
which gives IntentReachesItsTurn and NoFalseDonePush. QueueDiscipline, MirrorAgrees,
RunHandle and CompletedOnce follow by step on top of TypeOK and TurnAccounting; together
they are FanoutBookkeepingHolds, the invariant the run checks. RunOwnsLiveTurn is inductive
with them: a run that is not overtaken starts on an empty FIFO (TurnAccounting), and every
step that could lengthen it drops the handle or needs an idle fan-out (RunHandle).

Still `TurnFanout_proofs`: that a boundary settles its own turn is not inductive over the
fan-out's state: it depends on everything still on its way. `StreamInv` says what may be in
the event channel, on stdin and in the CLI's hands for a given FIFO, in twelve parts: what
the CLI says of our turns is said of outstanding ones, in the order they were started, and
a CLI that lives forgets none (SaidOfOurs, SaidInOrder, NoneForgotten); an echo comes
before its answer and an entry is marked when it was seen (EchoedWhenSeen); an echoed turn
is answered before the CLI ends one of its own, whose end has an origin mark right before
it (OursEndFirst, EchoThenEnd, OriginMarksNext); a counted CLI-started turn ends before any
answer of ours, since an interrupt is read ahead of the prompt behind it
(ExternalEndsFirst), and every turn it ends was seen to start (StartThenEnd, StartIsSeen).
The proof has a lemma per kind of step: an event is taken (positions shift by one), a
message is said (what was said stays true, and the new one fits), a turn starts, the CLI is
killed, nothing of it changes. At the head of the channel the invariant leaves one reading
(`HeadSettles`), which gives BoundarySettlesOwnTurnHolds; with an empty channel and no
prompt no turn can be outstanding, which with its converse is BusyIffWorkHolds; and no
result can come to an idle fan-out, on which PostureIsLatestHolds rests.

**ScheduledRuns.** `IInv` is TypeOK with: no two claimants work on one run, and the row of
a claimant that has not bound its session is not running. `SlotInv` adds
HolderIsEarliest: who has passed the tie-break is the earliest active row. Every move of
a row is one of few (deleted, kept, ended, bound, inserted), and the moves give
VerdictIsFinal and PendingNeverDropped. The refinement SlotIsExclusiveHolds: a step that
gives a run the slot finds no holder (a later one would not be the earliest), any other
step keeps or frees it, and ended rows stay ended. RowCoversRunHolds needs to know whose
each agent is: `CoverInv` adds that a row not yet inserted has no agent, that a claimant
makes the agent of its own run and keeps it until the prompt is sent, and that the row a
claimant has not bound is not over behind its back. ConsumedByLiveReplayHolds: only
Consume writes "replayed", whose claimant came there by a prompt its agent took, and the
scheduler never replays.

**SessionLifecycle.** `IInv` is TypeOK and SpawnFlagOwned with: nothing is listed and
nobody spawns before creation is done; fan-outs not begun have no state; at most one is
alive; while a client spawns none is alive and nothing is installed; an alive one of a
listed session is installed or about to be by the one who spawned it. ProcessIsExclusive
is not inductive without the last three: that nobody is alive when a client begins to
spawn is known only because what is alive is accounted for by the session or by the
unique spawner. ProcessIsExclusiveHolds maps the alive fan-out to the slot's holder.
TokenNeverLostHolds needs that tokens are older than the next fan-out and that a client
that fell back has a conversation newer than its token: then the token it drops is never
the one just recorded. RemovedStaysRemovedHolds has an invariant of its own.

**AutoUpdate.** KilledRunIsLateHolds: while a script is about to stop the service, a run
in flight was claimed too late for the recheck to see. InstalledIsProvenHolds and
NoReflapHolds rest on `OneSwap`, which stands until two scripts overlap: a script is
alone, a service that is stopped has no updater and is kept stopped until the script
starts it, what is installed or else its backup is proven, a candidate on its way to a
swap has no marker that lasts, and the updater a roll back has started has not looked at
the build twice when the script writes the marker.

**TmuxTerminals.** UndoWindowHonouredHolds and DeliberateCloseNotReportedHolds: a terminal
is created once, the mark that an undisturbed finaliser has read still stands and is due,
and whose tmux session is killed is gone for good. `EveryMove` lists what a step may do to
one terminal, so that each of these is argued once per kind of move.

**ReplayBroadcast.** `ReplayInv` numbers the messages of the channel. Of the session it
says that the scrollback is a gapless tail of what was recorded, that the channel's events
are in order without a hole, that a turn's end was sent before it is settled and after its
blocks, and that the last mode told is the fan-out's unless it is about to tell it. Of a
tab: what it has seen, what it holds to replay and what its receiver will bring follow
each other (HistoryInv); if its mode is not the fan-out's, or it shows a turn, then the
message that tells it otherwise, or its cause, is on the way (ModeInv, BusyInv). None of
the three properties is inductive: each looks at tabs that have taken everything, the
invariant at what is still ahead of those that have not. A step is the fan-out's, which
leaves the tabs alone, or a tab's, which leaves the rest alone; lemmas say once what a
broadcast adds to a channel at its limit and what a receiver takes from it. HistoryWhole,
ModesAgree and BusyTrue read the properties off the invariant.

**AgentBackends.** `Base` is types, counters and where a loop may be. ThreadKept adds that
the thread of the last completed turn is the idle loop's or the call's. TurnSettlesItself
rests on `PipeInv`: the turns that started and did not settle stand in one line - in the
channel down, among a Crew session's posts, at work, as boundaries in the channel up - in
the order in which they were counted; a Codex prompt behind another one is behind a cancel
as well, else the loop would refuse it; and boundaries ahead of the first error of no turn
miss none (`Clear`). The turns of an earlier life that a surviving slot is still at, or
the worker is still to post, stand apart from that line, as `OldTurn`; their boundaries
are of no turn. So the first boundary in the channel is of the first turn counted, until
such an error or such a boundary is taken (`shifted`) or something is lost. `TextInv` adds whose text
a loop and a channel hold, which makes BelongsKept. After a shift the line says nothing;
`BusyInv` then still counts: as many boundaries in the channel, prompts the loop will take
and turns at work as turns outstanding, while the loop goes on, no stop is on its way and
nothing is lost. BusyWaits follows, as a count above zero has a member.

**Services.** The eight components share no variable, so a step of the composition is a
step of each or leaves it alone (`EachStays`), and each has an inductive invariant of its
own over the constants' assumptions; together they give every type (`[]TypeOK`, a part of
RecordsStandHolds).

- *Accounts* (`AccountsInv`). Ids are used once, the administrator's row is the only one
  of its kind and outlives every other, what speaks for the administrator is that row's,
  and who is active, in the database or in a token, has been approved: AccessIsGrantedHolds.
  That no token is newer than the last id and that a page that got in has an active token,
  an active row or none gives WsFollowsPageHolds: a new row cannot take over the id of an
  old token.
- *Web push* (`Table`). The table is finite, so the rows to prune have a first one, and the
  MaxSubs newest of an owner stay: SubscriptionsStandHolds.
- *Names* (`NamesInv`). While a name may still be replaced, by its flag in memory, in the
  store or in the hands of a rename, no title was given and no rename answered:
  TitleYieldsHolds.
- *Files* (`FilesInv`). Where a request is says which inode it holds, an upload's only its
  own; what was written is there unless a write opened that inode, and found unless
  somebody who may have meddled has: UploadsStandHolds.
- *Seeds* (`SeedsInv`). The version tells what has been seeded, and order numbers and
  hits are bounded by what was done: SeedsStandHolds. With the three above it is
  ChoicesStandHolds.
- *Events* (`EventsInv`). A prune is never ahead of the clock: EventsStandHolds.
- *Log* (`LogInv`). There is, for each session, a last entry the writer took: the channel
  holds exactly those after it, in order and without a hole, the ring the newest up to it
  since it was dropped. The entries waiting are counted by a bijection with the numbers
  between the two. What is not flushed is never more than the batch, and a writer that
  waits is below its limit: LogStandsHolds.
- *Metrics* (`MetricsInv`). The sum of the costs is not bounded by the bill inductively:
  the sum and what lies between the base of the next difference and the running total are
  (`SumIs`). Runs rise in the ring, in the file and in the channel between them:
  MetricsStandHolds. With the two above and the types it is RecordsStandHolds.

**VaultIndex.** IndexMirrorsTree speaks of quiet moments only; `VaultInv` says what is on
its way at all others. It has three layers.

- *The file system* (`TreeInv`, `DepthInv`). A tree with one path for each inode, whose
  watches are on inodes that exist; an inode keeps its depth wherever it is moved, so the
  name an event gives always fits the path its watch is mapped to. `FsStep` says once what
  every change of the file system means for the rest (`same` loses the paths that hold
  another inode, the queue gains their events unless it overflows), and the preservation
  lemmas use only that.
- *The watcher's lists* (`ListInv`, `SameInv`, `UnsureInv`). New directories come before
  dirty ones, and no new one lies below another; what is in `same` is watched, under
  its own path; what is in `stale` is not in `same`, or is about to be read.
- *What is owed* (`LiveInv`), unless the watcher is `Doomed`: it lost events, its root is
  another one, or a refresh wrote behind it, so that it starts over or the property does
  not speak of it. A directory that is there and has not been watched since it came is
  dirty, on the list, announced by a queued event, known to be `stale`, or has a parent of
  which that can be said (`FoundInv`); one that was watched and read is in the model as it is, or dirty, or
  has an event in the queue, or is on the list (`ReadInv`, `ModelledInv`); the model is
  closed under parents (`ClosedInv`), and what is walked is new to it (`NewInv`). Draining
  turns queued events into dirty directories (`DrainedPaths`), a read turns a listed one
  into what the model says; one whose watch was refused stays on the list until it is
  read, and is `stale` from then on.

With an empty queue, nothing dirty and nothing listed, the parents of a `Sure` path are in
`same` one after the other, from the root down: each is watched, and the model of it is
what is there. No induction is needed as the tree has two levels. VaultInvHolds,
VaultTypesHold and IndexMirrorsTreeHolds are the theorems; TLC agreed with every
part before it was proved, on instances of up to three changes, two refused watches and
a queue of eight.

Only model-checked: of ApprovalReaches its part ApprovedGetsIn; and that what RunsEnd and
the other liveness properties promise does happen (EveryTurnEnds, QueuedPromptLeaves,
AbortedStops, SpawnEnds, UpgradeHappens, PendingResolved, KillEnds, CatchesUp,
RemovedFanoutEnds), which this prover does not reach. No module declares a recursive operator.

## 7. Not modelled

`PROJECT.json` `components` says for each part what is left out. Without decisions of
their own: HTTP routing, read-only endpoints (lists, reads, downloads, search), git
subprocesses, the proxy to the Crew memory, the legacy password mode (one shared secret),
rendering, the byte pump of terminals, the syntax of events, frames and VAPID, cron
arithmetic and the frecency score. Left out of modelled components: the two debounces of
web push (their check and mark are two holdings of a lock, and forget_session may be
followed by a late mark, `SM` 2943), renaming a directory, database errors of the
scheduler's store, permission requests of Crew, worktrees, wall-clock durations, the
content of texts. The pipe to the CLI is unbounded in the model: a write that blocks
while the event channel is full (`SM` 3307) is a hazard without a property.

## 8. Plan

In order of worth: a model of the push debounces; the blocking pipe to the CLI; renaming a
directory of session files.

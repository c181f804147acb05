# A formal model of zsnap

zsnap is a one-shot command-line program (Rust) that takes and prunes ZFS
snapshots by policy. A systemd timer or cron starts it every 15 minutes, people
start it by hand, and nothing stays resident between two invocations. The state
that matters is outside the process: the snapshots in the pools, the lock file,
the status cache, and what webhooks have been told. This directory holds TLA+
modules of its parts, the TLC configurations that check them on small
instances, and proofs checked by TLAPS.

All source paths are relative to the repository; a line of code is quoted as
`src/lock.rs:28`. `PROJECT.json` maps every definition to the lines it models,
and lists runs, mutants, hazards, findings and theorems.

## 1. The system

| Component | State | Operations | Works with |
| --- | --- | --- | --- |
| Run lock (`src/lock.rs`) | lock file, `flock` on its open description, PID text in it | `acquire` (mkdir, open, try_lock, read holder or truncate and write PID), `Drop` | every mutating command and `status --refresh`; systemd, which owns the directory |
| Whole run (`src/main.rs:228`) | inventory, plan and report, all in memory | lock, discover, resolve, plan, filter, execute, write cache, unlock | everything below |
| ZFS inventory (`src/zfs.rs`) | a listing of datasets, pools and snapshots | three `zfs`/`zpool list` commands, parsers | planner |
| Dataset resolution (`src/planner.rs:96`, `src/config.rs:582`) | policy and strategy per dataset | shallow-to-deep merge of sections and templates | planner |
| Planner (`src/planner.rs:154`) | none | due classes, prune candidates, protected snapshots | inventory, calendar |
| Calendar (`src/planner.rs:349`) | none | latest preferred instant of a kind in a time zone | planner |
| Executor (`src/executor.rs`) | per pool: counters, errors, `snapshot_failed` | batches of snapshots, hooked snapshots, prunes, hooks | one thread per pool through `map_bounded`; `zfs` child processes |
| Bounded workers (`src/parallel.rs`) | queue under a mutex, join handles | spawn, take, push, join, sort | executor, notifications |
| Hook runner (`src/executor.rs:469`) | child process, deadline | spawn, poll, kill | executor |
| Status cache (`src/status.rs`) | a JSON file | forecast from inventory and plan, atomic write, load and validate | end of a run, `status` |
| Notifications (`src/notification.rs`) | attempts and error per webhook | select, render, resolve URL, send, retry, report | end of `main`, after the lock is released |
| Configuration (`src/config.rs`) | none | parse, validate | start of `main` |
| Sanoid migration (`src/migration.rs`) | none | parse two Sanoid files, convert or refuse, validate the output | `zsnap migrate-sanoid`; the configuration it writes |
| CLI, printing, packaging | none / unit file | | |

Invocations meet each other only at the lock file, in ZFS and in the cache. In
one invocation the pool workers run concurrently, and so do the webhook
deliveries. The calls to `zfs` and to hooks are child processes that may fail,
hang, or outlive a killed zsnap. Administrators hold, clone, create and destroy
snapshots at any time without the lock.

What makes each part correct:

- **Lock**: one process at a time is between `acquire` and `Drop`; nobody waits;
  a dead process blocks nobody; a refusal names the holder.
- **Run**: no class is snapshotted twice for one scheduled instant; pruning keeps
  the configured number and the window although plan and listing are stale; a
  successful report means fresh snapshots; the cached counts are true.
- **Executor**: a report without errors means that the whole plan was carried out
  in well-formed commands; nothing is pruned after a failed snapshot; pre and post
  scripts pair up; no command runs beside a script.
- **Inventory and cache**: however the three listings disagree, a plan and a valid
  cache can be made of them, and the cache is true of whatever nobody touched.
- **Migration**: the converted configuration does to every dataset what the Sanoid
  file does, and sections, templates and recursion that cannot be represented are
  refused with the reason.
- **Bounded workers**: every item once, results in input order, nothing left
  running, whatever fails to spawn or panics.
- **Notifications**: nobody told twice without need, no false report, the exit
  status is the run's, and a message arrives whole.
- **Planner, calendar, resolution**: one instant per period, one policy per
  dataset, retention kept.

## 2. Modules

| Module | Models | Checked by |
| --- | --- | --- |
| `OneRun` | the abstract locked region: Enter when empty, Leave | |
| `RunLock` | `src/lock.rs`, process death, and systemd's RuntimeDirectory | `MCRunLock`, `RunLockProofs` |
| `ZsnapRun` | several invocations of `run_zfs_command` against a changing ZFS | `MCZsnapRun`, `ZsnapRunProofs` |
| `PoolPromise` | the abstract promise of a pool: snapshots first, no prune after a failure | |
| `PoolExecutor` | `execute_pool` and everything under it, a hook being one step | `PoolExecutorProofs` |
| `HookRunner` | `run_hook`: spawn, polling, deadline, kill, and the process | |
| `HookedPool` | `PoolExecutor` with a call of `run_hook` for each of its hooks | `MCPoolExecutor`, `PoolExecutorProofs` |
| `MapOnce` | the abstract promise of `map_bounded` | |
| `MapBounded` | `src/parallel.rs` | `MCMapBounded`, `MapBoundedProofs` |
| `StatusCache` | `write_atomic`, `load` and `show_status` | `MCStatusCache`, `InventoryProofs` |
| `Inventory` | `discover`, `build_plan`, the commands of a plan, `from_inventory` and `validate`, while others change ZFS | `MCStatusCache`, `InventoryProofs` |
| `Schedule` | when a class is due and its snapshot's name: `src/planner.rs:292-542` | `MCPlanning`, `ScheduleProofs` |
| `Resolve` | `resolve_datasets` with `effective_policy` and the rules of `Config::validate` about names, policies and recursion | `MCPlanning`, `PlannerProofs` |
| `Migration` | `convert_sanoid` from the lines of both files to a configuration | `MCPlanning`, `PlannerProofs` |
| `Message` | `render` and `shorten`, by length | `MCPlanning`, `NotificationProofs` |
| `Delivery` | the end of `main`: selection, retries, report and exit status | `MCDelivery`, `NotificationProofs` |

**How they compose.** `ZsnapRun` takes its lock from `OneRun` (`Lock == INSTANCE
OneRun WITH Procs <- Runs`): `Acquire` is `Lock!Enter`. `RunLock` implements
`OneRun`, which is proved, as long as nothing removes the lock directory.
`ZsnapRun` leaves the order of a pool's commands open and has each pool's worker
act on its own; `PoolExecutor` fixes that order and implements `PoolPromise`,
and `MapBounded` shows that each worker of `ZsnapRun`'s pools runs once.
`Schedule` is what stands behind `ZsnapRun`'s `Preferred`: an abstract sequence of
instants there, the calendar and the time zone here. `Inventory` extends `Resolve`:
an invocation resolves what it has listed, plans, executes and computes its cache;
it is the view of one invocation in full detail, where `ZsnapRun` is the view of
several in less. `Migration` extends `Resolve` too, and what it has converted is
resolved by the same steps as any configuration, so that its property is about
both together. `HookedPool` extends `PoolExecutor` and `HookRunner`: wherever the
first runs a hook in one step, the second is called, and the step is taken with
its result. `MCPlanning` puts the computations that depend on nothing but their
inputs (`Schedule`, `Resolve` with `Migration`, `Message`) into one run, and
`MCStatusCache` what goes into the cache (`Inventory`) and how the file is replaced
(`StatusCache`); in each, a behaviour follows one of them.
`Delivery` starts where `run_zfs_command` returns and takes from `MapOnce` that
all webhooks are worked on or none.

### RunLock

A process walks through the system calls of `acquire` in their order: directory,
open, try_lock, then truncate and write, or read the holder and give up. Files are inodes; `path` is the inode the name refers to, and may be
`None`. The `flock` belongs to a descriptor, so it goes with the process
(`Close`, in `Release` and `Crash`). `DirRemoved` says whether the lock file
lives in a directory that systemd removes when the timer's service stops, as
with `RuntimeDirectory=zsnap` in `packaging/zsnap.service:10` and the default
`/run/zsnap/zsnap.lock`. Inodes are reused when nobody has them open, which
bounds the model without a counter.

### ZsnapRun

A *class* is one snapshot kind of one dataset; the planner treats classes apart,
so a class is the unit of `Due` and `Prunable`; `WantedSnapshots` and `WantedPrunes`
put the classes of a plan together as `filter_plan` leaves them, and `Stages` is where
the worker of each pool starts. `Acquire, Discover, Plan, (pool
steps), Finish, WriteCache, Release` follow `run_zfs_command`. Between any two
steps time passes (`Tick`), an administrator holds, releases or takes a snapshot
(`ToggleHold, ManualSnapshot`; it does not destroy, and a destroy by hand beside a
stale plan may leave less than the configured number, which `RetentionFloor` does
not claim), the process is killed (`Crash`), and with
`OrphansSurvive` the `zfs` commands it had in flight go on (`OrphanEnds`). Due
instants are a set of integers (`Boundaries`), so the calendar is left to
`Schedule`, and the listing is one step, which `Inventory` splits. The three scopes `run`, `snapshot` and `prune` are a choice of
`Acquire`. `exact` and `touched` are history variables that say whether the
count in the cache can be expected to hold.

### PoolExecutor

`plan` is fixed at the start; `todo` and `dels` are the sequences of commands
that `execute_pool` derives from it (`SnapshotWork`, `PruneWork`): rounds by
name index, chunks by batch size, regular before recursive before hooked (`Chosen`
filters the actions of one kind, `Round` takes the i-th name of each). A plan has one
snapshot action per dataset, as `build_plan` makes it. Every
`zfs` command and hook may fail at its step. `commands` and `hooks` are history.

### HookRunner and HookedPool

`runner` is where `run_hook` is in its loop: `poll` before `try_wait`, `check` before
the deadline, `sleep`, and `wait` in `child.wait()` after the kill. `child` is the
process as the kernel sees it; it ends when it likes, also between any two steps
of the loop, and is `killed` for a while before it is dead. `left` counts time, in
no particular unit, down to the deadline. `TryWaitFails` gives up a running
script, as the code does. In `HookedPool` a hook is due where `PoolExecutor`'s next
step is one (`HookDue`); `HookReturns` takes that step with the verdict.

### Inventory

`zfs` is what the pools hold. `ListDatasets`, `ListSnapshots` and `ListPools` are the
three commands of `discover`, and `Others` act between any two steps of the
invocation: they create and destroy datasets with everything below them, take
snapshots by hand and destroy snapshots. A listing fails when a configured
dataset or pool is missing, and may always fail. `Filter` is the scope of the
command; `status` goes from the listing to the cache. Each pool's snapshots are
created before its prunes, `broken` is a pool with an error, and only a run
without one writes the cache. `touched` is a history variable: the datasets others
have changed since the listing began, of which nothing is claimed.

### Migration

A Sanoid file is a sequence of lines, a header or a setting. Names and values are
sequences of strings, as far as the code takes them apart: the components of a
dataset, the elements of a list of templates, the words of a command. `Parse` merges
sections and keeps the first of two settings; `Patch` and `Converted` are
`apply_policy`; `SectionRefused`, `ChildrenOnlyRefused` and `AtomicRefused` are the
places where `convert_sanoid` gives up. `Output` is the generated configuration as
`Config::parse` reads it back, and `Reread` the names it reads otherwise. The final
validation is `Valid` of `Resolve`, where a name is supported if each of its
`Components` is (`ValidName`). What a file
means to Sanoid (`SanoidReaching`, `MeansTheSame`) is read off its lines and does not
use `Parse` nor any template of the output.

### Message

Texts are lengths: so many plain characters and so many that the provider's markup
escapes. Each special character grows to its longest replacement (`&amp;` for Slack,
an indented line break for Flock). The steps are those of `render`: headline,
fields, the opening of the details with what is set aside, one detail after the
other, and the closing with the line that counts what is omitted.

### MapBounded

The caller's pc and the workers' states; taking an item is atomic, as in the
code, under the queue's mutex. `PanicAborts` says what a panic may do, which
depends on the build; the run allows both, a superset of each: the release
profile sets `panic = "abort"` (`Cargo.toml:30`), so a panic there ends every
thread, and the sentence "Worker panics are re-raised in the caller"
(`src/parallel.rs:7`) holds for unwinding builds.

### Delivery

`answers` is the history of what each endpoint made of each attempt. `lost` is a
request the endpoint accepted while the sender saw a timeout. Every `Ok` of `send` is
an acceptance, as it is for the code: a redirect, of which three are followed, is not
told apart from an answer (`Sent`). The concurrency
bound of the workers is left out: it only removes interleavings. `DeliverFails`
is an unreadable or malformed `webhooks.env`, or no thread.

### StatusCache

A *version* is a listing and the file written from it; versions are numbered in
the order of the listings, which the lock (`Lock!Enter` of `OneRun` again) makes
the order of the writes. A file has contents as the page cache has them, may be
`synced`, and has a temporary name, the cache's name (`path`), or neither.
`disk` is the set of files the cache's name may stand for on the disk: a rename
adds one, the synchronized directory leaves one, a power failure picks one. A
reader holds the file it has opened, not the name. `acked`, `floor` and `killed`
are history.

### Schedule

`zone`, `schedule` (a kind with its policy) and the calendar are inputs; `now`
moves by one tick, the code's minute, and the planner may take a due snapshot at
any of them. `MostRecentPreferred` is the code's way to the boundary: a candidate
from the civil date of now, up to four steps back, the gap around a skipped time
found by searching both ways, the latest of two occurrences. `boundary` is a
history variable that knows nothing of that: it remembers the last instant at
which the wall clock showed a scheduled time (`IsBoundary`). A candidate that is in
no year, or that no time can be found for around a gap (`Shown`), is an error for
the whole plan, here `None`. A zone moves its clocks once, by `shift`, and back, and
leaves them alone for twice that long. A policy has one
`hour` and one `min`, which stand for `daily_hour`, `weekly_hour` and so on; a
kind reads only its own.

### Resolve

A dataset is the sequence of its name's components, so that `starts_with("{root}/")`
is a proper prefix. One step is one round of the loop over the sections. The
value of a policy field is where it was set: a section, a template, or nowhere.
`Meant` states the rule without any order: each field comes from the nearest
section that reaches the dataset and sets it.

## 3. Runs

| Run | Question | Bounds |
| --- | --- | --- |
| `lock_cron` | one process in the region; its PID in the file; no lock outlives its process; implements `OneRun`; an acquire never waits | 2 manual processes, a timer, 3 inodes, directory kept |
| `lock_overlap` (violation) | mutual exclusion with the directory removed | 1 manual process, a timer, 2 inodes |
| `lock_holder` (violation) | the reported PID holds the lock | as `lock_cron` |
| `run_pools` | one snapshot per class and instant; true cache; success means fresh; the lock is released | 2 processes, 2 invocations, a class in each of 2 pools, times 3..4, 1 administrator's act |
| `run_orphans` | retention beside orphaned commands | the same processes, 1 class, times 3..6 |
| `run_race` (violation) | one snapshot per instant beside orphans | 1 class, times 3..5 |
| `executor_plans` | well-formed commands; scripts pair up; error-free means complete; the promise; no command beside a script; termination | 3 datasets, 0..2 names each, plain or recursive, batch size 2; all combinations of hook options; timeouts none, 1 and 2 |
| `map_calls` | all of section 1's list for `map_bounded`, and that it returns | 4 items, up to 3 threads, both kinds of panic |
| `status_cache` | readers find a whole and current cache; nothing written is lost; no litter; torn listings are consistent enough, and the counts are true | 3 processes, 2 listings, symmetry; 3 configurations over 4 datasets in 2 pools, 2 contents of ZFS, times 0..1, 1 change by others |
| `planning` | the boundary is the last scheduled instant, names differ, one snapshot per boundary; the nearest section decides, one command per dataset; a migration keeps the meaning; messages arrive whole | 5 zones, every kind, a calendar of 26 days over five years, 128 ticks with both transitions, a year's end and a leap day; up to 3 sections over 4 datasets; 1178 pairs of Sanoid files; 11715 renderings |
| `delivery` | truth of the report, repetitions, exit status; the process exits | 2 webhooks of 5 kinds, 3 attempts |
| `delivery_retry` (violation) | a reported failure is one | 1 webhook, 2 attempts |

**Why these bounds are enough to be interesting.** Two processes are enough
to lose the lock, as `lock_overlap` shows: the timer run is refused, takes the
directory with it, and starts again beside the manual run. A third can be refused
by either, and a third inode lets a stale descriptor exist beside two live
ones. In `ZsnapRun` the boundaries are every two ticks and
the inventory holds, at the start, a snapshot past its window and a class that is
due, so both a creation and a prune happen in the first run and the clock can
pass the next boundary during it; a second run then meets the state the first
left. Batch size 2 with up to three datasets of up to two names gives full
chunks, remainders, and rounds of different lengths. Four items on three threads
let a worker take two items and another take none. The calendar of `planning` has
four ticks an hour, four hours a day, three days a week and two months a year,
which keeps every comparison the code makes: the searched range is three hours,
as in the code, the longest gap one hour, and both transitions meet schedules
before, in and after the gap, on the first and the last day of a month, and at
midnight. Two versions let a reader hold the old file while the new one is
renamed over it, and a power failure choose between both and none. One change by
others may fall between any two steps of an invocation, also after it, so it tears
one listing from the next, removes a dataset before its snapshot, adds one under a
recursive root, or makes a command fail; the configurations have an atomic root,
sections without their root, a child with another policy, and a deferral that the
capacities 0 and 60 decide. Timeouts of 1 and 2 let a script end before, at and
after the deadline, and beside the kill. The parts of the Sanoid files are put
together so that every setting is once in the defaults file, the user's defaults,
a template and a section, templates are stacked in both orders, a section is
written in two parts, and inheritance meets each mode of recursion; every reason
for a refusal has a file of its own, and so has each exception of
`OnlyNamesOrValuesInvalid`. A boundary is caught up within three ticks or replaced by the next one
(`MaxLate`). Three sections are a chain, a sibling and every recursion mode on each. Three attempts let a webhook
fail twice differently before the last.

**Deadlock** is checked for `RunLock`, `StatusCache` and `Inventory`. The other systems
stop when all work is done (a bounded number of runs, a finished plan, a returned
call, an exit), so their configurations switch the check off; that they stop only
there is what `LockReleased`, `Terminates`, `Returns` and `Exits` say. Time in
`planning` ends at `End`, and a resolution or a message is done.

**Mutants.** Next to a definition stands, marked `Mutant:`, the bug that the
property it belongs to must catch: `Chunks` and `ChunksExact`, `Due` and
`DueByAge`, `Deadline` and `DeadlineReturns`. They are never part of a specification.

**Types.** The type invariant of `RunLock` is checked and proved, those of `MapBounded`,
`ZsnapRun`, `PoolExecutor`, `StatusCache` and `Delivery` are proved as parts of the
invariants of section 5. The other modules declare the types of their variables in
comments; the runs spend their time on the rest.

### Fairness

- `RunLock.FairSpec`: a process takes its next step of `acquire`. Each is a
  system call that returns. Nothing is assumed of holding or releasing.
- `ZsnapRun.FairSpec`: weak fairness of a run's steps. `zfs` commands end; one
  that hangs for ever hangs zsnap, which has no timeout for them
  (`executor.rs:409`).
- `HookedPool.HookedSpec`: the worker goes on, `zfs` commands end, time passes, and
  the kernel ends what is killed. A script with a timeout may go on for ever by
  itself; one without is trusted to end, since `run_hook` has no other way out.
- `MapBounded.FairSpec`: threads are scheduled and the work on an item ends.
- `Delivery.FairSpec`: an attempt ends, since `timeout_global` bounds it.

## 4. What the code does otherwise than it says

1. **The lock does not cover a manual run that a timer overlaps**
   (`lock_overlap`). The lock file is in the `RuntimeDirectory` of the service.
   A timer run refused by a manual one stops the service, systemd removes the
   directory with the locked file in it, and the next invocation locks a new
   file. `README.md:97-99` promises one mutating invocation "even when a timer
   overlaps a manual run".
2. **A refusal may name a process that is long gone** (`lock_holder`). The PID of
   the last holder stays in the file until the next one has written its own.
3. **A killed run's `zfs snapshot` is outside the lock** (`run_race`): the next
   run may create the same class for the same instant again. Retention is
   kept all the same (`run_orphans`).
4. **A retry that succeeds counts as failed** (`delivery_retry`).
   `delivery.error` keeps what an earlier attempt left; with `fail_on_error` a
   successful run whose message was delivered exits with an error.

More, which no run is about:

- `zsnap check` accepts a yearly date that no year has, such as 02-30
  (`config.rs:479-486` checks month and day apart), although `README.md:388-390`
  says that invalid schedules are rejected; every plan that has to look at it
  then fails, for all datasets (`planner.rs:541`). `BoundaryIsLatest` shows that
  nothing else does: among valid schedules, the only ones without a boundary
  are those whose date is in no year.
- Where the clocks are put back across a scheduled time in a way its unit does not
  fit, the planner, which goes back from the second pass of an hour, overlooks what
  was scheduled in the first: an hourly schedule with a transition of two hours
  (Antarctica/Troll), a `frequent_period` of 4, 12 or 20 minutes with one of half an
  hour (Lord Howe), a daily time in an hour repeated across midnight. Nothing in the
  repository claims otherwise. `Undisturbed` says where it cannot happen, and
  `PlannerFindsLatest` proves that; every zone and schedule of `planning` is of that
  kind. A gap of more than three hours (a day skipped at the date line) is an error
  for every plan that meets it (`planner.rs:485`).
- The migration writes a pool named `datasets.x` without quotes as `[datasets.x]`,
  which is then read as the TOML table of dataset `x` (`config.rs:739`): the output
  validates and manages another dataset, although `README.md:652-654` says that
  what cannot be converted stops the conversion. The names `settings.x`,
  `notifications.x`, `templates.x` and `version.x` make the output unreadable, which is
  reported. `Reread` models both. No file of `planning` names such a pool by
  itself, of which `MigrationKeepsMeaning` would not hold (`Mistaken` excepts it), and
  `OnlyNamesOrValuesInvalid` excepts the unreadable ones.
- `convert_sanoid` does not look at the characters of names. A section or path such
  as `tank/my data` or `tank//x` is written in quotes and stops the conversion only at
  its final validation (`config.rs:545`, `migration.rs:253-255`), which names the
  dataset but no line of the Sanoid file; so does a template whose name the `toml`
  crate writes as something that is no key, as names with both kinds of quotes
  may be (`NoKeys`; what that crate does is external, and the theorem holds for any
  such set). Of numbers, too, only the final validation checks the range.
  `OnlyNamesOrValuesInvalid` says that nothing else gets that far.
- "Each webhook is independent" (`README.md:475`) is true of the deliveries. A
  `webhooks.env` that cannot be read or has a malformed line fails all of them before
  the first (`notification.rs:155`), those with a URL in the configuration included
  (`DeliverFails`).
- A section with `use_template = sanoid_user_defaults` in a file that has a
  `[template_default]` but no such template is not refused as one with any other
  missing template is: the name is that of a template the conversion generates, and
  the check skips it (`migration.rs:188-191`). The section then has the user's
  defaults as a template, which override what it would inherit. It came up in the
  proof of `MigrationKeepsMeaning`, which needs that the generated names are not
  those of the file; `Mistaken` excepts it, too.
- "Always show the first error" (`notification.rs:419`) does not hold when escaping
  lengthens it past the budget: a detail is shortened before it is escaped, so an
  error full of `&` on Slack, or of line breaks on Flock, is left out and counted
  instead, together with all others. `ArrivesWhole` claims it for Discord alone, where
  a detail does not grow.
- A script that cannot be killed (uninterruptible sleep) makes `child.wait()` hang in
  spite of the timeout (`executor.rs:552`); an error of `try_wait` leaves the script
  running beside what follows (`executor.rs:542`). `kill` reaches the shell, not its
  children.
- A torn listing makes the cache miss a dataset created during it, or count a
  snapshot for one destroyed since, until the next run. `CountsTrue` shows that this is
  limited to the datasets that others changed.
- `build_plan`'s "pool is missing from the zpool inventory" and `resolve_datasets`'s
  "configured dataset does not exist" cannot happen after `discover`
  (`TornListingAccepted`): the listings themselves fail first.

## 5. Proofs

Every theorem holds for every value of the constants that the named assumption of
its module allows. The assumptions are types, finiteness where something is
counted, and what other code guarantees: at most one snapshot action per dataset
in a plan (`PoolExecutorAssumption`; `OneCommandEach` and the map of `build_plan` are
the reason), a reserve that holds the overflow line (`MessageAssumption`, a constant
of the code), a scheduled instant before every clock reading
(`ZsnapRunAssumption`), transitions farther apart than the clocks move
(`ScheduleAssumption`), names with at least one component
(`InventoryAssumption`), and for the migration (`MigrationAssumption`) Sanoid's own
defaults among the valid values and no hook in the default policy, constants of the
code, and that templates numbered otherwise are named otherwise, since the provers
know nothing of `ToString`. The runs evaluate all of them. Each invariant was checked by
TLC on the module's run before it was proved.

`RunLockProofs` proves, for any set of processes and inodes:

- `TypeCorrect`: `Spec => []TypeOK`.
- `NeverOrphaned`, `PidStaysOnFile`: with or without directory removal, a lock
  belongs to a live process inside the region, and the locked file keeps its
  holder's PID. No run removes the directory and checks these two; the theorems
  need no such run, and `lock_overlap` shows what is lost.
- `Mutex`, `Refinement`: if nothing removes the directory, `MutualExclusion`
  holds and `RunLock` implements `OneRun`.

The argument has two invariants. `FlockInv` is about each inode alone: whoever
is past `try_lock` on an inode owns its flock, and nobody else does; it is
inductive whatever happens to the directory, because closing a descriptor only
ever releases the closer's own lock (`CloseKeeps`). `OnPath` adds that every
open descriptor is on the inode the path names. Only then does "one owner per
inode" mean "one owner" (`OneOwner`), and `OnPath` is inductive only without
`ServiceStop` removing the directory: the proof needs the assumption exactly
where run `lock_overlap` finds the violation. `Refinement` maps `mutators` to
the processes in the region; every step enters, leaves or stutters
(`RegionStep`).

`ZsnapRunProofs` proves, for any number of runs, pools, datasets and classes, any
retention and schedule:

- `RunTypes`: `Spec => []TypeOK`.
- `PruneKeepsFloor`: `Spec => RetentionFloor`, an action property, with or without
  orphaned commands.
- `OneForEachPeriod`: `~OrphansSurvive => (Spec => []OnePerPeriod)`.
- `SuccessIsFresh`, `CacheTellsTruth`: `Spec => []SuccessMeansFresh`,
  `Spec => []CacheTruthful`.

None of these is inductive, since a plan is made from a listing that is stale by
the time its commands run. `FloorKept` counts on the snapshots that no command will
touch: whatever some run or orphan will still destroy (`Doomed`), or has vanished
since it was listed, has `Keep` newer snapshots of its class that are not doomed. A
new plan keeps it because `Prunable` spares the newest `Keep` of what it has listed,
and of those only snapshots already covered by `FloorKept` can be gone (`Vanished`).
`Behind` is what makes a class be taken once: while a run has a class to take,
nobody else takes a managed snapshot of it; only here the lock (`Exclusive`) and
the absence of orphans are needed, which is where `run_race` finds the violation.
`Fresh` says what a class that is not to be taken any more has, and `Foretold` that
the forecast of an undisturbed run is what exists less what it will destroy and
more what it will take. The other parts (`Structure, Planned, Aged, Listed`) say where
a worker can be and what its plan can hold.

`PoolExecutorProofs` proves, for any plan of a pool and any batch sizes:

- `PoolTypes`, `CommandsWellFormed`, `PlanCarriedOut`, `HooksPaired`: `[]TypeOK`,
  `[]WellFormedCommands`, `[]SuccessIsComplete`, `[]PostFollowsPre`.
- `PromiseKept`: `Spec => KeepsPromise`, the refinement of `PoolPromise`, where a
  batch is what a step adds to `made` or `gone`.
- `NothingBesideAHook`: `HookedSpec => OneProcessAtATime`; `WorkerWithHooks`: with
  the hooks as processes, all of the above still holds.

Half of it is about data: what `FlattenSeq` and chunking make of a sequence
(`Flattened`, `Chunked`), hence that the commands derived from a plan have each name
of it once and no two of a dataset together (`BatchTargets`, `WorkOfPlan`,
`PrunesOfPlan`). The invariant has a part per question: what is left is a
subsequence of that work (`Left`, `SoundWork`), where the worker is (`Position`), what
an error-free report excludes (`ErrorsCount`), that every planned name is done or is
left (`Carried`), and which scripts have run (`Paired`). `CallInv` follows one call of
`run_hook` (`HookOK`: no process before it and after it, a killed one only past the
deadline) and says that the worker is inside a call only where its next step is
one. The order of the worker's steps does not matter to that proof.

`MapBoundedProofs` proves, for any number of items and threads and both builds:

- `TypeIsCorrect`: the type invariant.
- `EachItemOnce`: `Spec => []ExactlyOnce`.
- `NothingRunning`: `Spec => []NoneLeftRunning`.
- `KeepsPromise`: `Spec => ImplementsMapOnce`.
- `OutputInOrder`: `Spec => []InputOrder`.

`ExactlyOnce` is not inductive as it stands. The strengthening `Inv` adds what
the code relies on without saying: an item is held exactly while it is worked on
or was lost to a panic, workers beyond `spawned` are unborn, a worker returns
only when the queue is empty, and every handle before `joined` has returned. The
last three give `JoinedAll`: `ok` is reached only with an empty queue and no
panic. That nothing is left running (`OverEnded`) is in turn what makes a worker's
step impossible after the call is over, which the refinement needs. For the order,
`Results` says that the workers' results are those of distinct items; that such a
set has one sorted sequence, and `SetToSortSeq` is it, is a lemma by least
cardinality.

`InventoryProofs` proves, for any configuration, holdings of ZFS and changes by others:

- `ListingsSuffice`: `InventorySpec => []TornListingAccepted`.
- `CacheCountsTrue`: `InventorySpec => []CountsTrue`.

`Shape` says what each step of an invocation may rely on: every listing stays
beneath the configured datasets (`Listings`), the first has all of them and the
third their pools (`Ready`), a plan destroys only managed snapshots that were listed
(`Planned`), and nothing is left of an earlier invocation (`Blank`). `Accounts` is the
balance of a dataset that nobody else touches: what it has, and what of its prunes
is done, is what was listed and what the actions reaching it have taken so far
(`Balance`); a command changes both sides alike or breaks the run. The sums of the
code are `SumFunctionOnSet`, of which the first lemmas say that it is a number, grows
with its parts and does not depend on their order.

For the file of the cache, the same module proves, for any processes and number of
versions:
`CacheAlwaysReadable`, `CacheNeverBehind`, `CacheShowsCurrent`, `CacheNoLitter` (and
`CacheTypes`). The argument goes from the lock to the file: one writer
(`OneWriter`) has the newest version (`WritesNewest`), which nobody reads (`Apart`); it
gets the cache's name only when it is whole and synchronized (`Progress`), hence
whatever the name stands for, now or after a power failure, is whole, on the disk
(`Published`) and no older than what was acknowledged (`Acknowledged`).

`ScheduleProofs` proves, for any calendar, any schedule that `Policy::validate`
accepts and any zone whose clocks move once, by any amount, and back:

- `NamesNeverClash`: `ScheduleSpec => []NamesDistinct`.
- `OneSnapshotPerBoundary`: `ScheduleSpec => OncePerBoundary`, an action property.
- `PlannerFindsLatest`: if the calendar is regular (`RegularCalendar`: its days are in
  order, its years are whole and without a break, the runs begin four weeks after its
  first day), then `ScheduleSpec /\ Undisturbed(zone, schedule) => []BoundaryIsLatest`.

The invariant `Planned` says that `boundary` is the last instant up to now that the
schedule asked for. What `most_recent_preferred` returns is a scheduled time's
instant that has passed (`PreferredIsAskedFor`): that needs nothing of the calendar or the
zone, and is all that `OneSnapshotPerBoundary` needs. The planner may well compute a
boundary that is too old; it then takes no snapshot, but never a second one.

That it computes the last one needs both hypotheses. On a regular calendar the first
candidate is the last scheduled time of the present unit (`FirstIsLast`), and each other
is the last before its predecessor (`PreviousIsLast`), with month ends, leap days and
the short February included. A clock shows later times later but where it is put
back (`ClockRuns`), and has shown all that it does not skip (`ClockShows`); a skipped
time stands for what is shown a gap later (`SkippedForward`). So every boundary stands for a scheduled
time that the first candidate does not precede (`BoundaryBefore`), and a candidate
that is found is not before the boundary (`FoundInOrder`): this is where two scheduled
times in the repeated hour would be confused, and where `Undisturbed` is needed. The
first candidate may be ahead of now and the second skipped and not yet made up for;
the third is found (`PreferredNotBefore`), so the code's four tries are one more than enough.
`MCRegular` has TLC evaluate the hypotheses for the calendar, zones and schedules of
`planning`. Beyond that run, TLC found no counterexample among shifts of ten
minutes to two hours in both directions, transitions at every sixth of an hour and
sixty schedules, and finds one where the conditions of `Undisturbed` are dropped.

`PlannerProofs` proves, for any configuration that `Config::validate` accepts, any
datasets, and any lines of Sanoid's:

- `NearestSectionDecides`: `ResolveSpec => []NearestSectionWins`.
- `OneCommandEach`: `ResolveSpec => []OneSnapshotEach`.
- `RefusedBeforeValidation`: `MigrationSpec => []OnlyNamesOrValuesInvalid`.
- `ConversionKeepsMeaning`: `MigrationSpec => []MigrationKeepsMeaning`.

The invariant of the resolution is what its rounds have done so far: a dataset is
managed when a section already taken reaches it, each of its fields is that of the
nearest such section that sets it, and its strategy that of the nearest one
(`Managed, Policies, Strategies`). A round overwrites the policy of every target
with one that started from the section's own dataset; that this loses nothing
(`Inherited`) needs the order of the rounds (`Ordered`) and that names are a tree
(`OneBranch`). `OneCommandEach` needs in addition that nothing is configured beneath
an atomic root.

For the migration, `Understood` is what the loop of `parse_sanoid` keeps: the current
section is that of the last header, and each section has the first of its settings
of each key. So every value that is written comes from a line (`SettingsSaid`) or from
Sanoid's own defaults, the list of templates names only generated ones
(`TemplatesWritten`), and the rules of `Config::validate` hold because
`SectionsRefused`, `ChildrenOnlyRefused` and `AtomicRefused` did not (`WrittenValid`),
once names are supported and values in range (`Named`, `Fine`).

That the conversion keeps the meaning of a file is the composition of both. Once
a file is converted, the configuration is one that the loop can start from
(`WrittenStarts`), and what `NearestSectionWins` says of the result is carried
back to the lines of the file (`MigrationIInv`):

- Each section becomes one section, under its dataset's name (`SectionsWritten`),
  with the same recursion (`RecursionRead`) and leaving out its own dataset just if
  Sanoid does (`ChildrenOnlyRead`), so the same sections reach a dataset
  (`ReachesTheSame`).
- Generated names are new (`UniqueIsNew`, `GeneratedNew`: as many numbers are tried as
  there are templates, and one more), so each template that a section uses has the
  settings that Sanoid's has. Leaving out from a list the defaults that a file lacks
  keeps which of the rest is last (`LastIsKept`, `LayersKept`).
- What a section sets in the output is therefore what it says in the file, or the
  defaults (`SectionValues`). The defaults are put only beneath no recursive section:
  the farthest section that reaches a dataset has them (`FarthestHasDefaults`), and
  none between it and the dataset has them again (`NoDefaultsBetween`). So they
  never override a setting of an ancestor, which is what the mutant of
  `MigrationKeepsMeaning` breaks.

`NotificationProofs` proves:

- `MessageArrivesWhole`: `MessageSpec => []ArrivesWhole`, for any notice and limits.
- `DeliveryRepeats`, `DeliveryBounded`, `DeliveryNoFalseSuccess`,
  `DeliveryKeepsResult`: for any webhooks and number of attempts,
  `[]OnlyLostIsRepeated`, that no endpoint gets more than `MaxAttempts` requests,
  `[]NoFalseSuccess` and `[]ZfsResultKept`.

`ArrivesWhole` is about the end; `BudgetInv` says what every step keeps: the text, what
is left of the budget, the fence and the reserve never exceed the message, and
before the first detail they make it up. That is where the reserve is needed, and
where the mutant `OpenDetailsNoReserve` fails. The growth of a detail drops out:
whatever its length, the line is compared with the budget after it was escaped. In
`Delivery` answers are counted by attempts (`Attempted`), all of them were worth a
retry while the sender goes on (`Repeated`), a sender that is through has noted an
error or was accepted (`Concluded`), and main looks at the report only when all are
through (`InOrder`).

**Induction over data.** The library's induction theorems take an operator as a
parameter, which no installed prover can instantiate. Its first-order fact that `<`
on the naturals is well-founded can be used instead: of the sizes at which a
statement fails there is a least one (`Least`), which is then refuted. That is how
the lemmas about recursive functions and folds are proved (`MergeExists`,
`Concatenations`, `SumRemove`, `ParseUnderstands`).

**Only model-checked**: liveness (`AcquireDecides, LockReleased, Terminates,
Returns, Exits`), which TLAPS cannot prove under fairness. Every other property of a
passing run is the conclusion of a theorem. What the violating runs refute is not:
there the theorems say what still holds.

## 6. Not modelled, and the plan

Left out on purpose: argument parsing, tables, JSON, logs, the wording of notices,
installers and OpenRC scripts (no state that a property is about); dry runs and
`plan` (they change nothing); the text of a configuration (TOML, shorthands, the
parsing of `webhooks.env`) beyond the headers the migration writes; the parsers of
command output beyond what they keep; the checks of settings, hooks and webhooks,
which look at one value each.

Planned, in this order:

1. `Retention`: the prune loop as a recursive function against the closed form
   that `Prunable` and `Excess` use.
2. `webhooks.env` and `resolve_url`: which webhook gets which URL.
3. The validation of destroy commands (`executor.rs:429-467`) against the names the
   planner may produce.

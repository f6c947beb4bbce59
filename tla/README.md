# TLA+ models of the charybdis / construct runtime

This directory holds TLA+ models of the parts of the server whose
correctness depends on interleavings: above all the cooperative context
scheduler `ircd::ctx` (`src/unnamed/part_003`, with `this_ctx.h` in
`src/modules/s_conf.cc`). `PROJECT.json` lists every component of the
sources, the runs, the mutants, the map from each definition to its source
lines, the findings, and the hazards.

## The system's parts and how they interact

| part | source | state | operations |
|---|---|---|---|
| ctx scheduler | part_003:29-437 | per context: `notes`, the INTERRUPTED flag, the `alarm` timer, `yc` (started/finished), `adjoindre`; globally the io_service handler queue and `current` | `note`/`notify`, `wake`, `wait`, `interrupt`, `interruption_point`, `this_ctx::wait/wait_for/wait_until/sleep_until/yield`, `ctx::operator()` and its atexit unwind, `continuation` |
| context handle | part_003:439-550 | `unique_ptr<ctx>` | ctor (POST, DISPATCH or inline spawn), `~context` (interrupt, join, delete), `join`, `detach` |
| pool | part_003:557-659 | closure queue, worker contexts, `available`, a dock | `operator()`, `add`, `del`, `join`, `interrupt`, `main`, `next` |
| prof | part_003:666-790 | slice start time, `awake` | marks on enter/leave/yield/continue (measurement and logs only) |
| ole offload | part_003:795-911 | a mutex-protected closure queue, a worker OS thread, `interruption` | `offload`, `push`, `pop`, `worker`, `init`, `~init` |
| view | include/ircd/ctx/view.h | `t`, `waiting`, a dock, a mutex | `notify` (producer), `wait`/`wait_until` (consumers) |
| event conforms | part_002:780-1037 | a 64-bit `report` | ctor checks, `set`, `del`, `has`, `string`, `clean` |
| m init | part_006 | `_dbs`, `_fetch`, `_modules`, `mods::imports` | `on_load`, `on_unload`, `init_imports`, `fini_imports` |
| console | part_005 | the `cmds` set | `init_cmds`, `find_cmd`, `console_command`, command bodies |
| listeners | part_004:1-186 | `listeners` list | `load_listener`, `unload_listener`, `loaded_listener`, `_listener_proffer` |
| s_conf | modules/s_conf.cc | `conf_on_init_iter`, `item_error_log` | module init/fini, `rehash_on_run` (a POST context), `default_conf`, `rehash_conf`, `reload_conf`, `refresh_conf` (called from the console's `conf` commands) |
| magick | modules/media/magick.cc | GraphicsMagick's process-wide handler table and log method | `init`, `fini`, `call`, `callex`, `callpf`, the handlers |
| bridge, allocator, dl hooks, llvm, keys | various | library state | I/O and library glue |

Everything runs on one OS thread, the io_service thread, except the ole
worker thread. Contexts are coroutines: a context runs until it suspends in
`ctx::wait()` (on its `alarm` timer) or finishes; `note()` raises `notes`
and, on the 0 -> 1 transition, cancels the alarm, whose completion queues
the handler that resumes the context. A context spawned without POST
runs at once on top of its parent, which continues only when the child
suspends or finishes. The ole worker hands results back by posting a
closure to the context's strand; pools and views are built from contexts,
notes and docks.

The hard behaviours are interleavings of contexts at their suspension
points; a note, an interrupt or a timer expiry arriving while the target
is, or is not, suspended; closures that refer to a frame that can unwind
(`yield`, `offload`); joins and deletes of contexts that have not started or
not finished; and the offload worker thread running in parallel.

## Modules

### `Ctx` (the scheduler and the context handle)

State (VARIABLES) and where it is in the code:

- `cstate[c]`: `idle` (not constructed), `posted` (spawn handler queued),
  `running`, `inline` (running a child spawned inline on top of it),
  `waiting` (suspended in `ctx::wait`), `finished` (`yc == nullptr` after
  the atexit unwind).
- `pc[c]`: the next call of `Prog[c]`, the function the context runs.
- `notes`, `interrupted`, `adjoindre`: the ctx members.
- `alarm[c]`: whether an `async_wait` is pending on the alarm, and whether
  its deadline is infinite (`wait()`, `yield`, `join`) or finite
  (`wait_for`, `sleep_until`) so that it may expire.
- `stack`: the contexts running inline, innermost (= `current`) last.
- `iosq`: the io_service FIFO of handlers: `spawn` (the POST closure),
  `resume` (the alarm completion, with its error code) and `restore`
  (yield's posted closure).
- `yframe`, `ydone`: whether a `this_ctx::yield` frame is live and its
  `done` local.
- `ownership[c]`: `owned` while a `context` handle owns the ctx,
  `detached` once the DETACH flag is set (constructed with `DETACH`, or
  `detach()`), and `deleted` after `~context`'s delete or the unwind's
  `delete this`.

Each context runs a program: a sequence of calls of the ctx interface
(`wait`, `wait_for`, `sleep`, `yield`, `ipoint`, `notify t`, `interrupt t`,
`join t`, `spawn t` with POST or inline and with or without DETACH,
`free t`, `detach t`). One action per call
translates the called function: `WaitCall` is `ctx::wait()`, `note` and
`wake` are `ctx::note()`/`ctx::wake()` as state transformers on the
(notes, alarm, queue) record so that they compose inside one step. The
io_service loop is `RunSpawn` (`ctx::operator()`, with the precocious
interrupt return), `RunResume` (the alarm completion: `~continuation` sets
notes to 1, then the interruption point, which may end the function) and
`RunRestore` (yield's closure). `TimerFire` is a finite alarm expiring.
`Exited` is the atexit unwind (notify `adjoindre`); `SelfDelete`, its
last line (`if(flags & DETACH) delete this`), is a conjunct of every
action that ends a function: a return, a throwing interruption point, an
interrupted resume and the precocious-interrupt return. `Detach` is
`context::detach()`; `Free` deletes only an owned ctx, since a released
handle is empty.

Fairness: weak fairness on every context's next call, on the io_service
loop and on timer expiry. The io_service thread runs handlers as long as
it has any, a running context proceeds to its next call, and a finite
deadline eventually passes. Nothing else is assumed: a context suspended
on an infinite alarm is resumed only by a cancel.

`CHECK_DEADLOCK FALSE` is set in the passing run because an io_service with
no work and every context finished or suspended simply idles; a hang is
caught by the liveness property `AllFinish` instead.

### `Ole` (the offload worker thread)

`Ole` extends `Ctx` with the worker OS thread of `ole::init`. Its state:
`oleq` (the mutex-protected closure queue; an entry is the offloading
context, whose frame the closure refers to), `wjob` (the closure the worker
is running), `interruption` and `wstate`. Actions: `OffloadEnter` (the
`offload` frame: `push`, then the first `wait()` of `do wait(); while(!done)`),
`OffloadLoop` (the loop after each resume), `WorkerPop` (`pop`), `WorkerKick`
(the closure ran; `signal(*context, kick)` posts `kick` to the strand, which
sets `done` and notes the context), `WorkerExit` (`pop` throws `interrupted`
on an empty queue after `~init`), `OleFini`/`OleJoin` (`~init` sets
`interruption`, then `thread->join()` blocks the io_service thread until
the worker exits). The worker thread is fair (the OS schedules it).

### `Pool` (worker contexts over a dock)

`Pool` extends `Ctx` with `queue` (the closure queue), `available`,
`dockq` (the dock's FIFO of waiting contexts), `ppc` (where each worker is
in `pool::main`/`next`) and `job`. `MainEnter` is `++available`; `Take` is
the dock wait returning with a non-empty queue, `--available`, pop front;
`DockWait` is the dock's wait on an empty queue; `RunFunc` runs the
closure, which suspends once with a deadline; `FuncReturn` is `next`'s
unwind `++available`; `WorkerUnwind` replaces `Ctx`'s interrupted
`RunResume` for a worker by the same step plus the pool unwinds (leave the
dock, `--available` from `main`'s unwind when docked; both unwinds cancel
when inside the closure). `Submit` is `operator()`: push, then
`dock.notify_one()`. The dock's header is not in the sources; its `wait`
and `notify_one` are modelled from the spec (a FIFO of waiters; notify
notes the front). `add` and `~pool` are the owner's POST spawns and the
interrupt/join/delete of each worker in its program.

### `PoolQueue` (what the pool promises)

The abstract pool has no contexts, dock or count. `pending` is the
sequence of submitted closures and `running` is the closure each worker
runs (0 for none). `Enqueue(j)` appends a closure. `Start(w)` gives a
worker that runs none the oldest pending closure. `Finish(w)` ends the
closure the worker runs, with weak fairness. `Runtime` instantiates it
and checks it as a property of `runtime_main`.

### `Runtime` (the pool and the offload thread on one scheduler)

`Runtime` extends `Pool` and `Ole`. A pool step leaves the offload state
alone, and an offload step leaves the pool's alone. Ctx's steps and the
io_service loop leave both alone, except that a pool worker's interrupted
resume is `WorkerUnwind`. The two facilities interact only through the
scheduler they share: the io_service queue, `current`, and the contexts'
notes and alarms. The fairness is the union of `Pool`'s and `Ole`'s.

### `View` (one producer, consumers, `ctx::view`)

`View` extends `Ctx` with the view's members `t` (the shown object, 0 for
none) and `waiting`, the dock `vdock`, the mutex (`mowner`, and its queue
`mq`), and `vpc`, where each context is inside `notify` or `wait`. Two
calls are added to the program language: `vwait` (`view::wait`, returning
with the lock held), `vwaitu` (`view::wait_until(lock, tp)`) and
`vnotify k` (show object `k`); `vunlock` releases the lock the consumer
holds. `wait_until` has the same two loops as `wait`, but each dock wait
is `q.wait_until(tp)` on an alarm that may expire (`DockWaitKind`), and
its result is ignored: after the deadline the consumer loops, re-arming
an expired alarm at every turn, until the view is ready or it is
interrupted. The actions follow the code line by line:
`MutexLock`, `Loop1` (`for(; ready(); ) q.wait()`: wait for the previous
object to be cleared, on entry),
`Loop2` (`++waiting`, wait until `t` is set, `--waiting`,
`notify_all`), `DockWait`/`DockReturn` (the dock's wait unlocks, suspends
and relocks), `ViewDone`, and for the producer `Notify0` (`t = &value`,
`notify_all`, return if nobody waits), `NotifyWait` and `NotifyClear`
(`t = nullptr`, `notify_all`). `ViewUnwind` replaces the interrupted
resume of a context inside `wait` by the same step plus the unwinds that
the code has (`waiting`'s scope guard, the lock). The mutex and dock
headers are not in the sources; they are modelled from the spec (FIFO
waiters; `notify_all` notes every waiter in order).

### `Conforms` (the event conformity bitset)

A pure module. `report` is a natural number kept below `2^NumCodes`;
`set`, `del`, `has`, `clean`, `string` and both `reflect` functions are
operators on it with the `Bitwise` module. `conforms(e)` is the ctor: one
`SetIf` per check of the code, in the code's order, including the nested
loops over `prev_events`/`prev_state` (`PrevInner`, `PrevOuter`,
recursive). An event is a record of abstract fields: an id is valid or
not and has a host, membership is empty, lower case or mixed. The
reference `Violated(e)` states each check as a set of names. The state
machine applies the skip ctor and then `|=` and `del` with small inputs so
that the mutators are checked too.

### `MInit` (the matrix module's start and stop)

`phase` is where `on_load`/`on_unload` is; `dbs`, `fetch`, `mods` are
`_dbs`, `_fetch`, `_modules`; `imports` is `mods::imports` in load order
(a `std::map` keyed by name: an emplace of a present name is a no-op);
`i` is the position of the running loop over `module_names`. Every step
of `on_load` may throw (`Fail`); `Import` is one iteration of
`init_imports` (load, already present, or throw: continue if optional,
else the constructor's exceptional unwind runs `fini_imports`);
`Bootstrap` runs for an empty database and may throw; `UnloadListen`,
`Signoff`, `Fini` (`~modules`) and `DbsReset` are `on_unload` in order.
The loop over ~100 names is cut to five with the same shape: the first
module, `m_listen` at its first line, the optional `web_hook`, `m_vm`,
and `m_listen` again as the last line.

### `Console` (the terminal console, composed with `MInit`)

`Console` extends `MInit`: the console runs at run level RUN, that is while
`phase = "up"`, and its `mod` commands act on the same `mods::imports`.
`line`, `found` and `failed` are the last line, what `find_cmd` returned
for it, and whether the command threw. `find_cmd` is the recursive
`FindFrom`, the code's loop from `elems + 1` down to 1 over
`tokens_before`; `Run` is `_console_command` (the `time` prefix runs the
rest of the line again; a line with no command goes to
`console_command_derived`, which returns -1; the other commands only
print); `Loads` and `Unloads` are `mod load`/`mod unload` name by name,
and `mod reload` is `Unloads` then `Loads` of the names reversed. A
command body does not suspend, so `ConsoleCommand` is one step.
`tokens_before` is not in the sources: it is read from its use in
`console_cmd__help` (`tokens_before(name, ' ', 1)` is the first word).
The `conf` commands call what they import from `s_conf`: `conf default
p` is `default_conf`, which walks `conf::items` in key order (`ItemOrder`,
bytewise, as `std::map` orders them) and `conf::set`s each item whose key
starts with `p` to its default (`DefaultFrom`; `*` or no argument selects
all). `conf::set` is outside the sources: an item of `SetFails` throws,
with or without its new value stored, and the throw ends the loop.
`conf rehash` and `conf reload` call `rehash_conf` and `reload_conf`,
whose bodies are empty; `conf set` throws without its two parameters and
otherwise returns true. `conf[k]` records whether item `k` holds its
default, and `Init` allows any mix.
Console commands are not fair (a user types them), and neither is the
start of `on_unload` (nothing forces a quit); the rest of `on_load` and
`on_unload` is straight-line code and weakly fair.

### `Magick` (the GraphicsMagick glue, `modules/media/magick.cc`)

GraphicsMagick keeps one process-wide table of warning, error and fatal
handlers. `Magick`'s state is that table `h` and the stack of frames
`frames`. Each frame records whether it is `call`, `callex` or `callpf`,
and the table it saved. The other variables are:
- `ei` and `eiLive`: the severity recorded in callex's `ExceptionInfo`,
  and whether that `ExceptionInfo` is allocated;
- `ok`: what `f` returned;
- `loaded` and `logm`: whether the library is up, and its log method.

The actions:
- `Enter(fn)`: the prologue of each function, saving and setting the
  handlers (`Push`, `Installed`). `callex` also calls `GetExceptionInfo`.
- `CallpfCall`: `callpf`'s nested `call`.
- `FReturn`: `f` returns any result. Under `callex` it may record any
  severity.
- `FRaise`: the library itself calls the installed error or fatal handler
  inside `f`.
- `Catch`: `CatchException` dispatches the recorded severity to the
  installed handler.
- `Ret`, `PfRet` and `Unwind`: return, `callpf`'s `throw error{}`, and the
  unwinds (`DestroyExceptionInfo`, then `reset`) when an exception leaves
  a frame.
- `MagickInit` and `MagickFini`: the module's `init` and `fini`.

`Effect` is what each handler does: log, throw `error`, or terminate.
Terminating ends the process, so that state has no successor and the run
does not check deadlock. Everything runs on one thread and `f` does not
suspend, so only the order of the steps of one call matters.

### `ThisCtx` (the timed waits of `this_ctx`, against a clock)

`Ctx` has no clock: its timed waits return or loop without a value.
`ThisCtx` gives one context's single call of `wait(d)`, `wait_until(tp)` or
`sleep(d)` a clock `now` in microsecond ticks. Its duration type is a unit
of `u` ticks: `u = 1` is microseconds, a larger `u` is a coarser unit such
as seconds. The templates are in `s_conf.cc:171-244`; their nothrow cores
are in part_003:219-249.

- `Call` sets the alarm's time point `tp`.
- `CtxWait` is `ctx::wait()`. It either returns at once on an extra note
  or suspends on the alarm.
- `Expire` is the alarm's completion once `now >= tp`.
- `Note` is another context's `note()`, whose `wake()` cancels a pending
  alarm.
- `Resume` is the io_service running the resume handler, any number of
  `Tick`s after it was queued.
- `Return` is the template's code after the wait:
  - `wait` computes `duration_cast<duration>(alarm.expires_from_now())`
    (`DurationCast` truncates toward zero), and its throw overload throws
    when the result is `<= 0`;
  - `wait_until` computes `now >= tp`;
  - `sleep_until` loops while that is false.
- The history variable `noted` records that a note woke the suspended call
  before `tp`.
- The interrupt path is the one `Ctx` models.


## Runs

| run | cfg | expect | what it shows |
|---|---|---|---|
| `ctx_join_notes` | `MCCtxJoin.cfg` | violation | `join()` returns early when the joiner holds an extra note |
| `ctx_confhash_uaf` | `MCCtxConfHash.cfg` | violation | s_conf's temporary POST context is deleted before its spawn runs |
| `ctx_interrupt_lost` | `MCCtxIntr.cfg` | violation | an interrupt that finds the target off its alarm is not seen at its next wait |
| `runtime_main` | `MCRuntime.cfg` | pass | six contexts using every call of the scheduler, a two-worker pool and `offload` keep the scheduler's invariants, keep no closure past its frame, keep `available` right and strand no closure; the pool implements `PoolQueue`; the worker thread drains and exits; all finish |
| `ole_interrupt_dangle` | `MCOleIntr.cfg` | violation | a context interrupted inside `offload` unwinds while the worker holds its closure |
| `view_main` | `MCView.cfg` | pass | a producer showing three objects to two consumers never shows a consumer a stale or repeated object, and all finish |
| `view_notify_interrupt` | `MCViewIntr.cfg` | violation | a producer interrupted inside `notify` leaves `t` pointing into its unwound frame |
| `conforms_main` | `MCConforms.cfg` | pass | the report of every event is exactly the set of violated checks, also after skip, `|=` and `del`; `string` names them in order |
| `conforms_has_uint` | `MCConformsHas.cfg` | violation | `has(uint)` disagrees with `has(code)` |
| `thisctx_note_timedout` | `MCThisCtx.cfg` | violation | a `wait` or `wait_until` woken by a note before its time point reports a timeout |
| `magick_main` | `MCMagick.cfg` | pass | however a `call`, `callex` or `callpf` ends, the handler table is restored and the `ExceptionInfo` destroyed; `callex` returns only if no error was recorded |
| `matrix_console` | `MCConsole.cfg` | pass | for every failure point of `on_load` and any console `mod` commands while up, no module outlives `init::modules` or the databases, an up matrix has every required module, `find_cmd` picks the longest command, a `mod reload` loses only a module that failed to load and the names before it, and `conf default` resets only the items its prefix selects and stops at a `conf::set` that throws |

Properties of `runtime_main` (the scheduler's run; `Runtime` extends
`Pool` and `Ole`, which both extend `Ctx`):

- `SingleResume`: at most one spawn/resume handler per context is queued,
  and a queued resume belongs to a suspended context with no pending
  `async_wait` (no coroutine resumed twice).
- `NoLostWakeup`: a suspended context with `notes > 0` has its resume
  queued.
- `YieldNoDangle`: yield's restore closure never outlives the yield frame,
  even when the context is interrupted inside `yield` (this holds because
  the io_service is FIFO: the restore is queued before any resume).
- `NoUseAfterFree`: a deleted ctx is finished and has no handler queued.
- `DetachedReclaimed`: no finished ctx is still waiting to be deleted
  because it is detached, so the unwind's `delete this` is reached on
  every exit path. `detach()` of a context that already finished would
  break it: the DETACH flag would be set after the unwind read it.
- `OffloadNoDangle`: every queued or running closure of the offload
  worker belongs to a context still inside its `offload` frame.
- `JoinWaitsForFinish` (action property): `join()` returns only when the
  joined context finished.
- `AvailableIdle`: `available` equals the number of workers in `next()`
  and not in a closure.
- `WorkNotStranded`: while closures are queued and no worker is being torn
  down, not every worker is asleep on the dock without a note. That is,
  the `notify_one` reached someone.
- `WakeupDelivered` (liveness): a noted suspended context runs again.
- `WorkerDrains` (liveness): after `~init` starts, the worker thread exits.
- `OleAllFinish` (liveness): every function returns, the queue runs dry
  and the worker is gone; this needs `adjoindre` to be noted on every exit
  path.
- `PoolQueueRefined` (refinement): `Runtime`'s behaviours are behaviours of
  `PoolQueue` under the mapping `pending <- queue`, `running <- job`,
  `Jobs <- Submitted`. It checks that `operator()` appends, that `next()`
  hands the oldest closure to a worker running none, and that every taken
  closure ends, by return or by the unwind of an interrupted worker
  (`PoolQueue`'s weak fairness on `Finish`). The contexts, the dock and the
  offload thread are stuttering steps of the abstract spec. A `pop_back`
  in `next()` breaks it.

Bounds of `runtime_main` (`MCRuntime.tla`): six contexts.

- `c1` is posted from main. It posts the pool's workers `w1` and `w2` and
  submits closures 1 and 2 before they start. It posts `c2`, runs `c4`
  inline with `DETACH` (so `c4` deletes itself when it ends), notifies
  `c4` and yields.
- `c1` then submits closure 3 (it meets one worker docked, or one in a
  closure and one about to loop). It notifies `c2`, posts `c3` and
  interrupts it before it starts (the precocious-interrupt path).
- `c1` yields so that `c3`'s spawn runs, joins and deletes `c3`, and then
  interrupts and detaches `c2`, which deletes itself when the interrupt
  unwinds it.
- `c1` deletes `w2` and then `w1`, in `~pool`'s order, and runs `~init`.
- `c2` waits, passes an interruption point, sleeps, yields and waits.
  `c1`'s interrupt reaches it in each of those calls, including inside
  `yield` with the restore still queued.
- `c4` notes `c1` twice, so `c1` enters `yield` with two notes. `c4` then
  offloads and notes `c1`; its closure may still be queued when `~init`
  runs. Last, it waits with a deadline, interrupts itself and passes an
  interruption point.
- The pool's closures suspend once with a deadline, so the workers run
  while `c2` and `c4` wait and offload.

Every action and every branch of `RunSpawn`, `RunResume`, `YieldLoop`,
`OffloadLoop` and the pool's steps is taken. The run finds 37,733
distinct states in about two and a quarter minutes.

`MCCtx.tla` and `MCOle.tla` hold the smallest programs that show each
finding of `Ctx` and `Ole`.

Properties of `magick_main`:
- `HandlersRestored`: with no call active, the handler table is the one
  found before the outermost call. This holds after a return, after
  `CatchException`'s throw, after the library's own call of
  `handle_exception`, and after `callpf`'s throw on a false result, through
  two stacked frames.
- `ExceptionInfoDestroyed`: the `ExceptionInfo` is freed however `callex`
  ends.
- `CallexErrorThrows` (action property): `callex` returns only when
  `CatchException` found no error.

Bounds of `magick_main`: all states (197). The model is finite: at most
two frames, four severities and the five handlers.

Properties of `view_main`: `ViewerSeesLive` (a consumer inside the view
holds `t` as the producer's current, live object), `WaitingCounted`
(`waiting` equals the number of consumers between `++waiting` and the
scope guard's `--waiting`, including one unwound by an interrupt inside
the dock wait), `NoDoubleView` (action
property: a consumer entering the view sees a newer object than the last
one it saw) and `AllFinish`. Bounds: producer `p` shows 1, 2, 3 with
deadline waits between and interrupts `a` at the end; consumer `a` views
twice, first with `wait` and then with `wait_until`, and keeps the lock
across a `wait_for` (so the mutex is contended and the producer's notify
finds waiters), `b` views once and is interrupted by `x` while counted in
`waiting`. 540 distinct states. The timers are strongly fair in
`ViewFairness`: `a` spinning in `wait_until` on its expired alarm keeps a
context on the CPU between its turns, so the producer's own alarm is
enabled only intermittently; asio's io_service completes every expired
timer whenever it runs its reactor, which it does between those turns.
Without it, the spin is a lasso in which `p` never reaches its interrupt. The
violation program interrupts `p` while `notify` waits for `a`.

Properties of `conforms_main`: `ReportExact` (`report` equals the bits of
`Violated(e)` minus the skip mask, with the applied `|=`/`del`) and
`StringNames` (`string` lists exactly the set codes in code order). The
events are two families around a passing member event: every combination
of the header fields (ids valid, invalid or absent; origins equal or not;
self-references in `prev_events`/`prev_state`/`redacts`) with a good body,
and every combination of the body fields with a good header; skip masks
0 and one of two codes; edits of codes 0 and 23. 11520 distinct states.

Properties of `matrix_console`: `ImportsOwned` (while `_modules` is not
set, modules are imported only inside its constructor: a failing
required module unloads all earlier ones), `UpHasAll` (action property:
on_load completing with autoload has every module but failed optional
ones), `DbsOutliveImports`, `FindLongest` (the command found is the
longest command the line begins with, against a set-based reference),
`ReloadLossConfined` (action property: a `mod reload` keeps every module
it does not name, and a named module it leaves unloaded lies at or before,
on the line, a module that failed to load, with the throw reported; this
is what the second loop's `rbegin()` to `rend()` order buys, and a loop
from first to last breaks it) and
`DefaultConfStops` (action property: `conf default p` changes only the
items `p` selects; when it returns, all of them hold their default; when a
`conf::set` throws, the console reports it and every selected item after
the throwing one in key order keeps its value; a `default_conf` that
skipped the throwing item and went on breaks it). Bounds:
`module_names` is cut to five lines with its shape (the first module,
`m_listen` at its first line, the optional `web_hook`, `m_vm` which may
fail, and `m_listen` again as the last line); the console has twelve
commands, `mod` and `conf` each a prefix of four others, and fourteen
lines. Eight are not conf lines: unload of two
modules, load, `time` before a load, a reload naming a module that may
fail after one that cannot and one naming it before, a misspelt
subcommand, `help mod` and a line
naming no command; and three conf items `ab` < `abc` < `b`, where `abc`
does not set, with `conf default ab` (selects `abc` too: the match is on
bytes, not dotted components), `conf default b`, `time conf default`
(throws at `abc` before `b`), `conf rehash ab force`, `conf reload` and
`conf set ab`. 17,640 distinct states; `CHECK_DEADLOCK FALSE` because
`down` and `failed` end the module and `up` may last forever. Because
`m_listen` is named twice, `fini_imports` erases it first, before the
modules loaded after its first line; `on_unload` does the same
explicitly, so this reads as intended. A reload whose emplace throws
leaves the names before it unloaded: the model reaches it, the code makes
no promise about it, and `ReloadLossConfined` bounds the loss.

## Findings

- `join()` waits once (part_003:541). A joiner with `notes > 1` returns
  while the joined context is alive, and `~context` deletes it.
- `finished()` is `yc == nullptr` (part_003:47), true before a POST spawn
  has run. `rehash_on_run` in `s_conf.cc` builds a temporary POST context:
  its destructor's `join()` returns at once and the ctx is deleted with its
  spawn still queued. (`joined()` is declared in `context.h`, which is not
  in the sources; the model reads it as `finished(*c)`.)
- `interrupt()` is lost when the target is not on its alarm
  (part_003:335), against spec section 5.
- `ole::offload` (part_003:862): `wait()` throws `interrupted` inside the
  done loop, so the frame holding `func`, `eptr` and `done` unwinds while
  the worker thread still has the closure.
- `view::notify` (view.h:83): `t = &value` is not undone when the wait
  for the consumers throws `interrupted`; `t` then points into the
  producer's unwound frame and the next consumer reads it.
- `conforms::has(const uint &)` (part_002:1016) compares
  `report & (1UL << code)` with `code` instead of with zero.

- `this_ctx` timed waits (s_conf.cc:188-244): the comments say that a
  notification lets the context continue and that timeout is thrown only
  without one. The code decides on the clock when the context resumes.
  `thisctx_note_timedout` (`NoteNotTimedOut`, `Unit = {1, 3}`, `MaxD = 2`,
  two notes, clock bound 7) finds the first case below; the second is
  reachable in the same model:
  - A 1-tick `wait` noted at tick 0, whose resume the io_service runs at
    tick 1, returns 0 and throws timeout. The note is consumed.
  - A `wait` of one 3-tick unit noted and resumed at tick 1 has 2 ticks
    left; `duration_cast` makes that 0 and it throws timeout. In the
    program's terms, `wait<timeout, seconds>(1s)` noted with 0.6s left
    throws.
  The comment on the nothrow `wait_until<E>` (s_conf.cc:200) also inverts
  the declaration's (line 152): the code returns true on a timeout.

## Not modelled, and why

- `ctx::jump` has no caller (`ctx::yield(ctx)` uses `notify`).
- `DISPATCH`: modelled as inline, since `ios->dispatch` from the
  io_service thread runs the closure at once.
- `prof`: measures time and stack depth; with the default settings it only
  logs.
- Listeners (part_004): `init_listeners` is commented out and the public
  `load_listener(name)` returns false, so `listeners` is never filled and
  `unload_listener` always returns false; `_listener_proffer` reads the
  run level and client counts owned by code outside the sources.
- The console's other commands and `init_cmds` (symbol demangling): they
  print the state of subsystems outside the sources. `conf reset` calls
  `refresh_conf`, which is `conf::reset()`: it re-runs each item's
  callback, which is outside the sources.
- In `magick.cc`, `version()` and the log calls are formatting. `callpf`
  calls `call(f, a...)`, which cannot deduce `call`'s return type, so
  `callpf` would not compile if it were instantiated. Nothing in the
  sources instantiates `call`, `callex` or `callpf`, and the model follows
  the evident intent: `call` returns `f`'s result. `f`'s result is a
  boolean, so a result dropped when `CatchException` throws (a leak) is
  not modelled.
- The rest of `s_conf.cc`: `get_conf_item` has an empty body and no
  caller. The module's init and fini only insert into and erase from
  `conf::on_init`, which lives in the conf code outside the sources. They
  run when `s_conf` is loaded, before `m::on_load` (which calls its
  `reload_conf`), and when it is unloaded after `m::on_unload`.
  `init_conf_item` is declared and never defined. `on_run` only toggles
  `item_error_log` around the empty `rehash_conf`, and nothing suspends
  in between, so no other context can see the toggle.
- `conf rehash` saves nothing to `!conf`, whatever the comment on
  `rehash_on_run` (s_conf.cc:58-59) says: `rehash_conf` is empty. `conf
  set key value` sets nothing: it reads its two parameters and returns.
  Both hold in the model. No property states otherwise, because neither
  is a hazard; they are recorded here.
- An `offload` after `ole::init::~init` (part_003:874): `push` queues a
  closure that no thread runs, and the offloading context waits forever.
  A two-context program that offloads after `olefini` violates
  `OleAllFinish` this way. Whether any context offloads that late depends
  on `ircd::main`'s shutdown order, which is not in the sources. So the
  runs order `olefini` after every offload.
- `view::wait_for(lock, dur)` calls `wait_until(now + dur)` without the
  lock argument, so it would not compile if instantiated; it is not a
  program instruction. `view::wait_until` is modelled (`vwaitu`).
- `m::bridge` (matrix/bridge.cc): `exists`, `config::idx`, `get` and
  `for_each` are one lookup each of the `!bridge` room's `ircd.bridge`
  state and of the event's content, with a throwing and a nothrow form;
  `query` formats a URI and waits on one `server::request` with the
  `ircd.m.bridge.query.timeout` conf item. Their outcomes are decided by
  `m::room::state`, `m::get` and the server, all outside the sources, and
  nothing in the sources calls them. A model would only restate the
  nothrow-to-throw wrappers, and the state and the request would be made
  up.
- `fs/dev.h` declares the device-id conversions and `sysfs` readers,
  which are defined outside the sources. Its one template reads into a
  32-byte buffer and `lex_cast`s the value, and a `size_t` in decimal
  always fits there. `llvm.cc` has empty `init` and `fini`.
- Event ids, hashes, signatures, JSON printing, allocator, dl hooks,
  llvm, server keys, build files: conversions and I/O with no
  interleaving.

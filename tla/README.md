# TLA+ specifications of marstack-container

`mars` is an OCI container runtime for Linux: a command-line program, without a
daemon, whose commands share nothing but the file system, the cgroup tree and
the process table. Half of its difficulty lies between the commands: a `create`
is three processes that may each die at any moment, a `start` rendezvouses with
an init through a fifo, and `kill`, `pause` and `delete` act on state that
another command may be changing. No lock is held between two system calls
anywhere. The other half is a long straight line: some thirty steps that turn a
`config.json` into a running program, each of which changes what the later ones
may still do. These modules model both.

Paths below are relative to the repository (`src/container/mod.rs` is the
runtime's `container/mod.rs`).

## 1. Inventory

| Component | Source | State | Operations | Talks to |
|---|---|---|---|---|
| create | `container/mod.rs`, `container/init.rs` | the state directory, fifo, cgroup, two child processes, a socket pair | `create`, `build`, `spawn`, `handshake`, `teardown`; `intermediate`, `stage_one`, `container_init` | channel, cgroup, hooks, fifo, state |
| exec fifo | `container/fifo.rs`; `start` and `run` | the path of the fifo, one byte, who has it open | `create`, `park`, `release` | create (parks), start and run (release) |
| hooks | `container/hooks.rs` | the hook being run, its pipes, its deadline | `run`, `one` | create, start, delete (six phases) |
| lifecycle commands | `container/mod.rs` | none of their own | `kill`, `kill --all`, `pause`, `resume`, `delete`, `delete --force`, `update`; the second half of `run` | state, cgroup, the processes |
| state | `state.rs`, `paths.rs` | `state.json` | `save`, `load`, `alive`, `status`, `require`, `remove`, `list` | every command |
| cgroup | `cgroup/v2.rs`, `cgroup/events.rs` | a directory per container below a shared parent; `cgroup.procs`, `cgroup.freeze`, `cgroup.events` | `create`, `apply`, `attach`, `procs`, `freeze`, `is_frozen`, `destroy` | create, lifecycle, exec |
| synchronisation channel | `sync.rs` | a SOCK_SEQPACKET pair | `send`, `recv`, `expect` | create, exec |
| exec | `container/exec.rs` | one child, handles on namespaces and `cgroup.procs` | `exec`, `collect`, `place`, `enter` | state, cgroup, channel, supervision |
| supervision | `container/signal.rs` | the set of blocked signals | `block_forwardable`, `supervise` | run, exec |
| namespaces | `namespace.rs`, `container/userns.rs` | the flags to create and the paths to join | `layout`, `without`, `userns::write` | create |
| privileges | `container/process.rs`, `capabilities.rs`, `seccomp.rs` | the credentials of the init | `prepare`, the capability sets, the filter | the init |
| root filesystem | `rootfs/*` | mounts | overlay, mounts, pivot, hardening, devices, sysctl | the init |
| console | `container/console.rs` | a pty | `open_socket`, `setup` | the init, exec |
| bundle | `bundle/*` | `config.json` | `load`, `validate::spec`, `resolve_executable` | create, exec |
| telemetry | `telemetry.rs`, `logging.rs` | spans | record, export | every command |
| command line | `cli.rs`, `main.rs`, `commands/*` | none | parsing, printing, the loop of `events` | everything |

How they interact. The command forks an intermediate, which joins and unshares
the namespaces and forks the init, and both share one end of a socket pair with
the command. The init ends its set-up by opening the exec fifo for writing,
where it blocks; `start` opens the other end, reads one byte and unlinks the
path. The presence of that path is what distinguishes the status `created` from
`running`; the start time in `/proc/<pid>/stat` is what distinguishes the init
from a process that has its pid by accident; the cgroup is what `kill --all`,
`pause` and `delete` know the container's processes by.

What is hard, and which property makes each component right:

* **create**: three processes, two of them writing to the same end of a socket;
  a SIGKILL at any point; some thirty system calls that can fail with a different
  part of the container in existence. The init must be in its cgroup before its
  set-up (`SetupInsideCgroup`); success means a complete container
  (`OkMeansReady`); failure leaves nothing (`FailedCreateLeavesNothing`,
  `FailureEndsChildren`) and has a reason (`SyncClosedMeansKilled`); no process
  misreads another (`NoProtocolError`); unless a hook hangs nobody waits for ever
  (`CreateReturns`).
* **exec fifo**: blocking opens, competing readers, a byte that vanishes with the
  last descriptor. At most one start wins (`OkMeansStarted`), the status follows
  the truth (`CreatedMeansUnstarted`, and `RunningMeansReleased` by theorem), an error is
  explained (`DeathExplained`), one of several does win (`SomeoneSucceeds`).
* **hooks**: foreign programs that hang, fail or do not read. The whole state
  reaches them (`WholeStateDelivered`, by theorem), a failure stops a fatal phase and
  only that (`PhaseStopsAtFailure`), none is left over (`OneHookAtATime`, by theorem), timeouts
  are neither early (`FullTimeGranted`) nor late (`TimeoutsAreHonoured`), and
  runner and hook do not block each other (`NoMutualWait`).
* **lifecycle**: pids recycled, processes forked while they are being killed, a
  freezer with a delay, commands overtaking each other. `KillAllReachesEveryone`,
  `KillAllRestores`, `PauseHolds`, `DeleteFreesCgroup` (for `run` as well), `DeleteForceKills` (and a `run` in the foreground
  returns), and by theorem
  `StoppedIsRecognised` and `DeletedMeansDead`.
* **exec and its supervision**: a container that ends, freezes or is deleted while a
  process is on its way in, and signals that come before anybody waits for them. The
  program runs only inside the cgroup (`PlacedBeforeProgram`) and in the container's
  namespaces (`JoinedWhileAlive`), an error means that it has not run
  (`ErrorMeansNoProgram`), the exit of the child is noticed (`ExecReturns`), and so is
  that of the command (`OrphanEnds`).
* **bundle, namespaces, root filesystem, cgroup limits, privileges**: an order of steps in
  which a later one needs what an earlier one has given up or covered. A user namespace
  is entered before the namespaces it shall own and after those it may not join
  (`NamespacesAsAsked`); the sets, ids, `no_new_privs` and the filter change what the
  next call is allowed (`ProgramPrivileges`); a mount covers what was made below it
  (`RootfsAsAsked`), and a mask or a read-only bind one that came before
  (`HardeningHolds`); nothing of it may reach the host (`HostUntouched`); limits are
  in place before the init is (`LimitsAsAsked`); and a bundle fails for a reason that can
  be read from it, not because two steps disturb one another (`FailsIfRefused`).

`PROJECT.json` lists the hazards with the lines where they bite.

## 2. Modules

| Module | Models | Uses |
|---|---|---|
| `Create` | the three processes of `create` and their socket | |
| `CreateProof` | theorems about `Create` | `Create` |
| `StartGate` | abstract: what the split of create and start promises | |
| `ExecFifo` | the fifo, the init behind it and any number of starters; implements `StartGate` | `StartGate` |
| `ExecFifoProof` | theorems about `ExecFifo` | `ExecFifo` |
| `Hooks` | one phase of hooks | |
| `HooksProof` | theorems about `Hooks` | `Hooks` |
| `Lifecycle` | the commands on an existing container, a `run` in the foreground among them | |
| `LifecycleProof` | theorems about `Lifecycle` | `Lifecycle` |
| `MCLifecycle` | each pair of commands once | `Lifecycle` |
| `Exec` | `exec`, its child, and the container it enters | |
| `ExecProof` | theorems about `Exec` | `Exec` |
| `Bundle` | `config.json`: validation, the namespaces it lists, the program it names | |
| `Resources` | the conversions of `linux.resources`, the path and controllers of a cgroup | |
| `Overlay` | the layers of a root, their checks, the options of the mount | |
| `Rootfs` | mounts, devices, pivot, hardening and console over a mount table | |
| `Privileges` | ids, capabilities, limits and filter over the kernel's rules | |
| `Setup` | all steps from `config.json` to `execve`, composed from the five above | `Bundle`, `Resources`, `Overlay`, `Rootfs`, `Privileges` |
| `SetupProof` | theorems about the conversions of `Resources` and the program's privileges | `Setup` |
| `IsolationProof` | theorems about its namespaces, the host, the types, the limits, the hardening and the root file system | `SetupProof` |
| `RefusalProof` | the theorem about when it fails, and when a created container cannot start | `IsolationProof` |
| `MCSetup` | the bundles that are checked | `Setup` |

Every operator that is called "Variant" in its comment is a plausible slip in
the definition below it (a dropped guard, a forgotten close). It is used nowhere:
it is there to show that the property named in `PROJECT.json` would notice it.

### Create

`cmd`, `mid` and `ini` are the control points of the three processes; each value
is a line of `create`, `build`, `spawn` and `handshake`, of `stage_one`, or of
`container_init`. `toCmd` and `toChild` are the packets under way in the two
directions. A read yields a packet, or end-of-file when the packets are used up
and nobody holds the other end, and `CmdEndOpen` and `ChildEndOpen` say who holds
one: that is what decides between an error and a hang. A send fails when the
other end is closed; a read fails with a reset when the other side died with
packets unread. `files` is what is on disk, `procs` what is in the cgroup.

Every fallible step has a second disjunct in which it fails. The clean-up is that
of the code: `spawn` removes the fifo and calls `teardown` (SIGKILL to everything
in the cgroup, then waiting until it is empty or 2 s have passed), `build`
destroys the cgroup, `create` removes the directory, in this order, and only as
much of it as the function that fails is inside of. A SIGKILLed child ends some
time after the signal, the command at once: it is the observer. The initial
states include the remains of a create that was killed earlier, with an orphaned
init still in the cgroup of that name. The hooks are a step of the command
(`RunHooks`) and one of the init (`IniSetup` at `createContainer`); both may take for
ever, since `hooks.rs:129-130` waits without bound for a hook that has no timeout.

### ExecFifo and StartGate

`start[s]` is the control point of a starter and `init` that of the init.
The semantics of the fifo is that of the kernel: an open blocks for the other
side, is let go for good once that side has opened even if it is gone when the
caller runs, a read of an empty fifo without a writer returns 0 bytes, and what
is in the fifo goes with its last descriptor. A starter reads the status in three
steps (is the init alive, is the cgroup frozen, is the fifo there), as the code does; a
`run` skips them. `Pause` and `Resume` are other commands: a frozen init does nothing, and
an `open` in which it was blocked is made again after the thaw, so that it has let go of
the fifo meanwhile. A start that finds the container paused is refused (`paused`); one
that had passed the check before waits for the thaw. `bytes` counts what is in the fifo, of
which a starter reads one. The poststart and startContainer hooks are steps that may take
for ever.

`StartGate` has no fifo: an init that is let through at most once, only when
somebody has asked, and at most one who can say that it was he. The refinement maps
`asked` to the starters that have opened the fifo, `open` to the byte having been
written and `winner` to those who have read it.

### Hooks

The runner's control points are the calls of `one`: spawn, the writes of
`write_all` one piece at a time, the drop of stdin, `wait`, or `try_wait` and the
deadline check. `stdin` and `stdout` are counts of pieces in pipes of bounded
capacity; nobody reads `stdout`, which is what the code does. A hook reads to the
end or does not read at all, prints as much as it likes, exits with either
status, or hangs: no fairness is assumed of it. `lived` is a history variable.

### Lifecycle

Each client runs one command. The steps are the system calls that touch what is
shared: loading `state.json`, the stat of the init's pid, `cgroup.events`,
`cgroup.freeze` and the wait for the kernel (which may be given up after 5 s),
`cgroup.procs`, one `kill(2)` per pid, `rmdir`, the removal of the directory.
`remove_dir_all` may
fail half-way, with `state.json` gone or not; `run` ignores that, `delete` reports it. The
poststop hooks are a step of their own (`Poststop`), in `run` before the cgroup is removed and in
`delete` after it, and may hang like the poststart hooks of `run`. Processes are those of the
container: they fork, exit, become zombies, are reaped,
and their pid may then belong to a stranger. A frozen process neither forks nor
exits, but dies of SIGKILL, as in cgroup v2. `gaveUp` marks a client whose wait
has run out; the properties that depend on a wait except it. The signal is always
SIGKILL: another one changes no state the runtime looks at.

At most one client is a `run` that has started its container and stays in the
foreground. It is the init's parent: while it runs its poststart hooks a dead init
stays a zombie, which `alive` takes for alive, so that `delete --force` may wait in
vain. `supervise` reaps the init (`Reap`), and then `run` has its poststop hooks run, removes
the cgroup and, without `--keep`, the directory, whatever a `delete` beside it does. A signal that
it forwards can only end the init, which `Exit` may do at any time; it reaches no
stranger, since the pid cannot be used again before `supervise` itself gives it up.

### Exec

`cmd` and `child` are the control points of the command and of the process it forks.
`init` is what the pid of the container's init stands for: a running process, one that
ends, a zombie, nothing, or a stranger. `collect` looks at it once per entry of
`JOIN_ORDER`; `Visible` is what the kernel shows below `/proc/<pid>/ns` in each case, and
`joins` whose namespace was opened. `own` is the container's configuration. `blocked`
and `pending` are the command's signals: one pending SIGCHLD stands for any number of
them, a SIGTERM stands for the forwarded ones, and the one with the lower number is
delivered first. The container's side (the init ends, the freezer, a `kill --all`, a
`delete`) is the environment: each of its actions is what `Lifecycle` models in detail,
reduced to its effect on an exec. A frozen child does not move; killed (`dying`), it does.

`intact` is a history variable: the init was alive when the last namespace was collected.

### Setup and its parts

`Create` is about three processes and treats the set-up of the init as one step;
`Setup` is the other view of the same code: one bundle, one control flow, and each
step with what it does. `pc` goes through `create` (load, plan, cgroup, limits, spawn),
`stage_one` (join, unshare, map, attach) and `container_init` (the rest, in the order of
the source), and ends in `running`, in `failed` (create reports an error) or in `lost`
(create has reported success and the init cannot be started). `ApplySysctl` takes the
keys in any order, since the code iterates over a hash map. Two things may end a step or not,
because they depend on what a bundle does not say: `Starved`, a filter that forbids the
calls of the allocator and the libraries (`library`), which a step makes or does not make, and
`Overflow`, an init that has joined a user namespace without becoming root in it
(`container/init.rs:47-52`), is nobody there, and cannot create files in what it mounts
(EOVERFLOW, `init.rs:110-113`). Everything else is
deterministic, so that the interest is in the initial states: `Bundles`.

A step is one entry of what the code iterates over: one namespace that is joined or
created, one mount, node, link, device, mask, read-only path or remount. `done` counts the
entries that are done with and `Each` is the loop, which ends at the first failure. The
same could be written as a fold over the list, but then an invariant could say
nothing of what holds between two entries, and a proof could not be made by steps.

* `Bundle`: a bundle is a record with a field per section the code reads; a text is a
  member of a small set with one member for each case the code tells apart. `spec` is
  `validate::spec`; `layout_create` and `layout_join` are the two halves of
  `layout`, and `joined_before` its sort; `without` keeps the flag of the time namespace, which has no name in
  the library, as the code's mask does.
* `Resources`: the conversions as functions of integers, and `apply` as the
  sequence of its writes. TLC's integers have 32 bits, so that `shares_to_weight`
  halves its product; `SharesAreExact` proves that this is the code's formula.
* `Overlay`: a path is the sequence of its components. The option string is represented
  by its length and by whether a forbidden character occurs: one byte per name and per
  separator, two for a name with a colon. `Resolved` and `KernelTakes` are the kernel's:
  which directory a name means for a caller at a given place, and which layers may go
  together.
* `Rootfs`: the state is a mount table (`tab`, oldest first), what exists in which
  file system (`has`), and whether mounts still propagate to the host (`prop`, `old`,
  `leaks`). `Top` is the mount a path is on. `Mount` distinguishes remount, bind,
  propagation and new mount in the kernel's order. A mount needs capabilities over
  the namespace that governs its type (`Governs`). A recursive bind of a path onto itself
  (`SelfBind`) takes along the mounts made since the one the path is on, in their order, and a
  directory that is missing is made in the file system it would be in (`Make`).
* `Privileges`: a process is a record of ids, five capability sets, keepcaps,
  `no_new_privs` and filter. `Setuid`, `Capset`, `Load`, `Execve` are the kernel's
  rules; every call asks the filter first. `Calls` names each call that the set-up makes while a
  filter may be in place: the credential calls, `geteuid` and `capget`, with which
  `drop_privileges` and the capability library look first, the write of `InitReady`, park's `openat`,
  `write` and `close`, and `rt_sigprocmask` and `execve`. `geteuid` and `close` may be denied
  with an errno without an error in the code: -1 is not root, so that the capabilities are lost
  with the change of user; a descriptor stays open. Killing verdicts (`Kills`) end the init in both.
  What the startContainer hooks do under the filter is left out: they run as programs of their own.
* Namespaces have an owner: the user namespace their creator was in. Joining and
  mounting need capabilities over it, which the host's root has and the root of a user
  namespace has over what that owns.

## 3. Runs

| Run | Checks | Instance | Result |
|---|---|---|---|
| `create` | `TypeOK` `SetupInsideCgroup` `OkMeansReady` `NoProtocolError` `SyncClosedMeansKilled` `FailedCreateLeavesNothing` `CreateReturns` `FailureEndsChildren` `OrphanOnlyIfReady` | all three processes may be SIGKILLed | holds, 29 919 states |
| `create_hang` | `CreateAlwaysReturns` | the intermediate may be SIGKILLed | violated |
| `fifo` | `TypeOK` `OkMeansStarted` `DeathExplained` `CreatedMeansUnstarted` `ImplementsGate` `SomeoneSucceeds` | two starts and a run, all killable, the init too; pauses and resumes | holds, 50 029 states |
| `fifo_hang` | `StartReturns` | one start, a dying init | violated |
| `fifo_hook` | `StartContainerAborts` | one start | violated |
| `hooks` | `TypeOK` `PhaseStopsAtFailure` `FullTimeGranted` `TimeoutsAreHonoured` `NoMutualWait` | two hooks | holds, 100 750 states |
| `hooks_hang` | `TimeoutsAlwaysHonoured` | one hook | violated |
| `lifecycle` | `TypeOK` `KillAllReachesEveryone` `KillAllRestores` `PauseHolds` `DeleteFreesCgroup` `DeleteForceKills` | two clients, any two of the six commands or one of them beside a `run` or `run --keep`, one forked process, with and without a pid namespace | holds, 516 535 states |
| `lifecycle_cgroup` | `DeleteAlwaysFreesCgroup` | one delete, no pid namespace possible | violated |
| `exec` | `TypeOK` `PlacedBeforeProgram` `ErrorMeansNoProgram` `JoinedWhileAlive` `ExecReturns` `OrphanEnds` | one exec, detached or not, with or without a pid file; three layouts of namespaces | holds, 470 596 states |
| `exec_joins` | `JoinedAll` | the same | violated |
| `setup` | `TypeOK` `NamespacesAsAsked` `ProgramPrivileges` `HostUntouched` `RootfsAsAsked` `HardeningHolds` `LimitsAsAsked` `FailsIfRefused` | 5 662 bundles | holds, 160 074 states |

`RunningMeansReleased`, `WholeStateDelivered`, `OneHookAtATime`, `StoppedIsRecognised` and
`DeletedMeansDead` are in no run: they are proved for all instances (section 5).

`create` is the only run that checks for deadlock: its model has a step for being
finished, `Done`, and everything else that stands still is a deadlock. In the
other models the commands end and nothing is left to happen.

### Bounds, and why they are enough

* `Create` has none: the socket never holds more than a few packets, because the
  protocol is a conversation, and this is part of what is proved. One command per
  id is the limit of the model (section 7).
* `ExecFifo`: three starters, one of each kind and one more, so that the byte
  can be read by one, lost to another, and the third one comes too late. The
  theorems of section 5 hold for any number.
* `Hooks`: two hooks, so that there is one to go on with after a failure. The
  stdin pipe holds one piece and the state has one or two: fits and does not fit.
  The stdout pipe holds one and a hook prints up to two. Timeouts of 0, 1 and 2
  ticks: none, at once, and one that is polled at least twice.
* `Lifecycle`: every hazard in it is one of a command and a process, or of two
  commands. One forked process is enough: what a command misses is one that was
  not there when it read `cgroup.procs`. The two clients differ in nothing but
  their commands, so that `MCLifecycle` takes each pair in one order.
* `Exec`: one exec against one container. Two execs share nothing but the cgroup. The
  layouts are those the semantics tells apart: all seven namespaces; no user and no pid
  namespace, so that the init ends without its processes and a zombie shows none of the
  container's own; and a pid namespace with two others, so that the loop skips some and
  joins some. The theorems hold for any.
* `Setup`: four bundles that a user may well write (the plainest, one as Docker writes
  them, the same in a user namespace, the same in a joined network) with one section
  varied at a time, and the products of the sections that interact: any two namespaces in
  either order with how each is to be had; sysctls with namespaces and mounts; shapes of
  mounts with masked and read-only paths that lie in, above and below one another; a remount, a mount
  on `/dev/console` beside a terminal; layers with upper and work directories; memory with swap; users with capabilities, filters,
  `no_new_privs` and user namespaces. The filters deny one call each, for every member of `Calls`
  with an errno, and three of them with a kill. Each conversion is taken at 0, at both ends of its
  range and beyond. `MAX_OPTION_BYTES` is 14 where the code has the 4096 bytes of a page: options
  of layers that fit, that fit only relative to the common parent, and that do not.

### Fairness

The kernel schedules every runnable process of the runtime, delivers SIGKILL, reaps
the dead (the parent of an orphaned init is a subreaper or pid 1) and carries out a
change of `cgroup.freeze`; these are weakly fair. Nobody has to call `start`, to kill
anything, to fork or to exit, and no pid has to be recycled; these are not fair. A
hook owes nobody anything: `hooks.rs:129-130` waits without bound for one without a
timeout, and `docs/04-lifecycle.md:191-192` says what that does to `create`. The steps in
which hooks run are therefore not fair in any module: `RunHooks` and the `createContainer`
point of the init in `Create`, `Poststart` and `StartContainerHooks` in `ExecFifo`,
`Poststart` and `Poststop` in `Lifecycle`. What is promised all the same says so:
`CreateReturns`, `OrphanOnlyIfReady` and `CreateAlwaysReturns` have the premise that no hook
runs for ever (`HooksReturn`); `FailureEndsChildren` needs none, since the clean-up
kills an init in its hooks; `SomeoneSucceeds` and `StartReturns` promise that a start
comes as far as its poststart hooks, and `DeleteForceKills` that a `run` does or comes to its
poststop hooks; `NoMutualWait`, which is about what passes between runner and hook, assumes in its
premise that hooks go on. Nobody has to pause or to resume a container either: `SomeoneSucceeds`
assumes in its premise that the container is not frozen for ever. That a blocked write fails (`WriteFails`) is not fair
either. The control of each process is a single weakly fair disjunction, since a
process has one next step; the choice between success and failure of that step is
left open. In `Exec`, neither the container nor the exec'd program has to end, and
nobody has to thaw a frozen container; `ExecReturns` assumes in its premise that SIGTERMs
stop arriving, since they are delivered before a SIGCHLD.

## 4. Where code and documentation differ

Each is a run that TLC finds violated, and each has a weaker property in the
passing run beside it that says exactly what does hold.

1. `create_hang` (`container/init.rs:57-60`). An intermediate that is SIGKILLed
   after it has forked the init and before it has sent `InitPid` leaves the init
   waiting for `CgroupApplied` and the command waiting for `InitPid`. The init holds
   the shared end of the socket, so that nobody reads end-of-file. `CreateReturns`:
   beside a hook that hangs this is the only way to do so.
2. `fifo_hang` (`container/fifo.rs:59`). `docs/04-lifecycle.md:62-63` says that start
   reads 0 bytes if the init died before. If it dies after the status check (or is a
   zombie, which counts as alive) start blocks in `open` and never reads.
3. `fifo_hook` (`container/init.rs:285`). `docs/04-lifecycle.md:182-183` says that a
   startContainer hook that fails must abort the operation. These hooks run after the
   byte has been written: start returns success.
4. `hooks_hang` (`container/hooks.rs:116`). The deadline is computed after the state
   has been written. With a state larger than the pipe a hook that does not read is
   not timed out. `TimeoutsAreHonoured` holds while the state fits.
5. `lifecycle_cgroup` (`container/mod.rs:486`). Without a pid namespace other processes
   outlive the init; `delete` then returns success and leaves cgroup and processes.
   `DeleteFreesCgroup` and `DeleteForceKills` hold with a pid namespace.
6. `exec_joins` (`container/exec.rs:223`). `docs/04-lifecycle.md:105` says that exec joins
   each of `/proc/<init>/ns/*`, and `tests/run-integration.sh:566` that the namespaces
   really are the container's. A file that is not there is skipped in silence. An init
   that ends between the status check and `collect` has none of them, or only those a
   zombie still has, and the program is run in the runtime's own namespaces.
   `JoinedWhileAlive` holds as long as the init lives until the last one is collected.

Smaller windows the models contain, stated as exceptions in the properties: the loser
of two starts reports a death of the init that has not happened (`DeathExplained`);
a start killed between opening and unlinking the fifo may leave a started container
with the status `created` (`CreatedMeansUnstarted`); `kill --all` thaws a container
that `pause` has frozen in the meantime (`PauseHolds`); `kill` may strike a stranger
if the init is reaped and its pid recycled between the check and `kill(2)`
(`StoppedIsRecognised` covers the init that was gone when the command began); a
`freeze` that gives up leaves the container freezing (`KillAllRestores`); `kill --all` does
not reach a process that an `exec` places after the list has been read, because `Lifecycle` has no
`exec` and `Exec` asks only what becomes of the child.

In `Setup` the same is true of what follows; none has a run of its own, because the doc
says nothing that a property could contradict, or says it only in passing.

* `ro` on a bind does not reach it (`rootfs/mounts.rs:135-141`): the kernel ignores it on
  the bind, and `remount_readonly_mounts` passes over all that is not a tmpfs
  (`rootfs/harden.rs:108-112`). `HardeningHolds` excepts binds. Nor does a readonly
  path cover the mounts below it: the remount is not recursive.
* `harden.rs:123-126` says of read-only tmpfs mounts that they were writable while they
  were populated. They are mounted read-only at once, so that a `/dev` with `ro`
  fails in `create_devices`; one that a later mount or a mask covers fails in the remount.
* Flags of propagation beside `bind` are ignored by the kernel and not applied in a
  second call.
* `rootfsPropagation: unbindable` makes every bind onto itself fail, and thus any
  readonly path and any masked file.
* A container whose `/proc` is absent or masked is created and cannot be started: `park`
  goes through `/proc/self/fd`. So it is with a filter that forbids `openat`, `rt_sigprocmask` or
  `execve`, and may be with one that forbids what the allocator calls (`Unstartable`, `FilterStarves`).
* A filter that is loaded before the user changes and answers `geteuid` with an error makes
  `drop_privileges` take root for somebody else (`process.rs:46`): it does not keep its capabilities, and
  setting those that the bundle asks for fails (`Untold`).
* In a user namespace that is joined the init does not become root (`init.rs:47-52`): a bundle
  with a root or a tmpfs of its own may fail there with EOVERFLOW (`OverflowRefused`).
* `docs/05` orders `no_new_privs`, capabilities and filter otherwise than the code, and
  says that devices are bound in a user namespace; the code binds them for any joined
  namespace as well (`container/init.rs:171`), and an owner asked for is then given to the
  host's node (`HostUntouched` excepts it).
* `sysctl.rs:14-15` says that a key is set in the container's namespaces; where the bundle
  lists none of that kind it is the host's that changes (`HostUntouched` excepts it).
* A console socket without a mount namespace, and clock offsets without a time namespace,
  are ignored.
* A `cgroupsPath` without a normal component is the root cgroup (`cgroup/v2.rs:47-78`).

## 5. What is proved

The proofs are checked by TLAPS without assumptions beyond those on the constants:
`VictimsAssumption` (the victims are among the three processes), `FifoAssumption`
(runners and killable starters are starters), `ExecAssumption` (layouts are sets of
namespaces), `HooksAssumption` (there is a hook, and pipes and state are not empty),
`LifecycleAssumption` (which operations there are, and that the init is no worker),
`BundlesAssumption` and `MaxOptionAssumption`, which no proof uses.

`BundlesAssumption` is what the types of `config.json` say after parsing: which fields there
are, that namespaces, devices and mounts are lists of records, that paths are sequences of
names and numbers are integers, that the map `unified` has a key once, and that a sysctl is
one of the cases the model tells apart: one of a namespace, a global one, or a name that leaves
`/proc/sys`. It says nothing of
validity: a list may be of any length and in any order, a bundle may be one that `spec`
refuses. Two of its parts are there for the provers. That `resolve` yields a path
again is true of every path, but `resolve` is a fold and its result would need
an induction over data. And `Names` lists the names that the code itself uses beside
`STRING`, because the provers do not know that a literal is a string.

**CreateProof**, for every set `Victims`: `TypeCorrect`, `CgroupFirst`
(`SetupInsideCgroup`), `SuccessIsReady` (`OkMeansReady`), `ProtocolAgrees`
(`NoProtocolError`), `FailureIsExplained` (`SyncClosedMeansKilled`), `FailureIsClean`
(`FailedCreateLeavesNothing`). None of these is inductive: whether the command can
read a wrong message depends on what the other two have sent and not yet sent. The
strengthening `IInv` therefore has a part for each thing a step relies on:

* `Conv`, the conversation: for each control point of the command that is inside the
  handshake, which packets are under way and where the other two can be. It is what
  makes `NoProtocolError` hold and what the rest is built on;
* `Packets`: the few sequences of packets that are ever in the socket;
* `Quiescent`: where the other two processes can be while the command cleans up;
* `Family`: who exists when (no init before the intermediate has forked it), and that a
  pending SIGKILL came from outside until the teardown sends its own;
* `Attached`: an init that has been released is in the cgroup;
* `OnDisk`: what exists on disk at each point of the command;
* `Cleaned`: what the clean-up has done by each of its steps.

`InitIInv` and `NextIInv` are the two halves of the induction, the latter with a step
for each action; every theorem then follows from `Invariance`.

**ExecFifoProof**, for any number of starters and runs, whoever may be killed and
whenever the container is paused:
`TypeCorrect`, `OneWinner` (`OkMeansStarted`), `UnlinkAfterRelease`
(`RunningMeansReleased`), `EmptyReadExplained` (`DeathExplained`), `CreatedIsExplained`
(`CreatedMeansUnstarted`), and `FifoImplementsGate`: `Spec => Gate!GateSpec`. The
invariant says where the single byte can be (`ByteInv`: not written, in the fifo, read
by one, or lost with its last reader), and what a starter at each point may rely on
(`StarterInv`). `StatusInv` builds on it: nobody waits in `open` once the init has its
end open, and the winner that goes on has removed the fifo.

**ExecProof**, for every set of layouts: `TypeCorrect`, `CgroupBeforeExec`
(`PlacedBeforeProgram`), `ErrorIsHonest` (`ErrorMeansNoProgram`), `JoinsAreExact`
(`JoinedWhileAlive`). The invariant has two halves beside the types. `Handshake` follows
the child: let go only by the packet, the packet sent only after the placement, and a
cgroup with a living process in it not removed. `Collected` is the loop invariant of
`collect`: while the init lives, the entries of `JOIN_ORDER` before `next` are joined
exactly if they are the container's own, the others not yet. It needs that the order names
each namespace once (`Order`).

**HooksProof**, for any number of hooks, any timeouts and any capacity of the pipes:
`TypeCorrect`, `StateArrives` (`WholeStateDelivered`), `FailureStopsFatal`
(`PhaseStopsAtFailure`), `HooksAreSequential` (`OneHookAtATime`), `NoEarlyKill`
(`FullTimeGranted`). The invariant has a part for each: `PipeInv`, that what was written is
in the pipe or has been read and that stdin is closed under a living hook only when all is
written; `PhaseInv`, what has become of the hooks before this one; `TimeInv`, that the
time that has passed and the time that is left make up the timeout.

**LifecycleProof**, for any number of commands at once and any number of processes:
`TypeCorrect`, `StoppedIsKnown` (`StoppedIsRecognised`), `DeletedIsDead`
(`DeletedMeansDead`), `CgroupIsReleased` (`DeleteFreesCgroup`), `PauseIsKept`
(`PauseHolds`), `KillsRestore` (`KillAllRestores`) and `EverybodyIsReached`
(`KillAllReachesEveryone`). `Base` is the types together with `Control`, which commands
reach which control point; every other proof uses it and has a small invariant of its own:

* `StoppedInv`: where a command that came too late can be, and that a pid once given back
  never is the init's again;
* `NamespaceInv` (a pid namespace has no process without its init) and `DeleteInv` (the
  init is dead before the cgroup goes, the cgroup is gone before `state.json` is);
  `RunInv`, the same for `run`, which needs no exception for a wait that is given up;
* `PauseInv`: nobody but the three commands that thaw writes 0 to `cgroup.freeze`;
* `RestoreInv`: a container that was not paused is frozen only while some `kill --all` is
  under way that found it so and has still to thaw it. This is the part that needs all
  commands at once: the one that thaws need not be the one that froze last;
* `EmptyInv` (a removed cgroup was empty) and `ReachInv`: while there is a list of pids the
  container is frozen, so that nobody forks, and who is left is struck or on the list;
  afterwards only processes with a pending SIGKILL are left, which do not fork either.

**SetupProof**, for all numbers: `SharesAreExact` (the code's formula, and both ends of its
range), `SharesInRange`, `SharesInOrder`,
`IoWeightInRange`, `IoWeightInOrder`, `SwapAndMemory` (the two files add up to a swap above the
memory limit; a swap at or below it is no swap at all); and for every `linux.resources`,
`FilesHoldWhatIsAsked`: what the last of the writes of `apply` leaves in each file.
The writes are a concatenation of some ten lists, so that the argument is about which
of them can name a file, and which comes last.

**SetupProof**, for every set of bundles: `PrivilegesAsAsked` (`ProgramPrivileges`). The
invariant `PInv` says of each step of the init what its credentials are by then (`Before`:
root of the host or of a user namespace; `Still`: the same with the bounding set and
an early filter; `Limited`: the user and the sets asked for; between these two a user other than
root may have lost all capabilities, `Permitted`), and the proof shows for each
privilege call that it either fails or takes one to the next. It does not depend on mounts,
cgroups or the validity of the bundle.

**IsolationProof**, for every set of bundles:

* `NamespacesAreAsAsked` (`NamespacesAsAsked`). The property is about the end of a long way;
  `NInv` says what holds on it. While joining nothing is new yet (`Joining`), while
  unsharing what is joined is exactly what has a path and what is new is owned by
  the user namespace the process is in for good (`Unsharing`: true only because the user
  namespace comes first), and after that all of it is in place (`Settled`). It needs that
  a validated bundle lists no kind twice.
* `HostIsUntouched` (`HostUntouched`), by `HInv`, which adds to `NInv` that the tree is
  private before anything is mounted and pivoted before anything else is done to it
  (`TreeKept`), and that nodes of the host are in the tree only where nodes are bound (`NoNodes`).
* `SetupTyped` (`TypeOK`), by `TInv`: the two above with `PInv` and the types of the credentials, which the
  calls keep in whichever order they fail.
* `LimitsAreAsAsked` (`LimitsAsAsked`), by `LInv`: until the init is attached the cgroup has
  all the writes and its final path, which nothing changes afterwards; the
  rest is `FilesHoldWhatIsAsked`.
* `HardeningLasts` (`HardeningHolds`), by `GInv`, which adds to `HInv` one part for each of
  the loops and what is left of it at every later step (`Hardened`): the
  read-only mounts made so far (`MountedTo`), all of them (`MountsHeld`), the same without what the console
  may cover (`MountsFixed`); the masks so far and all (`MaskedTo`, `MasksHold`); the
  read-only paths so far and all (`ReadonlyTo`, `PathsHold`); the root. The question at every step
  is what a mount does to the paths it is not about. The lemmas about the mount table answer
  it once per operation: `AddSees`, `SetRoSees`, `SelfBindSees` and `MakeSees` say which mount each
  path is on afterwards; `Bears` and `Leaves` are what follows for a mount that
  was made read-only while others are added; and `Narrows` is the relation that the
  hardening after the masks has in common: what was masked stays masked and what was read-only
  stays read-only, wherever the path.
* `RootfsIsAsAsked` (`RootfsAsAsked`), by `RInv`: `GInv` and `TInv`, and what is there
  after each entry of each loop (`Built`). The hard part is again what a step does to the
  paths it is not about, and that what exists at a path depends on the mount it is on.
  While the tree is built it is `Orderly`: every directory on the way to what exists is
  there too, so that a mount on top of a path hides what is below it and nothing else.
  `Grows` is what creating a node, a link or a device has in common (what was there still
  is, on the same file system); `Raises` what one entry of `mounts` does (all but what is
  below its destination is as before, and the destination is on what was mounted).
  `MountsTo` and `PtmxTo` are the loop invariants over the mounts, in which a mount counts until a
  later one covers it. From the pivot on only `Spares` is left: a step hides what is at or below
  a masked path or `/dev/console`, and no more. It holds of the console, the masks, the binds and the
  remounts (`ConsoleSpares`, `MaskSpares`, `NarrowsSpares`), and `PresentKept` says that everything
  asked for outlasts such a step. That the layers are those asked for, in their order, is
  `LayersAreMounted`: the options of the overlay mount, once more parsed by the kernel, give
  back the directories that `from_annotations` found.

**RefusalProof**, for every set of bundles: `FailsOnlyIfRefused` (`FailsIfRefused`). The
theorems above say what a step leaves if it succeeds; this one needs the converse, what a
step needs in order to succeed, and that all the steps before it left that as it was. The invariant
`FInv` has a part for each source of failure, over `RInv`:

* `CInv`: the namespaces are exactly those of the layout as far as the init has come
  (`Owned`: a join can only succeed where the user namespace it was made in is already joined, and
  the clocks' path is looked up before the mount namespace is), and the credentials are
  exactly, not at most, what the capability sets and the user that are asked for make of
  them (`Exact`, and `PermLeft` once the user has changed): only then is a refusal by the kernel
  one that the bundle asked for.
* `Met`: which of the reasons in `Refused` are behind the init at each step. This is the half
  for containers that run: they are past all of them, so that none holds. `Passed`, proved beside
  `FInv`, is the same for the filter and the privilege calls. The two steps that may fail or not are
  `StarvedFilter` (the filter is the one asked for as soon as there is one) and `OverflowFStep` (a
  tmpfs that is to be seen is a mount of the bundle).
* `Viewed`: what the tree shows at each step of building and hardening it, whether or not
  the bundle has a reason to fail: the mounts that a later step looks up are there or covered, and
  `/proc` is what the container's own mounts, masks and read-only paths make of it (`KeepsProc`,
  `MaskedProc`, `Bound`). It decides the sysctls and what `Unstartable` says.
* `Smooth`: what holds of the tree while no reason of `TreeRefused` applies. Every mount can be
  bound again and the working directory exists (`Bindable`, `CwdIn`), until the nodes are made there
  is room for them and nothing is in their place (`Roomy`), the null device is there for as long as
  masks need it (`HasNull`, `NullMasked`), only mounts of the bundle are remounted (`Clearing`), and the
  sysctls can be written (`WritesProc`).
* `Works`: no step goes on after a call on the tree has failed.

`FStep` is what each step then has to keep, one lemma per step (`NodesFStep`, `MaskFStep`, ...,
all of them in `NextFSteps`); `NextFInv` and `InitFInv` are the induction. `RefusedNext` covers the
steps that do not touch the tree, `FInvProcSound` and `FInvCwdSound` the two questions that are about
the tree at the very end.

Some invariants turned out not to be true of every bundle as they had first been
stated, though of every bundle that was sampled, when the proof got to the case. The property says
now what does hold, and a bundle for each case is among the samples. A remount without `ro` at
the place of an earlier read-only mount makes that writable (`Loosened`); a mount or a device below
`/dev/console` is covered by the terminal (`UnderConsole`, `BelowConsole`); the pseudo-terminals'
`/dev/ptmx` is lost with a later mount on `/dev`, though their own mount is on another path
(`CoveredAfter`); and a limit in `unified` takes the place of the one that a field of its own asks
for (`Ours`). A new file system had to be told apart from those that were mounted before, of
the same type at the same place (`NewFs`).

`FailsIfRefused` went the same way: its reasons had been what a user would write down, and the proof
asked for each of them what all bundles can bring. A mount without room for what is
made in it (`Blocks`), a node below another one (`Nodes`), a mount on `/dev/ptmx` beside the
pseudo-terminals, a file that is to be masked after `/dev` is, and a root that is made unbindable
(`HardeningRefused`) were missing or too coarse. What a step finds at
`/proc/self` and `/proc/sys` is the kernel's only on a proc file system mounted at `/proc`
(`ProcSeen`), not wherever something is at that path, and `HasProc` asks the same of
the bundle's mounts.

The theorems assume of a bundle what `BundlesAssumption` says, which are the types of
the fields of `config.json` with the paths of mounts and devices made absolute.

Left to TLC is liveness, since the prover does not reason about `ENABLED` and fairness. Every
invariant and every action property that a passing run checks is also a theorem.

## 6. Reading the models against the code

`PROJECT.json` maps each definition to its lines. What has been abstracted: the
contents of messages (`InitPid` carries a pid, `Failed` a reason), the reason of an
error down to its kind, and the several ways a step can fail down to one; in `Create`
also everything inside the set-up of the init, which is what `Setup` is about. A step of the model
is what lies between two system calls that others can see. Polling loops are one step
that may be taken when their condition holds or when their time is up; 2 s, 5 s and
10 ms have no length in the models.

In `Setup` a step is a call of `create` or of the init that the later ones depend on, and one
entry of a list. Not distinguished: `mknod` that is refused and falls
back to a bind (the result is the same node); the two syntaxes of a lower directory
list; a seccomp rule with arguments, which is taken to match none of the calls that the
set-up itself makes; id mappings written by the kernel's files or by the `newuidmap`
helpers; the number behind an id, a mode, a device or a rate. Overlay's kernel rules are
those the checks of `prepare` are meant to anticipate. The host is a root user, a unified
cgroup hierarchy with six controllers and a shared mount tree.

## 7. What is not modelled

* Two `create`s of one id at the same time, and a second container under an id that is
  being deleted. The code has no lock against either, and nothing to tell the generations
  apart by; every property would have to except the other command's clean-up.
* The parent directory that all cgroups share: its creation and removal by several
  commands. `update`, which is `apply` of `Resources` on a live container.
* The exit code of `run`, and how it is explained from the cgroup's counters. That
  poststop hooks run twice for `run --keep` and a later `delete`: hooks of a phase are
  one step in `Lifecycle`, or none.
* The length of a message on the socket: messages are model values.
* Inside a step of `Setup`: the modes and numbers of devices, the parser of option
  strings down to characters, id arithmetic, compilation of a filter down to BPF.
* Telemetry, logging, the command line, `list`, `ps`, `spec`, `features`, `events` and
  its interval: straight-line formatting and I/O that no other command depends on. The
  bounded parser of intervals and the calendar of timestamps are arithmetic that unit tests reach.
* `rootless` operation without a cgroup.

## 8. State of the plan

Done: `Create`, `ExecFifo` with `StartGate`, `Hooks`, `Lifecycle`, `Exec`, `Setup` with its
five parts, and proofs about all of them. What would come next, should the code change:

1. A lock per id in the state directory would make the first item of section 7 worth a
   module: an abstract specification of an id (one container at a time) that `Create`,
   `Lifecycle` and the clean-up together implement.
2. A pidfd in `state.json`'s place of pid and start time would strengthen
   `StoppedIsRecognised` to the moment of the signal.
3. A module for the shared parent cgroup, once its removal retries the creation it races with.
4. Setting the deadline of a hook before its state is written, and writing without
   blocking, would turn `TimeoutsAlwaysHonoured` into a property that holds.

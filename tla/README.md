# mobile-config: a TLA+ verification project

mobile-config is a NixOS configuration for two phones. Most of it is
declarative; the parts with behaviour of their own are one C program on the
device (`modules/console/panel.c`), one C helper for the radio chip
(`modules/connectivity/wmt-loader.c`), and the shell and Nix-embedded scripts
that put a system on a phone that has no other way in: deploying a root
filesystem in chunks over fastboot or ssh, switching generations behind a
rollback timer, and logging a boot to a raw partition. This directory models
those parts, checks the models with TLC and proves theorems about them with
TLAPS.

## Inventory

| Component | State | Operations | Hard behaviour |
|---|---|---|---|
| key decoder (`panel.c` `keys_readable`, `keys_timeout`, `keys_deliver`) | `held`, `held_repeats`, `announced`, `pending`, `due_ms` | decode a press, a release; serve the hold/repeat deadline | deadline against unread release, late loop, evdev overflow, restart in the middle of a press |
| key daemon and key socket (`keys_command`, `keys_listen`, `keys_connect`, panel main loop) | listening socket, `keys_client`, epoll set, the panel's `sock_fd` | accept and displace, write a token, notice a closed panel; connect, reconnect every interval | batches of epoll events handled one after the other, reused descriptors, two panels, restarts of either side |
| backlight (`display_on/off/toggle`) | brightness node, saved level in the state directory | on, off, toggle, by three kinds of process | read-then-write without a lock, a file nobody creates |
| views (`handle_char`, `handle_action`, pager, menu) | `view`, `menu_sel`, pager buffer and position, the frame on screen | keys, ticks, activation | what is on screen against what a key does, shrinking live logs |
| frame buffer (`out`, `render`) | two frames, screen rows | build, diff, repaint | the diff against what the terminal shows, foreign output |
| dashboard collectors, formatting, log sources | none that outlives a frame but the previous CPU sample | read proc/sys/utmp and the journal, compute, list into fixed buffers | full tables and buffers, rounding at the changes of unit |
| panel main loop (`main`) | `sock_fd`, `ts_fd`, `registered_ts`, `tick`, the stop flag | handle a batch, register a new pipe, sample, `--once` | reused descriptors, a signal outside the wait, a drain that blocks |
| tailscale child (`tailscale_start/drain`) | `ts_fd`, `ts_pid`, `ts_buf`, `ts_count`, last answer | fork every sixth tick, drain, reap | output in any pieces, a failed child, a child that never ends blocks the loop |
| WMT loader (`wmt-loader.c` + unit) | kernel's latched chip id, patch table, power state | detect, set patches, power on, serve requests | failing step followed by a restart of the process |
| deploy guard (`deploy-guard.nix`, `switch.sh`) | transient timer and service, profile generations, the running system | arm, set, switch, confirm, roll back | confirmation racing the timer, a step of the host that fails, generations that were undone |
| chunked deploy (`deploy.sh`, `deploy-ssh.sh`, `flash-bootimg.sh`) | chunks on the device, superblock magic | write chunks, verify, write chunk 0 last | interrupted transfer must not look bootable |
| bring-up log (`modules/bringup-log`) | two-slot ring on a raw partition | invalidate, write payload, write header; read the newer | power cut at any block, a slot reused under its old header |
| BCB (`bcb.sh`, latch/unlatch) | boot control block | write, clear | padding a short write |
| OTA tools (`devices/huawei-marie/tools/*.py`) | none (pure) | LZW, container walk | boundaries of variable code widths |

The panel is one process with one `epoll` loop; the key daemon is the same
binary run as a service. They meet at a unix socket (tokens for decoded keys),
at the backlight node and its saved level, and nowhere else. The deploy scripts
run on a host and act on a phone over adb or ssh; stage-1 of the phone parks when
the root partition has no ext4 magic, which is what the scripts build on. The WMT
loader talks to the kernel only and is started by systemd.

What makes each part correct:

* key decoder: a press has one outcome; a deadline is served; and as long as the
  input buffer drops nothing, a short press never opens the menu (which holds the
  reboot entry) and no volume key runs away;
* key socket: no descriptor leaks, every panel is served in the end, a panel that
  has gone is noticed, the power key works without a panel;
* backlight: whatever overlaps, "on" lights the display, and an operation nobody
  disturbs has its effect;
* views: the frame on screen is the state a key acts on; the pager stays in its
  log; nothing reboots that was not highlighted;
* renderer and dashboard: the terminal shows the last frame, the body of the last
  sample, the tagline on the last row;
* chunked deploy: what boots is one system or the other and nothing is written under
  a running one, as far as the script's own view of the device goes; "WRITE
  COMPLETE" is true, and a re-run reaches the end;
* panel loop: every child is read and reaped, the peers shown are of the last one
  that succeeded, the lists are of the tables, and a request to stop is served;
* deploy guard: no unconfirmed system runs unwatched, confirming too late changes
  nothing, an undo is final, and a system that broke the device is undone;
* bring-up log: the reader gets the last published snapshot, whole, and nothing of
  an earlier boot;
* WMT loader: the chip is on only with all its patches in order, no restart hides
  a failed init, and a failed power-on can be repeated.

## Modules

| Module | Models | State and actions against the code |
|---|---|---|
| `KeyDecoder` | `keys_readable`, `keys_timeout`, `keys_deliver`, the deadline of the daemon's loop | `held`, `held_repeats`, `announced`, `pending`, `due_ms` are the code's statics; `queue` is the evdev client buffer with its overflow; `pc` is whether `epoll_wait` has returned and why, so that keys and clock move between the return and the handler |
| `KeySocket` | `keys_command`'s loop, `keys_listen`, the socket, and `keys_connect` of the panels | `batch` is `events[]`, an array of descriptor numbers fixed at the return of `epoll_wait`; `fdtab` is the descriptor table with lowest-free reuse; `rdl` the epoll ready list |
| `Backlight` | `display_on`, `display_off`, `display_toggle`, `wake_guard` | one action per access to the node or the file, per process |
| `PanelViews` | `handle_char`, `handle_action`, `menu_activate`, the pager, `stdin_readable` | the code's names; `shown` is the frame the user sees; a log is its source, length and reading |
| `Screen` | `struct screen`, `render`, the terminal | `phys` is the terminal; a line is equal to another or not |
| `Dashboard` | `out`, `logo`, `tagline`, `build_dashboard`, the two timers | extends `Screen`, whose `render` is its last step; one step per stage of a repaint |
| `Collectors` | the meters, lists and log sources of `panel.c` | pure operators: a text is the numbers it is printed from, an entry of a list its name and width; `Put` is the `snprintf` into what is left that all the lists share |
| `PanelLoop` | `main`, `tailscale_start`, `tailscale_drain` | `batch` is `events[]`, `registered` the epoll set; the child writes, closes and exits on its own; a frame is what `Collectors` makes of the tables sampled |
| `ChunkDeploy` | `deploy.sh`, `deploy-ssh.sh`, `latch.sh`, `unlatch.sh`, the guards of `lib.sh` | the flash chunk by chunk with the magic apart; `pc` is the step of the script; `blind` is a history of what the script was not told: a mount list or a `magic_zero` that was lost |
| `Deadman` | what the deploy guard promises | abstract: the running system, the watch on it and how it came to run |
| `DeployGuard` | `deploy-guard.nix`, `switch.sh` | `host` is the step of the script, `sw` and `rb` the units `nixos-switch` and `deploy-guard`; `gens` and `profile` are nix-env's; refines `Deadman` (`IsDeadman`) |
| `BringupLog` | `modules/bringup-log`, `read-log.sh` | header and payload blocks of the two slots; a power cut keeps any part of the payload that is being written |
| `WmtLoader` | `wmt-loader.c` and its unit | one action per group of calls with the same exit; the kernel's latch, patch table and requests are external and outlive the process |
| `MC*` | | values for the constants; `MCPanelLoop` also compares the operators of `Collectors` with reference definitions on every small input, as assumptions TLC evaluates |
| `*Proofs` | | theorems and proofs |

A definition that ends in an underscore and a few words (`Release_keeps_held`,
`collect_truncates`) is the one it precedes with a plausible mistake in it. The
specifications do not use them: they are there to show that each property can
fail.

## What the runs check

| Run | Shows |
|---|---|
| `key_decoder` | every interleaving of a power, a volume and an ignored key, the clock, a late loop, an overflowing buffer and restarts: `ClickXorHold`, `NoBurst`, `PressActs`, `HeldIsHeld` and `ShortPressIsNoHold` for a press since which the buffer has dropped nothing, and `DeadlineServed` under fairness |
| `key_socket` | two panels, three starts, two daemon lives: `NoLeak`, `PowerFallsBack`, and under fairness `PanelServed`, `GoneIsNoticed` and `KeysRead`, the three up to the wedge of finding 1 |
| `key_socket_wedge` | two panels: `KeysServed`, which allows no wedge, is violated (finding 1) |
| `backlight` | daemon and panel at once: `OnLights`, and `EffectSeen` for an operation no other write overlaps |
| `panel_views` | tokens, typed keys, CSI sequences and ticks, logs that are empty, short and long: `FrameCurrent`, `PagerInRange`, `RebootDeliberate`, `EscapeSilent` |
| `dashboard` | bodies of any height, both ticks, other views, foreign output: `InSync`, `RowsStayRight`, `BodyShown`, `TaglineFits`, and `FrameShown` for a screen of at most `MAX_ROWS` rows |
| `panel_loop` | children, ticks, keys, hang-ups and signals in any order, tables below and above every limit: `PeersRight`, `FrameRight`, and under fairness `ChildReaped` and `StopServed` |
| `chunk_deploy` | four chunks, six faults, any number of runs, on parked and on running devices: `CompleteIsWhole`, `Resumes`, `MagicHeld` as long as no `magic_zero` is lost, `TrailingUnmounted` as long as no mount list is either |
| `deploy_guard` | four systems, four generations, every event: `Watched`, the refinement `IsDeadman`, and under fairness `Recovers` |
| `deploy_guard_stuck` | one good and two bad systems, no other event: `ComesBack` is violated (finding 2) |
| `bringup_log` | three boots, a power cut anywhere: `LastSnapshotRead`, `NothingOlder` |
| `wmt_loader` | eight directories, two failing calls, a kill: `PatchesTold`, `ActiveIsInitialised`, `NoSelfStall`, `WlanUp` |

### Bounds

* `KeyDecoder`: `HoldMs` 2 and `RepeatMs` 1 with `MaxTime` 4 let a press be
  short, exactly at the threshold, and long enough to repeat twice; five key
  transitions are two overlapping presses and the start of a third; a buffer of
  two events overflows.
* `KeySocket`: displacement needs two panels, descriptor reuse two client
  descriptors, a blocked write a buffer of one token, a restart two lives; with
  three starts a panel that died comes back while the other one is served.
* `Backlight`: a race needs two processes; two levels tell the default from
  another. A process runs any number of operations.
* `PanelViews`: with eight rows a page is five lines (`pager_rows` never goes
  below that); logs of 0, 3 and 7 lines are an empty one, one that fits and one that
  scrolls, and a followed log may change between them. The escape sequences are the
  control sequences; a lone ESC and `ESC O` are left out (see below).
* `Dashboard` has nine rows because the logo with its gaps needs that many to be
  drawn; bodies of up to 11 lines exceed `MaxRows` 10, so that frames end below,
  at and past the last row. `Rows` below `MaxRows` is the case `FrameShown` is
  about; the other one is described below.
* `PanelLoop`: three descriptors for a socket and a pipe; a line buffer of three
  characters and reads of four cut lines and overflow the buffer; an output with
  two lines, the last unfinished, and one without a peer; tables with more
  connections than `MaxConns` 3, more ports than the line holds, a port in both.
* `DeployGuard`: two good and two bad systems, four generations: two deploys after
  an undone one.
* `BringupLog`: a ring of two lines overflows, five snapshots reuse both slots,
  three boots leave an older one behind the last two.
* `ChunkDeploy`: chunk 0, a chunk common to both systems and two that differ; six
  faults exhaust the three tries of a chunk and interrupt a second run. A fault is a
  reset, an interruption, a truncated write, a lost answer (of a hash, of the mount
  list, of a guard), a lost `magic_zero`, or a run started on a device that is not
  parked.
* `WmtLoader`: two faults are a failing call and a failing retry; `MaxPatchNum` 2
  makes three files too many.

The safety properties are proved without these bounds (below).

### Fairness

Weak fairness only, and only of what something is responsible for:

* `KeyDecoder`, `Dashboard`: the process is scheduled while it has a step to take;
* `KeySocket`: the daemon is scheduled and restarted by systemd (`Restart=always`
  in `default.nix`), a panel's interval timer fires and its socket is read. Nobody
  owes a key, a start or an exit;
* `PanelLoop`: the process is scheduled, the stats timer is periodic, and
  `tailscale status` writes, closes its output and exits. The last is not the
  panel's to guarantee: see below;
* `DeployGuard`: systemd runs its timers and units to their end, and `switch.sh`
  goes on and gives up. Nobody owes a deploy or a confirmation;
* `ChunkDeploy`: a script goes on, a device that is off is switched on and boots,
  and the operator parks the device and runs the command again, as the script's
  own message tells him to. Faults are finitely many (`MaxFaults`);
* `WmtLoader`: processes are scheduled, the kernel's waits end (6 s), systemd
  restarts exit status 1, and somebody writes to `/dev/wmtWifi` again after a failed
  power-on, as `wmt-loader.c` expects. Faults are finitely many.

`CHECK_DEADLOCK FALSE` is set where the bounds end a behaviour or the system may
stop: all keys pressed and all starts used, a deploy done, a unit stopped.

## What is proved

The constants of a theorem are arbitrary values that satisfy the named assumptions
of the modules it is about: `ConstantsAssumption`, or `ScreenAssumption`,
`LinesAssumption`, `BacklightAssumption` and `LogAssumption` where two modules meet
in one proof. They say what kind of value a constant is and which bounds are not
zero, and TLC evaluates each of them. Every invariant has the same argument: an
inductive strengthening holds initially and is kept by every action, and the
property follows from it. What had to be added is where the design is.

* `KeyDecoderProofs`: `ClickXorHold`, `HeldIsHeld` and the action properties
  `ShortPressIsNoHold`, `NoBurst` and `PressActs`, from `IInv` (`Invariance`).
  `ClickXorHold` is not inductive: the count of outcomes has to be tied to
  `announced` and `pending` (`OutcomeInv`). `HeldIsHeld` needs that every unread
  press is of a key still down or is followed by its release (`QueueInv`), and
  `NoBurst` how `due_ms` relates to the timestamp of the press and to the last step
  (`DeadlineInv`). `ShortPressIsNoHold` is about when the finger was really lifted
  (the history `lifted`), not about what is in the buffer; the proof needs that a
  release is still unread whenever it was made, unless the buffer overflowed
  (`LiftedInv`). `HeldIsHeld` and `ShortPressIsNoHold` except a press since which the
  buffer has dropped events (`lost`), because the code cannot know of it.
* `KeySocketProofs`: `NoLeak` and `PowerFallsBack`, for every set of panels,
  descriptors, batch and buffer. `PowerFallsBack` needs that a panel that has ended
  holds no connection (`DeadInv`). A lemma says of every step, and not only of the
  wait, that what the daemon must still see is on the ready list (`WakeInv`).
* `DashboardProofs`: `InSync` and `RowsStayRight` of `Screen` for every screen height,
  every `MAX_ROWS` and every sequence of frames. The argument is per row: a row that
  is skipped equals the previous frame's, a row that is written holds its own line,
  because no row above the last is the clamp of another. `Dashboard` implements
  `ScreenSpec` (`ImplementsScreen`: every step of the dashboard is one of the renderer
  or leaves it alone), so that `InSync` carries over to its frames
  (`DashboardInSync`). `BodyShown` and `TaglineFits` need what each stage of a repaint
  hands to the next (`DashboardInv`): the cache begins with the body, the logo ends
  on the last row where there is room, and the tagline takes that row.
* `PanelProofs`: `FrameCurrent`, `PagerInRange` and `RebootDeliberate` of `PanelViews`
  for every number of rows and every log, `EscapeSilent` for a terminal whose
  sequences are all control sequences (an arrow of application mode is not one, see
  below). `EffectSeen` and `OnLights` of `Backlight` for any number of processes:
  the invariant says what each process has found out so far and that it still
  holds while nobody else has written (`OnItsWay`).
* `PanelLoopProofs`: `PeersRight` for every size of the line and of the read, every
  output and every number of children. `Right` says what the line kept and the count
  are after any number of characters of an output: the start of the line that is not
  finished, and the lines before that begin as a peer's. A read of any length keeps
  it (`DrainedRight`), and what was read, what is in the pipe and what is to come are
  the output of the child (`InTransit`). `FrameRight` for all tables and every limit:
  only the step that samples makes a frame, and its loops are followed one after the
  other, the ports of the connections read (`PortsFacts`), sorted (`Qsorts`), without
  repetition (`UnrepeatedFacts`), and as many of them printed as there is room for
  (`PutFacts`, `ListedFacts`). Of the meters of `Collectors`, for all
  readings: the share of the CPU and of the disk is a percentage
  (`CpuIsPercentage`, `DiskIsPercentage`), a bar never overruns its width (`BarFits`),
  and an uptime is shown less than a minute short (`DurationExact`).
* `FlashProofs`: `MagicHeld`, `TrailingUnmounted`, `CompleteIsWhole` of `ChunkDeploy`
  for every number of chunks, tries and faults. `IInv` is `TypeOK`, `MagicHeld` and
  `InOrder`, which says what the script's position implies about the flash: past
  chunk c of the loop every earlier trailing chunk matches, and while the loop
  is in the trailing chunks the magic is gone unless its zeroing was lost, and the
  root is not mounted unless the script was `blind`. `MagicHeld` alone does not say
  why chunk 0 may be written. The first two are conditional on `blind` because
  the scripts are: see the lost `magic_zero` below. `CompleteIsWhole` is not. `LastSnapshotRead` and `NothingOlder` of `BringupLog` for
  every ring, payload and number of boots: the two headers carry the last two
  sequence numbers (`HeadersInv`), so that the slot being rewritten is never the one
  the reader prefers.
* `DeployGuardProofs`: `Watched` and `IsDeadman`, for every set of systems, every
  set of events and every bound. The refinement maps the timer and the steps of the
  rollback to the abstract watch; each action is shown to be one abstract step or
  a stutter. What it needs beyond types is that the timer waits only while no
  rollback runs: an elapsed timer is gone, and arming stops both.
* `WmtLoaderProofs`: `PatchesTold`, `ActiveIsInitialised` and `NoSelfStall` for every
  directory of patches, every table size and any number of faults and kills.
  `PatchesTold` has to follow a search from its first file to its answer
  (`SearchInv`), a command from the kernel to the loader and back (`AskInv`), and to
  know that a restarted loader never changes the size of the table (`NumInv`).

Induction, over the characters of an output and over the entries of a table, goes
through the least element of a set of numbers (`Least`, `Induction`): the induction
theorems of the library take an operator, which the provers do not instantiate. For
the same reason a loop is given to `Recursion` and `Loop` as a function and what it
keeps as a family of sets, and the loops of the code that are proved about are
recursive functions in the model.

Two assumptions of the proofs are about the world: the ports and states read from
`/proc/net` are numbers and words (`ConstantsAssumption` of `PanelLoop`), and a
terminal's sequences are control sequences (a hypothesis of `EscapesAreSilent`).

Only model-checked: all liveness properties (`DeadlineServed`, `PanelServed`,
`GoneIsNoticed`, `KeysRead`, `FrameShown`, `ChildReaped`, `StopServed`, `Recovers`, `Resumes`,
`WlanUp`), which the prover does not do, and the lists that are in no invariant
(processes, users, sessions, failed units, the journal, addresses), which
`MCPanelLoop` compares with reference definitions on every small input: they
are made with the selections, sorts and folds of the libraries, which the provers
cannot expand.

## Findings

1. `panel.c:2466`: an event of a batch is matched to the client by descriptor
   number. A failed write earlier in the batch closes the client, the accept of
   the same batch gets its number, and the stale event makes the daemon block in
   `read` on a panel that never writes. No key works until the panel dies.
2. `deploy-guard.nix:55`: the rollback goes to the generation numbered below the
   profile's. A generation that was undone keeps its number and the next deploy
   counts on after it, so that a second bad deploy is rolled back to the first bad
   one. The device stays unreachable, and nothing is armed any more, although the
   comments promise the generation that was replaced. `Recovers` is what does
   hold: a bad system directly above a good generation is undone.

Behaviour met while modelling that has no run of its own:

* `panel.c:410`: `write_num` opens without `O_CREAT` and nothing creates the file
  that keeps the level (`default.nix:276` creates the directory, `display_on`
  unlinks the file), so that a display switched off and on comes back at the
  default level, although `default.nix:33` calls the directory the place "where the
  level survives a screen-off".
* `deploy.sh:119`: a failure in chunk 0 prints "magic left at zero", although the
  write has already put the magic in place. The trailing chunks are all new then
  (`MagicHeld`), and a re-run completes (`Resumes`).
* `lib.sh:129`: `magic_zero` is an `adb exec-in`, whose data may be lost without an
  exit status, and the status of its `dd` is replaced by that of the `sync` after it.
  Unlike a chunk it is not read back. When the magic is in place as a run starts (a
  device in its boot window, or unlatched in the same session) and the two bytes
  are lost, the trailing chunks are written under a superblock that boots, although
  `deploy.sh:17` says "With the magic held at zero until everything else verifies, an
  interruption re-parks the device in stage-1". `NeverHalf` of `ChunkDeploy` is the
  promise, `MagicHeld` what holds of it.
* `deploy-ssh.sh:107`: a mount list that does not come back is an empty one (`|| true`),
  and `dsh` of `lib.sh` swallows the death of adb in the same place, although the
  comment of `require_unmounted_root` (`lib.sh:61`) says that "Unreadable inputs abort
  rather than warn". A run started on a device that is running then writes under
  its mounted root.
* `panel.c:2169`: the decoder ignores `SYN_DROPPED`. When the buffer overflows and a
  release is among what was dropped, a volume key repeats until the next release of
  it, and a short press of the power key is announced as a hold.
* A late loop turns a long press into a click (`panel.c:2189`, the deadline counts
  from the decoding); two living panels displace each other on every tick
  (`panel.c:2457`), each of them served in between.
* The escape filter ends `ESC O A` at the O, so that an application-mode arrow
  types an A (`panel.c:2202`); after a lone ESC it swallows
  what is typed up to the next letter.
* The tagline is pushed past the last row by a body that leaves less room than the
  gaps need (`panel.c:1272`). The screen height is the terminal's `ws_row`
  (`panel.c:368`), which nothing bounds by `MAX_ROWS`; on a taller one the padding loop
  never ends, because `out` has no room for another line (`panel.c:1281`). TLC shows
  it as a violation of `FrameShown` without its condition (`Rows` 11, `MaxRows` 10).
* A child that writes something and then neither ends nor closes its output holds
  the panel in `read` (`panel.c:1153`), although the comment above it says that the
  count lands on a later frame "rather than holding one up"; `ChildReaped` and
  `StopServed` rest on a child that ends.
* A list whose buffer is full shows what fits of an entry: of a port, its first
  digits (`panel.c:932`).
* A journal without a matching entry shows one empty entry: the loop formats before
  it asks for the next, and "-- no entries --" is never reached (`panel.c:1662`).
* A host whose `--set` fails, or that is interrupted after the arm, leaves the timer
  armed: it rolls back a system that was confirmed before (`switch.sh:83`). A
  confirmation after the timer has elapsed says "confirmed" and the rollback goes
  on (`deploy-guard.nix:95`): `IsDeadman` lets the message pass and requires that it
  changes nothing. A rebuild that sets the profile between the two steps of a
  rollback and then dies has the rollback switch to its new system, which then runs
  unwatched; the model counts what a rollback switches to as undone, so that
  `Watched` does not object.
* A power cut between the clearing of slot A and of slot B leaves the header of B,
  which may stand over a payload that an earlier cut tore: the reader shows it as a
  snapshot (`bringup-log/default.nix:73`).
* A restarted WMT loader fails every `srh_patch`, because `announced` is of the
  process and the patch table of the kernel (`wmt-loader.c:217`); the chip is never
  on with a wrong table for that (`PatchesTold`), because it is never on again;
  `WlanUp` excepts a loader that was killed.

## Assumptions and what is left out

* Formatting, colours and column widths: a line, token or message is a value.
* evdev, epoll, unix sockets and the vt are modelled from how `panel.c` uses them
  (level-triggered epoll, lowest free descriptor, clamped row addresses).
* `ChunkDeploy`: the close of the partition by `dd` writes it back; a boot takes
  longer than the one command between the mount check and the zeroing of the magic;
  starting on a device that is not parked is a mistake and counts as a fault;
  nobody unlatches by hand over an incomplete deploy; there is one phone; stage-2's
  own writes to its root are not modelled.
* `WmtLoader`: the kernel is what the comments say of it; a running loader answers
  within 6 s; a stopped unit is not started by hand; `readdir` reports the whole
  directory (`wmt-loader.c:164` does not tell an error from the end of it).
* `KeyDecoder`: a run has finitely many key events, so that a node that is readable
  for ever is not among its behaviours.
* `PanelLoop`: the events of a batch are handled in any order (epoll has one, which
  the code does not rely on); the logo's timer and the fifo that stands in for the
  keypad off the device are left to `Dashboard` and `KeyDecoder`; a peer's "100." is
  two characters.
* `DeployGuard`: the timer does not elapse during a switch, which `timeoutSec` is
  chosen to outlast, nor between the host's arm and its set; two switches do not
  overlap; the device does not answer while units restart; the generations that
  garbage collection keeps are all of them.
* `BringupLog`: `dd` returns after its fsync and fails only with the power; a block
  is written whole or not at all; a line fills a block.
* Not modelled: reading and splitting the text of `/proc`, `/sys` and utmp (covered
  by the repository's golden-frame tests), sd-bus queries, the configuration
  reader, option declarations, kernel patches and build descriptions. `PROJECT.json` lists each
  part with its reason.

## Plan

Done: the console panel with its loop, child and readings, its daemon, the chunked
deploy, the deploy guard, the bring-up log and the WMT loader. Next:

1. Theorems: the other lists of `Collectors` (`top_rss`, `ssh_users`, `failed_units`)
   with the lemmas about loops of `PanelLoopProofs`.
2. `bcb.sh`, `flash-bootimg.sh`, `resize-rootfs.sh`: short sequences that share
   `lib.sh`'s guards with `ChunkDeploy`.
3. LZW and container offsets of the OTA tools, as operators checked against a
   reference definition.

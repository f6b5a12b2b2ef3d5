# Verification of spm.SysOps

This directory holds TLA+ specifications of the programs in this repository,
TLC configurations that check them on small instances, and proofs, checked by
TLAPS, of what must hold on instances of every size.

    tlc -config MCSpinBarrier.cfg SpinBarrier.tla      # a run (see "Runs")
    tlapm SpinBarrierProofs.tla                        # proofs about that module

Paths below are relative to `src/`; `file.c:n` is a line of that file.

## 1. The system

The repository is a network boot environment: five programs that run one after
the other, or on different machines. `atftpd` serves the boot loader to the
machines; `lpxelinux.0` (syslinux) or iPXE then runs on them, fetches a
configuration over HTTP and starts what it names; `memtest86` and `dmidump` are
among the things that may be started. Between programs there is only the
network; inside a program there are CPUs (memtest86), threads (atftpd) or
callbacks and polling loops (iPXE, syslinux).

| component | state | operations | interacts with | what is hard | what makes it correct |
| --- | --- | --- | --- | --- | --- |
| **memtest86: SMP barriers** `smp.c:30-97` | `struct barrier_s`: `count`, lock, two gates, twice | `barrier_init`, `barrier`, `s_barrier` | every other part of memtest86 runs on it | all CPUs store to four words at once; the lock is unfair; the barrier is reused at once | nobody leaves before all have arrived, nobody is lost or counted twice, every call returns |
| **memtest86: SMP boot** `smp.c:176-293, 594-856`, `main.c:272-440` | `num_cpus`, `act_cpus`, `start_seq`, `cpu_ord`, ordinals, the boot stack, `AP[].started` | `initialise_cpus`, `smp_boot_ap`, `boot_ap`, start of `test_start` | barriers, CPU discovery | an AP may answer after its timeout, or never; ordinals are handed out by the APs | dense distinct ordinals, one user of the boot stack, every CPU reaches the test loop |
| **memtest86: test scheduler** `main.c:441-691` | `win_next`, `window`, `winx`, `test`, `ltest`, `cpu_sel`, `mstr_cpu`, the address the program runs at | the window loop, `run_at`, `test_setup`, `next_test` | barriers, patterns, memory map | plain globals that every CPU reads while one advances them; the program moves itself while the CPUs run it | the CPUs stay in step, no test of the memory in use, no page left out |
| **memtest86: CPU discovery** `smp.c:306-592, 653-790` | the list of APIC ids | MP table, RSDP, RSDT, MADT | SMP boot | tables of the firmware, with lengths of their own | every enabled CPU once, the boot CPU first |
| **memtest86: patterns** `test.c` | segment and chunk bounds | `addr_tst*`, `movinv*`, `modtst`, `block_move`, `bit_fade_*` | scheduler, errors | splits among CPUs and 256 MB chunks, inclusive ends | every word is written and checked, none outside the segment |
| **memtest86: memory map** `memsize.c`, `config.c` | `v->pmap` | e820/e801 readers, `sanitize_e820_map`, `sort_pmap`, `adj_mem` | scheduler | overlapping and unsorted input in fixed arrays | sorted, disjoint, usable memory only |
| **memtest86: errors and progress** `error.c` | counters, the error list | `error`, `update_err_counts`, `do_tick` | patterns, barrier lock | counters shared by CPUs | no error lost |
| **memtest86: console, CPUID, set-up** `lib.c`, `rlib.c`, `cpuid.c`, `init.c` | screen, serial port | output | all | - | pure I/O |
| **atftpd: transfer** `tftpd_file.c` | block numbers, timeouts, state of one transfer | `tftpd_send_file`, `tftpd_receive_file` | threads, lists, packet I/O | lost, late, repeated packets; timeouts; cancellation; clients joining a multicast transfer | the client gets the file and only the file, the transfer ends, nobody is forgotten |
| **atftpd: server and threads** `tftpd.c` | `tftpd_cancel`, `stdin_mutex`, threads | `main`, `tftpd_receive_request`, `signal_handler` | lists, transfer | a mutex passed from thread to thread, signals at any moment | one reader of stdin, exact thread count, clean stop |
| **atftpd: lists** `tftpd_list.c` | list of threads, per-thread list of clients | add, remove, find, next, done, kill | threads, transfer | the head is read outside the lock; threads are found and then used | no dangling pointers, no client lost |
| **atftpd: packets and file reader** `tftp_io.c`, `tftp_rfile.c`, `tftp_def.c` | position in the built-in file, character in mid-conversion | `rfileRead`, `tftp_get_packet`, ... | transfer | line ends on block boundaries, blocks read again | each block is what its number stands for |
| **iPXE: pinger, job wait** `pinger.c`, `monojob.c`, `pingmgmt.c` | sequence number, pending flag, timer, remaining | `create`, `expired`, `deliver`, `window_changed`, `monojob_wait` | interfaces, process scheduler | a reply races the timer | each ping is settled once, as answered or as lost; the wait ends |
| **iPXE: commands** `exec.c` | stop state of the shell | `system`, terminators, `shell`/`exit` | everything with a command | stop state through nested scripts | `exit` leaves one script, errors stop `&&` |
| **iPXE: autoboot** `autoboot.c`, `main.c` | registered images, SAN drives | `uriboot`, `netboot`, `autoboot`, `ipxe` | interfaces, commands | undo on each failure, fallbacks | no drive left hooked, every device tried |
| **iPXE: interfaces** `ifmgmt.c`, `ifmgmt_cmd.c` | the one poller, a static counter | `ifopen`, `iflinkwait`, `ifconf` | autoboot | static state across calls | timeouts, closed on failure |
| **syslinux: PXE files** `pxe.c`, `tftp.c` | socket buffers, file position | open with retries and redirects, `pxe_getfssec`, close | EFI TCP | short reads, redirect loops | bytes in order, an end to retries |
| **syslinux: EFI TCP** `efi/tcp.c` | `cb_status`, one token | connect, fill buffer, close | PXE files | a global status set by a callback | data once and in order, every callback is the one its call polls for |
| **syslinux: menu** `menumain.c`, `vesamenu.c` | entry, timeouts, menu tree | `run_menu`, `do_hidden_menu`, `ask_passwd` | - | timeouts against keys, nested menus | the selection is an enabled entry, and what runs is what was picked |
| **syslinux: module loader** `elf_module.c` | list of loaded modules | `module_load` | - | undo of half a load | no freed module on the list |
| **dmidump** | the log | append, retrieve, close | - | - | nothing lost or duplicated |
| **build** `__/scripts/make.sh` | - | - | - | - | - |

## 2. What is modelled

| module | models | status |
| --- | --- | --- |
| `AbstractBarrier` | what a barrier promises: one arrival at a time, one release, everybody gone before the next round | abstract specification |
| `SpinBarrier` | `barrier`/`s_barrier`, one action per access to memory | complete |
| `CpuFind` | `smp_find_cpus`: MADT, MP table, threads of a core, CPU numbers | complete; signatures and checksums are "good" or "bad" |
| `SmpBoot` | boot of the CPUs `CpuFind` has found, up to the test loop | selection of CPUs at its default (all) |
| `MemtestSched` | the test loop: windows, relocation, choice of CPU and test | round robin, the only mode `set_defaults` chooses |
| `Memsize` | `mem_size`: the firmware's map to the list of segments, limits, `compute_segments` | complete but for the interactive menu of `config.c` |
| `MemPatterns` | the ten test patterns on the segments of `Memsize`, the foreseen number of ticks | one CPU |
| `TftpSend` | `tftpd_send_file` to one client | complete |
| `TftpMulticast` | `tftpd_send_file` to a group, with the client list and the threads that add to it | complete |
| `TftpThreads` | `main`, `tftpd_receive_request`, `signal_handler`, the list of threads | no command line, start-up, MTFTP or failed allocation |
| `NetasciiRead` | `rfileRead` with conversion | complete |
| `PingJob` | the pinger, the wait for the foreground job, `ping` | complete |
| `IfMgmt` | open, close, link wait and configuration of devices | `ifinc` and the stand-alone `iflinkwait` command left out |
| `Shell` | `system`, scripts, shell, stop states, the commands that steer them | tokenising left out |
| `Autoboot` | `ipxe`, `autoboot`, `netboot`, `uriboot` | complete; what settings exist is the environment's choice |
| `EfiTcp` | the TCP4 protocol of the firmware as `efi/tcp.c` uses it | complete |
| `PxeFs` | open with retries and redirects, read, close, path prefix | DHCP parsing and the BIOS stack left out |
| `ModuleLoad` | `module_load` with dependencies and its error path | file formats are "what is wrong" |
| `Menu` | `run_menu`, `do_hidden_menu`, `mygetkey`, `ask_passwd`, `main` | drawing left out |
| `Syslinux` | the boot loader from `pxe_fs_init` to the command its menu runs | composition of the four |

The proofs are in modules of their own: `SpinBarrierProofs`, `SmpBootProofs` (with
`CpuFind` and `Memsize`), `MemtestSchedProofs`, `TftpSendProofs` (with
`NetasciiRead`), `TftpMulticastProofs`, `TftpThreadsProofs`, `AutobootProofs` (with `Shell`, `IfMgmt` and `PingJob`) and
`SyslinuxProofs` (with `Menu`, `ModuleLoad`, `PxeFs` and `EfiTcp`); see section 4.

`MCSmpBoot`, `MCMemPatterns`, `MCIpxe` and `MCSyslinux` hold the sets of inputs of
their runs: firmware tables, memory maps, scripts, server replies, menus.

How they fit together: `SpinBarrier` implements `AbstractBarrier` (checked and
proved); `SmpBoot` and `MemtestSched` use a barrier that is one step, which that
justifies. `SmpBoot` extends `CpuFind`, whose result is the number of CPUs it
boots, and `MemtestSched` starts where `SmpBoot` ends. `MemPatterns` extends
`Memsize` and tests the memory that it finds. `TftpThreads` treats a transfer
as one stay in `serve` that ends, which is `TftpSend`'s `Terminates`.
`NetasciiRead` is the reader that `TftpSend` abstracts to `Body`. iPXE is one
chain, each module extending the one it calls: `Autoboot`, `Shell`, `IfMgmt`,
`PingJob`; so a script booted from one device can open another, and a ping
inside it can be cancelled. syslinux likewise: `Syslinux` extends
`ModuleLoad` and `Menu`, `ModuleLoad` reads its files through `PxeFs`, and that
through `EfiTcp`; a failure of the firmware's TCP in the middle of a module's
dependencies is thus a behaviour of the model.

### State and actions

*SpinBarrier.* `count`, `lck`, `st1`, `st2` are the fields of `struct barrier_s`
(`1` = unlocked, as in `spinlock_t`); `pc[c]` is the next access of CPU `c`.
`Call` .. `UnlockOut` are the statements of `smp.c:51-73` in order. Both exits
of the `if` are modelled: the last arrival (`CloseSt1`, `OpenSt2`, `SelfInc`,
`UnlockLast`) also goes out by the common path. Memory is sequentially
consistent; the module's head says why x86's store buffer adds nothing.

*CpuFind.* Nothing here is concurrent, so that it is a function:
`SmpFindCpus(fw)` is the globals of `smp.c` after the scan of the tables `fw`.
`MadtEntry` and `MpEntry` are the bodies of the two loops, `Core` drops the bits
of the thread from an APIC id, `LogicalCpuBits` says how many there are from
what CPUID reports, `SmpMyCpuNum` is the search an AP makes for its own number.

*SmpBoot.* `pc[c]` names the line of `main.c` or the place in `smp.c` a CPU is
at. `InitialiseCpus` takes `num_cpus` from `CpuCounts`, the numbers that
`SmpFindCpus` can give. `KickAp` / `ApReported` / `ApTimeout` are `smp_boot_ap`;
between `KickAp` and `ApWake` any time may pass, so `ApTimeout` may come first.
`ApLock`, `ApReadOrd`, `ApBumpOrd`, `ApUnlock` are `my_cpu_ord = cpu_ord++` with
its lock, split into load and store. `Healthy`, chosen at the start, is the set
of APs that come up at all.

*MemtestSched.* An action is one CPU's work between two accesses that another
CPU may disturb, and is named for what it decides; `pc[c]` names the line. A
window holds pages; `compute_segments` and `map_page` are what they decide:
which pages of memory are in the window and whether it can be mapped (from
`mapLimit` on it cannot). `Barrier` lets all CPUs go when all are in some call of
`barrier()`, **whichever call each is in**, as the code does. `tested` is
history.

*Memsize.* `stage` is the function of `mem_size` that runs next. `Sanitize` is
the sweep of `sanitize_e820_map` over the change points of the map, each put in
its place by the number of points that are earlier (`PlaceOf`), which is where the
code's bubble sort brings it; `Clip` is the
rounding and the hole of `memsize_820`, `InsertSeg` one round of `sort_pmap`
with its `memmove` as written, `Selected` one segment's share in `adj_mem`,
`ComputeSegments` the segments of a window. `pmap` has the index -1, because the
code writes there.

*MemPatterns.* A test is a list of sweeps (`SweepsOf`), a sweep has what each
word should hold (`Expected`) and what is stored (`Stored`), and goes up, down,
in steps of the modulo test, in blocks. An action is one section of `SPINSZ`
words, between two calls of `do_tick` (`SectionUp` .. `WalkBanks`). `mem` is the
memory, with a word `fault.word` that is stuck; `errs` and `written` are
history. `Unchecked` are the words that the code of a test leaves out
(disagreement 27). `TicksOf` and `Chunks` are `find_ticks_for_test` and
`find_chunks`.

*TftpSend.* The variables of `tftpd_send_file` under their names, packets as
records, the file as block numbers. One action per branch of the state machine.
`toClient`/`toServer` are the packets under way: a FIFO when `inOrder`, any
order and any number of copies otherwise; `Lose` always. The client is an RFC
1350 client that takes blocks in order and may repeat its last ACK.

*TftpMulticast.* Adds the client list (`list`, `client_info`), the threads of
later requests (`FindAndAdd`, `UseThread`) and two more places where the
server's own loop is interrupted between two critical sections (`"S_END_NEXT"`,
`"CANCEL_NEXT"`). `ReceiveFails` is a `select` that is interrupted or a receive
that fails, after which the thread returns with its list as it is (disagreement
52). `unspec` is the address family that `tftpd_file.c:340` clears.

*TftpThreads.* `main` and `pc[t]` are places in the code. What a thread reads may be
a request or a packet that is none (`Read`), for which it aborts. Each list operation is
two actions, the read of the head (outside the mutex) and the rest. The list is
modelled with its `next`/`prev` pointers so that a stale head has its effect.

*NetasciiRead.* One action per call; the loop over the buffer is the recursive
function `Fill`. `newline`/`prevchar` are the two halves of `*temp`.

*PingJob.* `phase = "step"` is `monojob_wait`'s loop. A turn of the loop may do
nothing but let processes run (`PingerWindow`, `PingerExpired`,
`PingerDeliver`, `SocketCloses`) or find that a tick has passed (`AfterTick`,
`CtrlC`). `pinger` has the fields of `struct pinger`, `net` the replies on
their way: each may be good, broken or late, and come twice. The history counts, for
every sequence number, how often the callback was told that it is lost (`lost`), of
a reply that was waited for (`answered`) and of one that was not (`late`).

*IfMgmt.* `dev[d]` is a device, `ct` the static counter of `iflinkwait`, `ifc`
the call of `ifconf` in progress, `cmd` the command that goes through a list of
devices. `Tick` is `monojob_wait`'s tick with the progress of whichever poller
is plugged; `LinkChanges` and `ConfEnds` are the environment.

*Shell.* `stack` is the C stack of `system`, scripts and shells, innermost last,
with the line, the command and the status of each. `StartLine`, one action per
kind of command, `AfterCommand` (the terminator), `EndLine`, `EndScript`,
`LeaveShell`. `stop_state` is the static variable of `exec.c`. A line (`Lines`) has
the terminator `"end"` after its last command and nowhere else; a scriptlet, which
is a setting, is one line.

*Autoboot.* `boot.at` is the place in `autoboot.c`: `OpenNext` (close all, open
one, which `SkipDevice` passes over if it is not the autoboot device), `ConfigureDevice`, `DeviceConfigured`, `Choose` (menu, file name, root
path), `Hook`, `Describe`, `Download`, `ImageEnds`, `SanBoot`, `Unhook`, each of
them with its failure.

*EfiTcp.* `cb_status` is the global, `token` what the firmware holds, `sock` the
inode's private part, `peer` what the server has still to send. `TcpConnect`,
`TcpWrite`, `TcpFill`, `TcpClose` are the calls,
`Polled`/`Filled` the ends of the polling loops, `NoMapping`/`Configured` the
retries of `Configure`. `TokenDone`, the callback, is a step of the firmware and
not of the code (`Answers` in `PxeFs`): it may never come. Each call may be refused as long as faults are left.

*PxeFs.* `fs.at` is the place in `pxe.c`: `OpenUrl` .. `NotFound` are
`__pxe_searchdir` with its retries and redirects, `Getc` is `pxe_getc`,
`GetFsSec` .. `NoMore` are `pxe_getfssec`, `CloseFile` is `pxe_close_file`.
`GetPrefix`, `PxeChdir`, `PxeRealpath` are path functions over names as
sequences of letters and delimiters.

*ModuleLoad.* `modules` is the list, `stack` the nested calls; `FindModule`,
`ImageLoaded`, `Prepare`, `Dependency`, `Finish` are the steps of `module_load`
and `LoadError` is its error label.

*Menu.* `run` is `run_menu`'s locals and the place it is at; `Draw` is the top
of the loop, `KeyPressed` the wait and the `switch`, `Enter`/`Act`/`Save` the
Enter key, `AskPasswd` and `Help` the dialogues. `GetKey(timeout)` is what
`mygetkey` may come to, with the jump out of any wait when the total timeout is
over. `picked` is history: the entry on which the user pressed Enter, or whose
immediate hotkey, and whether its password was given.

*Syslinux.* `boot.stage` goes from `pxe_fs_init` over the search for the
configuration (`OpenFile`, `OpenFailed`, `ConfigRead`) to the load of the menu
(`MenuLoaded`) and its end. `Loader` is a step of this one thread, `Unaided` one
that takes no key.

## 3. Runs

Every run uses 2 workers and takes from a second to about three minutes.

| run | module, cfg | bounds | shows |
| --- | --- | --- | --- |
| `spin_barrier` | SpinBarrier, MCSpinBarrier | 4 CPUs, unbounded rounds | `BarrierInv`: lock, count and gates stay consistent; `ImplementsBarrier`; `EveryCallReturns` |
| `smp_boot` | MCSmpBoot | all firmware tables of `MCFirmwares`, up to 4 CPUs, each AP early or late | `CpusFound`: the CPUs found are the cores the tables list; `BootInv`: ordinals are dense, the barrier has the right size, one CPU at a time is on the boot stack; `StartAgreed`: an AP, however late, takes the path of an AP and the start-up barriers pair up; `BootCompletes` |
| `memtest_sched` | MemtestSched, MCMemtestSched | 3 CPUs, 3 tests (one bit fade), windows 0 and 1 and three above, memory with gaps, mappable or only in part | `SchedInv`: the CPUs agree on the barrier they wait in and there is one master; `NoSelfTest`; `SetupMatches`; `Coverage`; `CopyStable`: the copy made by `run_at` is stable; `NoHang` |
| `mem_patterns` | MCMemPatterns | 18,363 firmware maps, each with two answers of the older calls; two of them tested with ten patterns and a stuck word in one of 12 places, or none | `MapExact`: sanitised map, segments and page counts are those of the firmware's map; `VerdictExact`: sound memory passes, a stuck word is reported; `CoversMemory`: every word of the memory is written, and no other; `ProgressExact`: as many ticks as foreseen |
| `tftp_send` | TftpSend, MCTftpSend | 4 blocks (the last one short), 1 retry, 2 packets each way, signals to main and worker; requests of all kinds in order, plain ones also reordered and duplicated | `Integrity`; `EndComplete`; `SendInv`: nobody is dropped silently; `Terminates` |
| `tftp_multicast` | TftpMulticast, MCTftpMulticast | 2 clients, 2 joining threads, 1 block, 1 retry, with and without `mcast_switch_client`, cancellation, a receive that fails | `GroupInv`: nobody who was added is forgotten, nobody is added after the end, and after a failed receive those who were not answered are still in the list; `Terminates` |
| `tftp_threads` | TftpThreads, MCTftpThreads | 2 requests, 1 thread allowed, signals to all | `StdinExclusive`; `ThreadInv`: the thread count is exact; `Stops`: a signal stops the program |
| `netascii_read` | NetasciiRead, MCNetasciiRead | all files of up to 5 characters from {LF, CR, x}, blocks of 3, 2 repetitions | `Exact`: each block is the converted text its number stands for |
| `ipxe` | MCIpxe | all scripts of one line of up to 3 commands, scripts that nest, jump, sleep, ping and configure, boots from 2 devices with every combination of settings | `ShellInv`: terminators, `exit` and failing lines mean what they say, no stop outlives its script; `PingExact`: each ping is settled once, by its reply or by the timer and never by both, before the next is sent, and `ping` returns what they came to; `JobInv`: no job outlives its wait; `IfconfOutcome`, `NothingLeftOpen`: devices and SAN are undone on every failure; `WaitsEnd` |
| `syslinux` | MCSyslinux | a file of 4 units in buffers of 3 and blocks of 2, 2 faults anywhere, 1 retry, 1 redirect, 2 tries for the configuration; 3 modules; 136 menus with 3 keys | `FilesExact`: what is read is the file, what is opened is closed; `ConfigExact`: the right names are tried; `LoadInv`: a module is loaded with all it needs or not at all; `MenuInv`: the selection is on the screen; `RunsChosen`: what runs is the entry that was picked, after its password, or the default entry where a timeout or shift mode says so; `BootProceeds`: the loader never goes round for ever: it ends or only waits for others |
| `tftp_multicast_family` | TftpMulticast, MCTftpMulticastFamily | 1 joining thread | disagreement 4 below |
| `tftp_threads_list` | TftpThreads, MCTftpThreadsList | 2 requests | disagreement 5 |

Several properties are conjunctions of named parts, each with its own comment
in the module; the table of disagreements names parts and properties alike.

### Bounds, and why they are enough

*Barrier.* A round needs CPUs that arrive first, last and in between, and one
that has left and comes back while others are on their way out: three CPUs; a
fourth makes two of each kind.

*Boot.* Two APs to race each other, a third to be kicked while they do. The
tables: MADTs of up to three entries over four ids, enabled or not, repeated,
with one or two threads a core; lists of five CPUs for four numbers; MP tables
in any order, with an unknown entry, interrupt entries, an unreadable CPU; two
MADTs with good or bad checksums; the default configuration. The boot processor
is listed before any entry that cannot be read (disagreement 34).

*Scheduler.* Three CPUs give a master, the next master and a bystander; windows
0 and 1 and more than one window above exercise every way through the loop; the
last window lies past the end of memory and is empty, and under the lower limit
there is one that cannot be mapped.

*Memory.* The maps are all lists of at most two entries with 9 starts, 5 sizes
and 3 types, so that entries overlap, touch, contain each other, wrap at the end
of the address space, straddle the hole and begin in the middle of a page.
`MapExact`'s last part leaves out maps with a usable region that holds no whole
page (disagreement 20). A page has 16 words and a section 32: segments of one,
two and three sections, ending on and off a section's end, in two windows. The
stuck words are first and last words of segments, sections and windows, and those
around the end of what the modulo test covers. `BITS`
is 4, `BYTE` 2, the modulo distance 3, blocks are 4 words; `c_iter` is 1, since a
second iteration starts from what the first leaves. `CoversMemory` and
`ProgressExact` assume memory in page 0 (disagreement 23).

*Transfer.* Four blocks make every ACK early, current, repeated or late relative
to the last block; two packets each way are enough to be overtaken. `Wrap` stands
for 2^16 and is larger than the file, except where wrap-around is the question.
Multicast: two clients are the master and one more; with the ghost entry left by
the address overwriting there are up to three entries. Threads: the races are
between two threads and main. Netascii: five characters convert to up to ten,
four blocks, with every position of a line end relative to a boundary.

*iPXE.* Two ticks between pings, sequence numbers modulo 4, two replies under
way, each at most twice (`MAXCOPIES`), counts 0 to 3: a reply may come in time, in the last tick, late, broken,
twice, after a wrap. Two devices, one of them `net0` (the link wait treats it
differently), and the counter `ct` up to 2; every subset of them matches the
autoboot device in some environment. Three commands in a line contain
every pair of terminators between commands that succeed, fail or exit, and a
second line shows whether the script goes on.

*syslinux.* A file of 4 units is more than a buffer (3) and not a multiple of
it, and more than a block (2): chunks end inside, at and after buffers. Two
faults: one to fail, one to fail in what follows. Three modules, where one is
needed by both others, with one of them broken in each of the four ways.
Menus: every subset of five entries disabled, in a window of two rows; and a
main menu and a submenu with passwords, saved labels, hotkeys, timeouts, total
timeouts, hidden menus. Three keys: into a submenu, back or to a dialogue, and
one more. Three assumptions come from code that is not in the tree
(`MenuAssumption`, `LoadAssumption`, `PxeAssumption`): every menu has entries and a
default among them; the modules that need no file are there once and are none of
those that are loaded; a server sends no more of a file than it has.
The accounts of one file (faults, trouble, what was read) start afresh when it
is closed, and those of the file system when the menu is loaded.

`CHECK_DEADLOCK FALSE` is used in `mem_patterns` alone: every map but those under
test stops after `mem_size`, and a tested one after its pass. Elsewhere the end
of a program is an explicit stutter step (`Over`, `Halted`, `BootOver`,
`Terminated`).

### Fairness

Only weak fairness is assumed, and only of what the machine, the firmware or the
kernel provides: each CPU executes its next instruction (`WF(Step(c))`), a thread
that can run does, `select` returns at its timeout (`WF(ServerStep)`; the timeout
is one of the server's own steps), a healthy AP answers its kick some time. The
spin lock is unfair and no strong fairness is assumed for it: `EveryCallReturns`
holds all the same, because those who overtake a CPU at the exit end up waiting
at the closed entry gate. Nothing is assumed of clients or of the network.
`Terminates` of `TftpSend` excepts a network that delivers the same ACK for ever
(`inOrder` false).

iPXE is one thread that polls: the clock ticks, the loop of `monojob_wait` goes
round, and the pinger's own process and timer run (`Autoboot!Fairness`); of the
link, the host and the user nothing is assumed. syslinux is one thread too, and
`WF(Unaided)` says that it goes on wherever it can without a key: the firmware may
keep a token for ever, because the server is silent or for any other reason, and
the user may press nothing. `BootProceeds` therefore does not promise that the boot
ends. It says that whatever is refused, redirected or cut off, the loader's own
loops end: from some time on it is over, or all it does is to poll for a callback
(`Polls`; the code has no limit there) or to wait for a key in a menu without a
timeout (`UserWaited`). `EndedShort`, disagreement 41, is the one exception.
`MemPatterns` has no liveness property: `ProgressExact` bounds the number of its
steps instead.

## 4. Proofs

A theorem holds for every value of the constants its module's named `ASSUME`s
allow. Those assumptions say what the code relies on (there is a CPU; the windows
lie in order; a server sends no more of a file than it has) and TLC evaluates
them on the values of every run. The hypotheses in the last column are the other
conditions; each is met by the run of the same module, and each is needed: the
disagreement named there is what happens without it.

| module | theorem | says, for every instance | hypothesis |
| --- | --- | --- | --- |
| `SpinBarrierProofs` | `TypeCorrect`, `BarrierConsistent`, `Invariance` | `TypeOK`, `BarrierInv`, and the invariant they rest on, for any number of CPUs | |
| | `Refinement` | `Spec => ImplementsBarrier`: the spinning barrier is an atomic barrier | |
| `SmpBootProofs` | `Invariance` | `IInv`, for any firmware tables and any APs that come late or never | |
| | `BootCorrect` | `BootInv`: dense ordinals, barrier sized before it is entered, one CPU on the boot stack | |
| | `BranchesAgreed` | `StartAgreed` | |
| | `MemoryFound` | `MapExact` of `Memsize`: from the firmware's map to the segments, for a map of any length and any size of page | |
| | `CpusNumbered` | `CpusFound`: every core gets a number, the boot CPU 0, and is found again by it | `TablesSorted`: an MP table lists CPUs before interrupts, each APIC ID once, one boot CPU |
| `MemtestSchedProofs` | `Invariance`, `SchedulingAgreed`, `ProgramSpared`, `TestSetUp`, `MemoryCovered` | `IInv`, `SchedInv`, `NoSelfTest`, `SetupMatches`, `Coverage`, for any number of CPUs, tests and any memory | `BelowPaeLimit`: no window begins past the limit (6) |
| | `CopyUndisturbed` | `CopyStable`, an action property | the same |
| `TftpSendProofs` | `TransferCorrect`, `CopyExact` | `SendInv`, `Integrity`, for any file, capacity and number of retries | `NoWrap`: fewer than 2^16 blocks (8); `OptionsInOrder`: no late ACK of an OACK (7) |
| | `EndedComplete` | `EndComplete` | the same, and `Partial`: the last block is not full (3) |
| | `BlocksExact` | `Exact` of `NetasciiRead`, for any file and size of block | |
| `TftpMulticastProofs` | `GroupServed` | `GroupInv`, for any number of clients and threads, whether or not a receive fails | |
| `TftpThreadsProofs` | `ThreadsConsistent`, `OneStdinReader` | `ThreadInv`, `StdinExclusive`, for any number of threads | |
| `AutobootProofs` | `Invariance`, `NoJobLeft`, `IfconfKeepsItsWord`, `CleanBoots`, `StopsConsumed` | `IInv`, `JobInv`, `IfconfOutcome`, `NothingLeftOpen`, and the part `StopConsumed` of `ShellInv`, for any scripts, devices and settings | |
| | `ShellMeans` | `ShellInv`: a script of simple commands and exits does what it means | |
| | `PingsExact` | `PingExact`: each ping of a count that the sequence numbers can count is told to the callback once as lost or once as answered; late replies are counted apart (38) | |
| `SyslinuxProofs` | `Invariance`, `FilesCorrect`, `ModulesAtomic`, `MenuCorrect`, `ChosenRuns` | `IInv`, `FilesExact`, `LoadInv`, `MenuInv`, `RunsChosen`, for any files, sizes, faults, modules, disks and menus | |
| | `ConfigFound` | `ConfigExact`: the names tried so far are always DHCP's, if it gives one, and then the MAC address's, and all of them when the loader gives up; the path functions | |

### The arguments

*SpinBarrier.* `BarrierInv` is `LockInv /\ CountInv /\ GateInv`, and `IInv` adds
`TypeOK`. None of the four is inductive alone: that `count` loses nobody
(`CountInv`) needs that one CPU at a time changes it (`LockInv`); that the lock
protects `count` at the gates needs to know which gate is open while somebody is
inside (`GateInv`); and the gates change hands when `count` is `0` or `maxproc`,
which by `CountInv` means that all CPUs, or none, are pending (`CountExtremes`).
`Refinement` maps a CPU to `running`, `waiting` or `released` (`progress`): all
waiters are released by the one store that opens the exit gate.

*SmpBoot.* `IInv` says who may be where: every AP below `next` has reported or was
given up (`ReportInv`), those above are off (`KickInv`), one CPU owns the mutex and
is between the load and the store of its ordinal (`MutexInv`, `OrdInv`), and all
CPUs are on one stretch between two barriers (`PathInv`, `PhaseInv`). That
`num_cpus` is in `1 .. MAX_CPUS` whatever the firmware lists (`CountsInRange`)
rests on `FoldExists`: a fold over a table has a value in the type its step
keeps. The library's induction theorems cannot be used for that, since they take
an operator; the lemma argues by the least index without a value, which
`WellFoundedInduction` gives as a theorem about sets. `CpusNumbered` goes through
the tables in the same way: after each entry the numbers given so far are dense,
belong to different cores, and are those that `smp_my_cpu_num` would find.

Folds and recursive functions are handled like this throughout. One lemma says
that there is a function whose every value comes from the one before it
(`StepsExist`, `FoldExists`), so that what the definition chooses is such a
function; what is claimed of its values is then shown for every length up to that
of the data (`UpTo`).

*Memsize.* The change points of a map are sorted by rank (`PlacesTaken`: every place
is taken once), so that each entry begins before it finishes (`Sweeps`). After `k`
points the entries that have begun and not finished (`Open`) are those that cover
the addresses up to the next point (`OpenCovers`); the loop invariant `Sound` says
that the new map is complete up to the region that is still open, and of the
strongest type from there on. `SegsListed` goes through the new map entry by entry:
an entry's whole pages outside the hole are those of its segment (`ClipExact`), and
it lies behind the ones before. A list in ascending order is left alone by
`sort_pmap`, but for the entry below the array (`SortedAscending`), which is why
`MapExact` needs no region without a whole page. The theorem is about `MemSpec`; a
step of `MemPatterns` is one of `MemSpec` or leaves the variables of `Memsize` alone.

*MemtestSched.* Everything hangs on `Decided`: what a CPU reads of `window`,
`win_next` and the copy it runs stays true until all CPUs have read it, because
whoever changes them is the master (`MasterSelected`) and the master waits at the
barrier that those who still decide have not reached (`Together`). `WinNext`
relates the master's two counters, and the CPUs that reset them on their way out
cannot do so while the master takes a window (`MasterReady`). `TestedSoFar` says
of every page that it was tested, is in the window in hand, or is still to come.

*TftpSend.* No side is ever ahead of the client (`Window`): a block is sent after
its predecessor was taken, and acknowledged after it was taken itself, so that a
late ACK names an earlier block, and a late block is an earlier one. `AckOrder`
and `OackAnswer` say what is different when the network keeps the order, where
an OACK may be answered with an ACK of block 0. `LastKnown` and `LoopInv` link the
client's end to the server's `last_block`.

*NetasciiRead.* `InStep` ties the position in the file and the two halves of
`*temp` to one position in the text (`AtBlock`): the reader is where the block it
read last begins or ends, unless a block was read again in another state than
before. One turn of the conversion loop appends the next character of the text.

*TftpMulticast.* A client that was added is answered or still in the list, before
or after the cursor (`Unanswered`); an entry that is skipped is done (`Current`).
Both hold after a failed receive, too: the thread then returns with a current client
whose entry is not done (`Dropped`), and nobody else was lost.
`Patience` counts the timeouts with the number of finished clients, since
`number_of_timeout` is not reset for the next client.

*TftpThreads.* `CountExact` holds with the number as a count of places in the
code; `StdinInv` follows the mutex from the thread that locks it to the one that
unlocks it.

*iPXE.* The parts of `Autoboot!IInv` say who waits for what: a job belongs to a
`ping` or to an `ifconf` that is in progress (`Waiting`), a stop state to a line
that has not ended (`StopPending`), a SAN drive to a boot (`SanHooked`), an open
device to the loop of `autoboot` (`OneDeviceOpen`). `PingSoFar` is an account of
the pings: each that was sent is lost once, answered once or pending (`AccountFor`),
a late reply changes none of these, and every reply under way is to a ping that was
sent.
A script's reference (`Meant`) is a fold of `Meaning` over its commands, which
knows nothing of frames, of `process` or of the stop state. `ShellSoFar` carries it
through the interpreter: what the commands of the frame have come to (`SoFar`) and
those that are left (`LeftOf`) together always make what the script means, a stop
state being the same as having left (`over`). Each step of `system` moves one
command from what is left to what has been done, or neither.

*syslinux.* The invariant has a part for each component.
The files (`FilesRight`) are an account. A token waits for exactly the callback
that its call polls (`Waits`); inodes are those that are open plus those that are
lost (`Counted`); a binding exists exactly while its socket has not seen the end,
or is one that leaked (`Connected`); and what the caller got, what is in the
buffer, in flight and with the server add up to what the server sends
(`Account`), which is why a file read to its end is the file.
The modules (`LoadIInv`): the list a caller found is the end of the list its
callee found, and that of the list as it is (`Chain`), so that an error of any
depth unloads down to `head`, the first of the caller's list, which is still
there since no module is on the list twice. The module of a caller is not on the
list while the caller waits (`CallersWait`): a call for it would be a module that
needs itself. The menu (`MenuIInv`): `OnEntry` needs that the entry and the window
are normalised whenever the user is waited for, whatever the entry was before
(`InWindow`); the timers are those of a user who has not acted (`TimerRuns`). That
what runs is what was picked (`PickedRight`) has to be carried from the key to
`run_menu`'s return: through the password dialogue, and for an immediate hotkey
through a redraw, which normalises the entry but leaves the hotkey's where it is,
since it is not disabled (`NormalisedStays`). Without a shift key in shift mode the
menu returns before anything can be picked (`ShiftFirst`).

### What stays with TLC

Liveness (`EveryCallReturns`, `BootCompletes`, `NoHang`, `Terminates`, `Stops`,
`WaitsEnd`, `BootProceeds`): the provers handle neither `ENABLED` nor fairness.
What the test patterns do to the words (`VerdictExact`, `CoversMemory`,
`ProgressExact`): each of the ten tests would need an invariant of its own for its
sweeps. For `VerdictExact` and `ProgressExact` these speak of bit patterns, powers
of two and products, which the provers handle badly; `CoversMemory` may well be
within their reach, but is not proved here. The properties of section 5 that fail.

## 5. Where the code does not do what it says

Two of these are runs; most of the others can be seen by changing the named
configuration as given and checking the named property, which is defined in the
module and preceded by the words it is taken from. The rest is in the model as it
is in the code, where the action's comment says so.

| # | what | where | property | how to see it |
| --- | --- | --- | --- | --- |
| 1 | "Turning off SMP" after a boot timeout does not: the barrier still waits for the missing CPU, and the machine hangs | `smp.c:815` | `TurnsOffSmp` (PROPERTY) | `MCSmpBoot`, `MaxDead = 1`, `CHECK_DEADLOCK FALSE` |
| 2 | "Not selected CPUs go back to the scheduling barrier": one that reads `win_next` after the master has advanced it past the end leaves the loop and resets `win_next` and `window` under the master, so that the round starts over | `main.c:545` | `NotSelectedGoBack` | `MCMemtestSched` |
| 3 | a file that ends exactly with a block is sent without the empty block that ends it, and the client waits | `tftpd_file.c:402`, `tftp_rfile.c:70` | `EndComplete` | `MCTftpSend`, `Partial = FALSE` |
| 4 | a multicast client that never answers makes the server print an address without a family: the assertion ends the process | `tftpd_file.c:433`, `tftp_def.c:201` | `FamilyKnown` | run `tftp_multicast_family` |
| 5 | the list's head is read before its mutex is locked: null or freed pointers are followed | `tftpd_list.c:52, 84, 140, 337` | `ListSafe` | run `tftp_threads_list` |
| 6 | at the PAE limit the CPUs disagree on `win_next` and leave `run_at`'s barrier before the copy is made | `main.c:467`, `:188` | `WaitForCopy` (PROPERTY) | `MCMemtestSched`, `MAX_MEM = 8` |
| 7 | ACK 0 is taken for a wrap-around even where that is off: a late ACK of the OACK skips 2^16 blocks | `tftpd_file.c:545` | `NoWrapUnlessAllowed` | `MCTftpSend`, `Reordered = {"options"}` |
| 8 | where it is on, a repeated ACK 0 at the wrap skips 2^16 blocks more | `tftpd_file.c:546` | `Integrity` | `MCTftpSend`, `FullBlocks = 8`, `Wrap = 3`, `WrapAllowed = TRUE` |
| 9 | the size test reads a `struct stat` nobody has filled | `tftpd_file.c:229` | `RefusesOnlyTooBig` | `MCTftpSend` |
| 10 | a signal that reaches a worker aborts its transfer before `tftpd_cancel` is set: no ERROR packet | `tftpd_file.c:621` | `ToldAlways` | `MCTftpSend` |
| 11 | every packet passes for the master's, since the sender is stored in the master's entry before the comparison | `tftp_io.c:336` | `OnlyMasterMoves` (PROPERTY) | `MCTftpMulticast` |
| 12 | the server thread a request has found may be freed before it is used | `tftpd_file.c:265` | `UsesLiveThread` | `MCTftpMulticast` |
| 13 | a timeout of the last client left, after others were served, is taken for an "abnormal condition" | `tftpd_list.c:325` | `SameIsNext` | `MCTftpMulticast` |
| 14 | `block_number` is not reset for the next client, whose first ACK then ends its turn | `tftpd_file.c:648` | `DoneMeansReceived` | `MCTftpMulticast`, `Threads = {1}`, `MaxAcks = 2` |
| 15 | more threads than allowed: counted and added under separate locks | `tftpd.c:638` | `MaxThreads` | `MCTftpThreads` |
| 16 | `main` exits while a thread that is not yet counted has a request | `tftpd.c:539` | `WaitsForThreads` | `MCTftpThreads` |
| 17 | as a daemon, a signal between the test of `tftpd_cancel` and `select` waits for the next request | `tftpd.c:433` | `Stops` | `MCTftpThreads`, `Daemon = TRUE`, `CHECK_DEADLOCK FALSE` |
| 18 | a block read again starts with the character its first reading ended in | `tftp_rfile.c:195` | `SameAgain` | `MCNetasciiRead` |
| 19 | the second half of a converted line end at the end of the file is not sent | `tftp_rfile.c:70` | `CompleteAtFeof` | `MCNetasciiRead` |
| 20 | `sort_pmap` moves the wrong way: two segments that start in the same page lose one, and the first entry is written to `pmap[-1]` | `memsize.c:71-91` | `PmapExact` | `MCMemPatterns`, without its last premise |
| 21 | "Adjust the map to not test the page at 939k, reserved for locks": it is the last page of the first segment, wherever that ends | `main.c:297` | `LockPageUntested` | `MCMemPatterns` |
| 22 | "Don't ever use memory between 640 and 1024k": an entry that begins below and ends above the hole, or at its first byte, keeps it | `memsize.c:121` | `HoleUnused` | `MCMemPatterns` |
| 52 | "to make sure no other thread try to add clients in our back": a `select` or receive that fails ends the server thread of a group with clients that are neither served nor told, and open to more | `tftpd_file.c:621` | `NobodyDropped` | `MCTftpMulticast` |

The memory tests (`MemPatterns`):

| # | what | where |
| --- | --- | --- |
| 23 | the first segment of window 0 is set to start at the lower limit, whether it begins there or not: without memory in page 0 the test writes below its segment | `main.c:736` |
| 24 | the walking-ones test foresees 4 ticks in all and takes 4 a window | `main.c:1043` |
| 25 | it also writes through holes between banks and skips the bank test of aligned segments | `test.c`, `addr_tst1` |
| 26 | the second pattern of the random data test is the complement of `p1`, which holds the number of the window's last page: the same in every pass over a window, and not the random pattern's complement | `main.c:822` |
| 27 | the bit fade test skips the last word of each section; the modulo test, which stops short of `end - MOD_SZ`, neither fills nor checks the last `MOD_SZ + 1` words of a segment | `test.c`, `bit_fade_fill`; `test.c:1001, 1110` |
| 28 | `block_move` takes a tick more than foreseen for three sections or more; the fill's ticks are divided by the number of CPUs that are active, not running | `main.c:1060` |
| 29 | `find_chunks` counts window 0 for the bit fade test too, which leaves it out | `main.c:951` |
| 30 | the branch of `calculate_chunk` for several CPUs is dead: one CPU at a time tests | `test.c:50` |
| 31 | `parity_err` counts its error without the lock | `error.c:104` |

CPU discovery (`CpuFind`):

| # | what | where |
| --- | --- | --- |
| 32 | "We try to use the MP table first": the MADT is tried first | `smp.c:662` |
| 33 | the interrupt source entry falls through: the next entry is skipped too, and the walk goes on in the middle of an entry | `smp.c:363` |
| 34 | what a half-read table has already listed stays; where the boot processor is listed after the entry that cannot be read, slot 0 names APIC id 0 | `smp.c:306-376` |
| 35 | the default configuration leaves `found_cpus` at 0, and a thread that is listed twice is counted twice, unless it is the one its core is known by | `smp.c:560` |

iPXE:

| # | what | where |
| --- | --- | --- |
| 36 | `iflinkwait` ignores its timeout: the n-th wait for `net0` lasts n times 15360 ticks, and a wait for another device before `net0` was tried has no limit (`WaitsEnd` is about those that have one) | `ifmgmt.c:230` |
| 37 | "@ret rc Job final status code": a job that ends in the tick of its timeout or of Ctrl-C is reported as timed out or cancelled (`FinalStatus`, `MCIpxe`) | `monojob.c:79` |
| 38 | a reply that comes after its ping was reported lost is reported as well (`ReportedOnce`, `MCIpxe`) | `pinger.c:249` |
| 39 | a count of 2^32 - 1 is taken for no count at all | `pinger.c:345` |
| 40 | `autoboot` returns the status of the last device, even where an earlier one has booted and returned | `autoboot.c:537` |

syslinux:

| # | what | where |
| --- | --- | --- |
| 41 | a connection that ends before the announced size: `have_more` stays set with no data, and the caller reads for ever | `pxe.c:237` |
| 42 | a `Receive` that fails otherwise than with FIN is polled for although no callback will come (`PollAnswered`, `MCSyslinux`) | `tcp.c:241` |
| 43 | a token that completes with an error delivers what is left in the buffer as data | `tcp.c:247` |
| 44 | each redirect leaves an inode behind | `pxe.c:317` |
| 45 | a binding is not destroyed when the event for its close cannot be created | `tcp.c:191` |
| 46 | a file of size 0 is taken for one that was not found | `pxe.c:344` |
| 47 | the retries without a mapping never give up if a `Configure` takes as long as the delay between two messages | `tcp.c:80` |
| 48 | a submenu without entries selects the entry before the first | `menumain.c:788` |
| 49 | a default entry without a command line makes the timeout end, or unhide, the menu | `menumain.c:780` |
| 50 | `edit_cmdline` is never called: Tab does nothing | `menumain.c:434` |
| 51 | modules that need each other are loaded without limit | `elf_module.c:224` |

## 6. What is not modelled

* *memtest86.* Console, serial port, CPUID output, cache and speed measurement,
  the list of errors on the screen: pure I/O. The interactive menu of `config.c`
  and the CPU modes it can choose: with them several CPUs would share a segment;
  nothing in the program chooses them otherwise. CPU selection (`cpu_mask`,
  `maxcpus`) keeps its default: every CPU. Memory models weaker than x86's. The
  patterns run on one CPU; that the others wait meanwhile is `MemtestSched`.
* *atftpd.* Packet layout, logging, access control, command line, MTFTP and
  daemon start-up; `tftpd_clientlist_remove`, which nothing calls. In
  `tftp_get_packet`, the branches for other clients' packets, which cannot be
  reached (disagreement 11).
* *iPXE.* Tokenising, the commands that only print, `ifinc`, the link wait as a
  command of its own; settings, DHCP and images, which are choices of the
  environment; message tables, which have no state.
* *syslinux.* DHCP parsing and the BIOS stack of `pxe.c` (`pxe_init`,
  `unload_pxe`); drawing; `vesamenu.c`, which only sets up the screen. `http.c`,
  `url.c`, `readconfig` and `spawn_load` are not in the tree and are modelled by
  how this code uses them: `http_open` connects, writes, reads a header, and
  closes what is connected when it delivers no file.
* *dmidump.* Dumping tables is formatting; `dmilog.c` appends, reads and clears a
  list in one thread. *build*: a script.

## 7. Plan

1. `TftpThreads` with `TftpSend` in place of `serve`, and `MemtestSched` over
   `SpinBarrier` in place of `Barrier`: each as a refinement, so that the theorems
   about the parts become theorems about the whole.
2. Abstract specifications for the transfer (a prefix of the file that grows to
   the file) and for `module_load` (a list that changes by whole modules), which
   `TftpSend` and `ModuleLoad` implement.
3. `GroupInv` with more than one served group: a thread that ends and is
   used again by a later request.
4. Bounds of `MemPatterns`' sections as arithmetic lemmas: a section begins where
   the last one ended and does not pass the segment's end, for every size.

# HeatOS in TLA+

HeatOS is a small 32-bit (and, separately, 64-bit) x86 operating system in C: a
kernel with a heap, a page allocator and a process table, an in-memory file
system, drivers for keyboard, mouse, timer, screen, speaker and an NE2000
network card, a shell with some forty commands, a desktop, an editor, a few
games and a Java class/JAR interpreter. There is one thread of control; the
only interrupt handler that changes state the rest reads is the timer's. The
difficulty lies elsewhere: in tables, rings and chains that long sequences of
operations must keep consistent, in operations that fail half way when memory
or space runs out, and in devices that lose, delay or reorder what they
deliver.

This directory holds TLA+ models of the system's parts, TLC runs on small
instances, and TLAPS proofs for every value of the constants. `PROJECT.json`
ties each definition to the lines it models.

Run one model with `tlc -config MCHeap.cfg MCHeap`, one proof module with
`tlapm MemoryProofs.tla` (half a minute to five minutes each).

## 1. Inventory

Paths are relative to the repository's `src/`.

| Component | State | Operations | Correct when |
|---|---|---|---|
| Kernel heap, `kernel/mm.c` | list of block headers in a fixed region | `heap_init`, `kmalloc`, `kfree` (+ `heap_coalesce`), byte counts | the list tiles the region, callers' blocks are disjoint and long enough, freed memory becomes usable again |
| Page allocator, `kernel/mm.c` | bitmap, count of used pages, reservation | `pmm_init`, `pmm_alloc_page`, `pmm_free_page`, counts | count = set bits; low memory and the heap are never handed out |
| Process table, `kernel/scheduler.c` | ring of structures, current process, next pid, ticks | `scheduler_init`, `create_process`, `yield`, `scheduler_kill`, `scheduler_snapshot` | one ring, no dangling pointer, each structure and stack page owned once, also when memory runs out |
| Ramdisk, `lib/ramdisk.c` | node table with sibling chains, append-only data pool | resolve, make, create, delete, read, write, build path | chains end and hold exactly a directory's entries, files' bytes never overlap |
| File commands, `commands/{mkdir,touch,cd,rm,rmdir,echo,cp,mv,wget}.c`, `apps/mamu.c` | current directory | one command at a time, several ramdisk calls each | each acts on the tree of names as one operation, nothing else changes; `mv` loses no bytes |
| Timer, `drivers/pit.c` | tick counter | IRQ 0, `sleep_ms`, uptime | sleeps at least as long as asked, and ends |
| Kernel log, `kernel/klog.c`, `commands/dmesg.c` | byte ring, head, used count, line count | log, clear, read | a reader gets the retained bytes in order and knows when there are more |
| Keyboard and mouse, `drivers/{keyboard,mouse}.c` | modifier and prefix flags; packet assembly | poll, wait, decode | two pollers of one port never swallow or misread each other's bytes |
| Terminal, `terminal/terminal.c` | edit line, cursor, history ring | insert, delete, recall, run | the history is the last N commands, the cursor stays in the line |
| Network, `drivers/network.c` and `commands/{ping,nslookup,...}.c` | NE2000 receive ring, one-entry ARP cache, pending DNS query, ping state | poll, send, `arp_resolve`, `dns_resolve_a`, ping | only the awaited reply completes a request; retries end; the ring pointers never cross |
| Desktop, `apps/desktop.c` | windows, stacking order, drag state | press, drag, release, keys, menu | a click goes to the window that is seen, a drag to the one that is held |
| Java, `commands/java.c` | operand stack, locals, call depth; HJAR stack | parse, execute, run JAR | files are read as they were written, stacks never under- or overflow, calls balance |
| 64-bit monitor, `kernel/main64.c`, `entry64.asm` | edit line, HJAR stack, interrupt state | read key, run command | a key is eventually handled |
| Boot, GDT, IDT, panic, `boot/`, `kernel/{main,gdt,idt,panic}.c` | descriptor tables | straight-line set-up | (initial state of the other models) |
| Display, serial, speaker, string, printf, other commands, games, stubs | output only or local | | not modelled, see section 7 |

How they interact: `kernel_main` initialises the page allocator (which
initialises the heap) and then the scheduler, before anything else asks for
memory. The scheduler is the heap's and the page allocator's only
client in the tree. The shell runs one command to completion
before it reads the next line; commands call the ramdisk directly. The drivers
are polled, from the terminal's and the desktop's loops. `klog` is called from
everywhere and calls nothing that keeps state.

What is hard, and where: see `hazards` in `PROJECT.json`, each at its line.

## 2. Modules

| Module | Models | Uses |
|---|---|---|
| `KernelHeap` | `kmalloc`, `kfree`, `heap_coalesce` as operators on a block list | |
| `HeapClients` | the heap with callers that hold pointers | `KernelHeap` |
| `PhysMem` | the page allocator | `KernelHeap` (for `HEAP_END`) |
| `Scheduler` | the process table on both allocators: the kernel's memory as a whole | `PhysMem` |
| `Ramdisk` | the file system's operations, as operators on one record | |
| `FileTree` | abstract: a tree of names and what a command may do to it | |
| `FileCommands` | the shell's file commands and the editor's save | `Ramdisk`, instance of `FileTree` |
| `Timer` | the tick counter, its interrupt and `sleep_ms` | |
| `BoundedLog` | abstract: the newest bytes of all that was logged | |
| `KernelLog` | the log's byte ring and `dmesg` | instance of `BoundedLog` |
| `Ps2` | keyboard and mouse on one controller port, both drivers | |
| `Terminal` | edit line and history ring | |
| `LineEditor` | abstract: keys acting on a line and a list of past lines | |
| `Console` | the shell and the desktop as readers of the port | `Ps2`, `Terminal`, instance of `LineEditor` |
| `FrameQueue` | abstract: frames handed on in the order of arrival | |
| `NetRing` | the NE2000's receive ring and the loop that empties it | instance of `FrameQueue` |
| `Resolver` | ARP, DNS, ping and the commands that use them | |
| `Desktop` | windows, menu, dock, dragging | |
| `Lengths` | sums of lengths, and 32-bit lengths as an `int` | |
| `JarFile` | the walk over a JAR and what is chosen from it | `Lengths` |
| `ClassFile` | the class-file parser | `Lengths` |
| `Jvm` | the java command: files, the bytecode interpreter, HJAR | `JarFile`, `ClassFile` |
| `Monitor64` | the 64-bit kernel's monitor | |
| `MC...` | small instances | |
| `MemoryProofs` | theorems about the heap, the page allocator and the process table | `Scheduler`, `HeapClients` |
| `FilesProofs` | theorems about the ramdisk under the shell's commands | `FileCommands` |
| `KernelLogProofs` | the ring implements `BoundedLog`; `dmesg` | `KernelLog` |
| `NetRingProofs` | the receive ring implements `FrameQueue` | `NetRing` |
| `ResolverProofs` | theorems about ARP, DNS and ping | `Resolver` |
| `DesktopProofs` | theorems about the windows | `Desktop` |
| `ConsoleProofs` | mouse packets; port, line and history implement `LineEditor` | `Console` |
| `JvmProofs` | theorems about the java command's readers and its interpreter | `Jvm` |

### How state and actions correspond to the code

**KernelHeap.** `heap` maps the address of each header on the list to its
`size`, `next` and `free`. Sizes are rounded with the 32-bit wrap of
`heap_align8` (`% WORD`). `kmalloc` takes the first block of the walk that fits,
which is the lowest since the list is in address order, a consequence of `Tiles`
that is proved. `heap_coalesce` is written as what its loop achieves, every run
of touching free blocks merged into its first block; `CoalesceIsLoop` checks
that against a second definition that follows the loop iteration by iteration
(`CoalesceTurn`). `HeapClients` names its specification `ClientsSpec`, since the
proofs put it beside the scheduler's. `kfree` checks only the pointer's range,
as the code does. A pointer in range is one that `kmalloc` returned: the
allocator's contract, which the scheduler, its only client, is shown to honour
(`StructOwnership`). The model starts after `heap_init`, so `heap_ready` is
true.

**PhysMem.** `pmm_bitmap` is the set of pages whose bit is 1. The count is
kept separately, as in the code. `PmmSpec` lets any caller free any address at
any time, repeatedly.

**Scheduler.** `proc` maps the address of each structure on the ring to its
`id`, `next` and `stack_base`; `state` is always 1 and the registers are never
read. `create_process` has three outcomes: no memory for the structure
(nothing changes), no page for the stack (the structure and its pid are lost:
`leaked` remembers it, as a history variable), and success. `scheduler_kill`
takes the first structure of the walk with the pid, relinks its predecessor,
moves `current_process` on if it pointed there, and frees page and structure.
`process_list` is set when the specification starts and never changes. Pids
and ticks wrap at `PID_MOD` (2^32 in the code). `scheduler_count_internal` stops
counting at 4097; the model's instances have no such number of processes and
the cap is left out.

Nothing in the tree calls `create_process` or `yield` yet; the model is of the
module's interface under any caller.

**Ramdisk and FileCommands.** The disk is a record of the node table and the
written part of the pool; `fs_data_free` is its length. Commands thread that
record through the ramdisk's calls in the code's order, and are one step each
because the shell is sequential: a command that fails half way (`cp` that
created its target and cannot write it) leaves what it did. A path is its
tokens, whether it starts and whether it ends with `/`, and what
`fs_copy_name12_lower` leaves of its whole text: eleven characters. `mkdir`,
`touch`, `wget` and `mamu` use that text as a name without splitting it
(`RawName`), which yields names no token can spell (`RawNames`), or, of a long
argument, the name of its first token. `Destination` is where `cp`, `mv` and
`echo` write: a file that is not there is created in its parent and then looked
up again, as the code does, and a path that ends with `/` is refused. Arguments
with blanks in them, of which these three commands would take the first word,
are left out. `PathTo` is the list of names from the root to a node,
`fs_build_path(d, n, cap)` what a buffer of `cap` bytes holds of it, the last
name cut where the buffer ends. `fs_resolve` answers 0 for "not found" and for
the root, and `mamu_save` inherits that. `Walk` is the loop of
`fs_resolve_checked` as a function: the node after each number of tokens.
`Seeds` are the directories that `ramdisk_init` makes; its demo files differ
from user files in nothing but their bytes and are left out. `DELETE_AT_ROOT`
says whether an instance deletes children of the root: the code does not unlink
those (section 6), so the two cases are asked about separately.

**Timer.** Time advances by milliseconds and `pit_irq0` runs at every
`MS_PER_TICK`th, wherever `sleep_ms` is: before its test, between test and HLT,
or halted. `end` wraps at `WORD`.

**KernelLog.** A byte is identified by its line's number and its place in the
line, so that a ring that keeps a wrong byte or a wrong order is told apart. The
prefix of a line (level, ticks) is `LINE_OVERHEAD` bytes, the line's number has
as many bytes as `Digits` says (a 32-bit number has at most ten), and `PutLine`
is the loop that puts a line's bytes into the ring; `klog_log_u32` formats the
number as `utoa` does and cuts the line at `LINE_BUFFER`. `cmd_dmesg` is one
step: nothing logs while it reads.

**Ps2 and Console.** The port holds one byte, tagged as the keyboard's or the
mouse's by the status register's AUX bit. The keyboard sends the codes of a key,
with `E0` and `E1` prefixes and releases, one byte at a time; the mouse sends
packets of three. One step of `keyboard_poll` takes one byte: its loop over
several bytes is several steps, between which the devices may put the next byte.
`g_packet` collects tagged bytes, so a packet of bytes that do not belong
together shows. `mouse_init` reads answers without looking at whose byte it
gets; when it takes one that is not its answer, `swallowed` is set and
`EditsInOrder` and `PacketsWhole` promise nothing from there on. If the byte was
taken for the command byte it is written back as one: `command` then says
whether the keyboard is still on (if not, it keeps what it has to send) and
whether its codes are still translated (if not, a byte decodes to anything). The
shifts that a keyboard makes up around the grey keys while Shift is held, or
with Num Lock on, are left out (see the hazards).

`terminal_run` is the shell's loop, `StartDesktop` and `DesktopPolls` the
desktop's. Which command a line names is open, so any non-empty line may start
the desktop. `KeySets` bounds which keys a behaviour uses together.

**NetRing.** A page of the card's memory holds the i-th of the n pages of a
frame. `After` and `Distance` count pages round the ring. `TakeFrame` is one
turn of `ne_receive_packets` up to the write of BNRY: the card may receive
before it and between it and `SetBnry`. Before an overrun the pages being read
are not free, so that a write in the middle of the copy would change nothing.
When a page that begins no frame is taken for a header the bytes may be
anything. The card is external: it drops what does not fit and may report an
overrun, after which `lost` ends the promise of order.

**Resolver.** Calls are sequences of steps (`pc`), because every poll may hand
on any frames to the handlers that change the globals the call reads next. The
network is a set of messages that only grows; each may be handed on at any time,
again, or never. A frame is answered only if it was sent to the hardware address
of the right hop. The network is honest: hosts answer for themselves and the
name server answers truly. Loop counts are 1-digit bounds in place of the code's
hundreds of thousands. `g_ping_seq` wraps at `PING_SEQ_MOD` (2^16 in the code).
`pings` counts the requests, and a reply carries the count of its request
(`nth`, which is not in the packet and which no handler reads), so that a reply
to an old request with the number of the present one can be told from the right
one. `overrun` is set when the card reports an overrun; from then on a poll may
return or not, as `NetRing` shows.

**Desktop.** All of `desktop.c`'s state, in cells. A frame is `MouseFrame` (the
sum of the packets since the last, then `process_mouse`) or `KeyFrame`. The
painted picture is the operator `Seen`: the last window painted over a cell.

**JarFile, ClassFile, Jvm.** A JAR is a sequence of entries, cut at any byte; of
each entry there is the length that its header gives (`comp`) and the one its
data has (`data`). A class file is the sequence of its constants (kind, and
length of the text), its members' attributes, again with the length given and
the true one, and its size. The code casts these lengths to `int`: `AsInt` is
that cast, with 2^31 as `INT_LIM`. A length from there on is negative, passes
the tests against the file's size and takes the offset backwards. The walk over
a JAR may then go round for ever (`Endless`) or leave the file (`Astray`); the
parser of class files reads something else than an attribute (`Astray`), after
which it may accept or refuse: `jvm_parse_class` is the set of what it may
return. A main class whose name does not fit into `class_path` is looked for
under what fits (`CutName`). Which of the files that `java_resolve_path` tries
is opened is left open. Loops are functions from the number of turns to the
state: `Visits` is what each call of `java_zip_next_entry` in a loop returns,
`LastCall` the call with which a loop ends, `PoolTurn` one turn of the loop over
the constant pool. The interpreter may meet any instruction at any time, so that
every bytecode is covered; a failing instruction ends the program, as every
caller passes `false` on. Values are kinds. A frame records how high its
caller's stack was without the arguments, for `CallsBalance`.

**Monitor64.** One turn of `kernel_main64`'s loop polls one byte and handles the
key or halts. `interrupts` is the interrupt flag together with the PIC's masks:
FALSE from boot on, and no action changes it, as no code does.

## 3. Runs

| Run | Instance | Distinct states | Shows |
|---|---|---|---|
| `heap` | 120-byte region, 12-byte headers, sizes 0, 1, 9, 24, 108, 121, 255, words of 8 bits | 7,396 | `HeapInv`, `LiveDisjoint`, `NoFalseExhaustion`, `StatsExact`, `CoalesceIsLoop` |
| `scheduler` | room for five structures, three stack pages, four pids | 10,905 | `TypeOK`, `PmmInv`, `RingIntact`, `StructOwnership`, `StackOwnership`, `RoundRobin` |
| `files` | four nodes, three bytes of pool, four paths, two texts, a path buffer of 20 bytes | 7,256 | `TypeOK`, `ListsIntact`, `PathsResolve`, `PoolDisjoint`, `CwdLive`, `MvKeepsBytes`, `TouchesItsArguments`, and `CommandsKeepTree`: the commands implement `FileTree` |
| `files_root_delete` | the same, with the root's children deleted as well | violation | `RemovedIsGone` does not hold |
| `netring` | six pages, six frames of one to three | 128,645 | `PointersInRing`, `DrainEnds`, and `HandsOnInOrder`: the driver implements `FrameQueue` |
| `resolver` | three commands, two names, two attempts of two polls, four ids, two ports, four sequence numbers | 848,078 | `RightAnswer`, `PingHonest`, `NothingAwaited`, `ReachesHop`, `CommandEnds` |
| `timer_sleep` | 10 ms per tick, sleeps of 1 to 30 ms | violation | `SleepsLongEnough` does not hold |
| `klog` | a ring of nine bytes, `dmesg` buffer of six, four lines | 7,892 | `DmesgHonest`, and `KeepsNewest`: the ring implements `BoundedLog` |
| `console` | lines of two characters, two history entries, two groups of keys | 184,613 | `PacketsWhole`, `KeyboardNeverBlocked`, and `EditsInOrder`: port, line and ring implement `LineEditor` |
| `desktop` | three windows on 8 by 10 cells | 72,720 | `SeenIsHit`, `DragSane`, `InBounds` |
| `java` | JARs of up to three entries, cut at and within them; class files of up to three constants, cut at every byte; true and false lengths, words of 8 bits; stacks of two, calls two deep | 1,449,100 | `ReadsJar`, `ParsesAsWritten`, `ArraysInBounds`, `CallsBalance` |
| `monitor64` | lines of two characters | violation | `KeysAreRead` does not hold |

Why the bounds are enough:

- `heap`: the region holds six minimal blocks, so runs of three and more free
  blocks form before a free merges them, with used blocks on either side. The
  sizes lie on both sides of the rounding and of the split threshold; 108 takes
  the whole region, 121 exceeds it, 255 wraps to 0 when rounded.
- `scheduler`: memory for structures runs out first on some paths and stack
  pages on others. Pids wrap after 3, so two processes carry one pid and a
  process carries the kernel's pid 0; the snapshot's array is shorter than the
  ring on some states.
- `files`: the root's chain grows to three entries and the directory's to two,
  so entries are removed from the head and from behind it; the table and the
  pool fill up within a command, so that the second half of a copy is refused;
  names occur on two levels. One has the eleven characters a name can have, so
  that the text of an argument with a `/` behind it is cut to it, and some paths
  of two and of three names are longer than the buffer.
- `netring`: frames of one page and of several, so that they wrap in the middle
  and at the end; six frames go round the ring twice and overrun it.
- `resolver`: with two ports the third query has the port of the first, whose
  reply may still be under way; the ids are not used up, the hypothesis of
  `LookupsRight`. A command pings twice, so that a late reply to its first ping
  meets its second, and with six pings the four sequence numbers come round. The
  noise holds an ARP reply that replaces the cache entry at any poll.
- `klog`: lines shorter and longer than what is left, four of which wrap the
  ring more than once; the buffer of `dmesg` is shorter than the ring.
- `console`: the line fills up, the ring of two entries wraps, recall goes past
  both ends. The keys are used in two groups, those that edit and those that
  walk the history, because all at once is beyond TLC.
- `desktop`: windows that cover one another partly and wholly, and one as wide
  as the desktop allows.
- `java`: stacks and locals at their limits, calls at theirs; entries with extra
  fields, compressed ones and ones with a data descriptor; lengths that lead
  back into an entry, to its own start, to an earlier one and before the file;
  class files cut within the pool, the members and the attributes.

`files` uses a `VIEW`. It leaves out the fields of free entries and the pool's
bytes that belong to no file: an entry is filled in completely before it is
used again, and bytes of the pool are written before a file refers to them, so
no operation can tell two states with the same view apart, as long as a free
entry is on no chain. `ListsIntact`, an invariant of the same run, says so.
`files_root_delete` has no view.

Deadlock is checked in all passing runs: each of the systems always has
something that may be done. The two runs that end in a violation and whose
systems may stop (`MAX_TIME` is reached; the monitor has halted) do without.

Fairness, and what justifies it:

- `NetRing`: `WF(Driver)`. Inside `network_poll` the code runs on. Nothing is
  assumed of the card or of who calls `network_poll`. `DrainEnds` holds because
  a behaviour has finitely many frames; a card that fills the ring as fast as it
  is emptied keeps the loop busy, in the code too.
- `Resolver`: `WF(Call)`, the code outside of `network_poll`, and `WF` of
  `PollReturns` while there has been no overrun. That a poll returns then is
  what `DrainEnds` shows of `NetRing`, where the drain's loop is modelled; after
  an overrun it may go round over old pages, nothing is assumed, and
  `CommandEnds` excuses the case. No message is ever owed: otherwise the
  property rests on the counted attempts and turns.
- `Console`: `WF(Reader)`, since the shell and the desktop poll for ever (the
  shell's HLT ends with the next timer tick), and `SF(SendKeyByte)`: the
  controller does not prefer the mouse for ever whenever the port is free. It
  asks nothing of a keyboard that the command byte has switched off, which never
  is enabled to send; `KeyboardNeverBlocked` excuses that state and no other.
- `Monitor64`: `WF` of the loop and of `Interrupt`. The latter is never enabled,
  which is the finding.

## 4. Proofs

TLAPS proves, for every value of the constants that meets the named
assumptions:

| Theorem | Module | Statement |
|---|---|---|
| `HeapSafe` | `MemoryProofs` | `ClientsSpec => []HeapInv` |
| `CallersSafe` | `MemoryProofs` | `ClientsSpec => []LiveDisjoint` |
| `RefusesOnlyWhenFull` | `MemoryProofs` | `ClientsSpec => []NoFalseExhaustion` |
| `CountsExact` | `MemoryProofs` | `ClientsSpec => []StatsExact` |
| `LoopIsCoalesce` | `MemoryProofs` | `ClientsSpec => []CoalesceIsLoop` |
| `PmmSafe` | `MemoryProofs` | `PmmSpec => []PmmInv`, under any caller |
| `KernelPmmSafe` | `MemoryProofs` | `Spec => []PmmInv`, in the kernel |
| `SchedulerTypes` | `MemoryProofs` | `Spec => []TypeOK` |
| `SchedulerHeapSafe` | `MemoryProofs` | `Spec => []HeapInv` |
| `RingSafe` | `MemoryProofs` | `Spec => []RingIntact` |
| `StructsSafe` | `MemoryProofs` | `Spec => []StructOwnership` |
| `StacksSafe` | `MemoryProofs` | `Spec => []StackOwnership` |
| `RoundRobinSafe` | `MemoryProofs` | `Spec => RoundRobin` |
| `FilesTyped` | `FilesProofs` | `Spec => []TypeOK` |
| `PoolSafe` | `FilesProofs` | `Spec => []PoolDisjoint` |
| `ListsSafe` | `FilesProofs` | `Spec => []ListsIntact`, if `~DELETE_AT_ROOT` |
| `CwdSafe` | `FilesProofs` | `Spec => []CwdLive`, if `~DELETE_AT_ROOT` |
| `PathsSafe` | `FilesProofs` | `Spec => []PathsResolve`, if `~DELETE_AT_ROOT`: of every path whose text fits the buffer |
| `MvSafe` | `FilesProofs` | `Spec => MvKeepsBytes`, if `~DELETE_AT_ROOT` |
| `CommandsActOnTree` | `FilesProofs` | `Spec => CommandsKeepTree`, if `~DELETE_AT_ROOT`: the commands implement `FileTree` |
| `ArgumentsOnly` | `FilesProofs` | `Spec => TouchesItsArguments`, if `~DELETE_AT_ROOT` |
| `RingKeepsNewest` | `KernelLogProofs` | `Spec => KeepsNewest`: the ring implements `BoundedLog` |
| `DmesgTellsAll` | `KernelLogProofs` | `Spec => DmesgHonest` |
| `PointersSafe` | `NetRingProofs` | `Spec => []PointersInRing` |
| `RingIsQueue` | `NetRingProofs` | `Spec => HandsOnInOrder`: the driver implements `FrameQueue` |
| `AwaitedOnlyInCall` | `ResolverProofs` | `Spec => []NothingAwaited` |
| `PingsHonest` | `ResolverProofs` | `Spec => []PingHonest`: of the first `PING_SEQ_MOD` pings |
| `FramesReachHop` | `ResolverProofs` | `Spec => []ReachesHop` |
| `LookupsRight` | `ResolverProofs` | `Spec => []RightAnswer`, if `MAX_COMMANDS < DNS_ID_MOD` |
| `PressHitsSeen` | `DesktopProofs` | `Spec => []SeenIsHit` |
| `DragEnds` | `DesktopProofs` | `Spec => []DragSane` |
| `WindowsStay` | `DesktopProofs` | `Spec => []InBounds` |
| `PacketsSafe` | `ConsoleProofs` | `Spec => []PacketsWhole` |
| `KeysInOrder` | `ConsoleProofs` | `Spec => EditsInOrder`: the console implements `LineEditor` |
| `StacksBounded` | `JvmProofs` | `Spec => []ArraysInBounds` |
| `CallsBalanced` | `JvmProofs` | `Spec => CallsBalance` |
| `JarsRead` | `JvmProofs` | `Spec => []ReadsJar`: of every JAR that is `WellMade` |
| `ClassesParsed` | `JvmProofs` | `Spec => []ParsesAsWritten`: the constants of every file; acceptance of every file of `TrueLengths` |

### Assumptions

Each is named in the module that declares the constant, and the code's
constants meet all of them.

- `HeapAssumption`: the region does not start at 0, holds more than a header,
  and its size plus a header is well below the word size. `ClientAssumption`:
  sizes are words; strays are outside the region. `PmmAssumption`: the heap ends
  on a page boundary and not in page 0. `SchedAssumption`: a structure fits into
  the fresh heap, otherwise `scheduler_init` panics.
- `RamdiskAssumption`: the table has room for the root and the seeds; `.` and
  `..` are no names; every name has a character; what a token can spell is told
  apart from what only an argument's text can be. `CommandAssumption`: a path is
  absolute or has a token, a relative path of one token is that token also as a
  name, a text is bytes, and the path buffer has room for `/`.
- `KernelLogAssumption`: the print buffer has room for a byte, and
  `MAX_LINE_BYTES` bounds a line of the longest subsystem and text with a number
  of ten digits. `MAX_LINES` stays below 2^32: the count of lines does not wrap.
- `NetRingAssumption`: the ring has two pages or more, a frame one or more.
- `ResolverAssumption`, `NamesAssumption`, `NoiseAssumption`: loops are counted from
  at least one; ids and sequence numbers take two values or more; names are
  not addresses; the network is honest, as in section 2.
- `ScreenAssumption`, `OrderAssumption`, `LayoutAssumption`: every window fits on
  the desktop, the initial stack holds each once, the initial places are inside.
- `CharactersAssumption`: the letters and their upper cases are printable; the
  NUL that ends a string, prefix codes and the names of other keys are not.
- `IntAssumption`, `JarAssumption`, `JvmAssumption`, `FilesAssumption`: an int has
  a limit, a header has a length, the arrays have sizes, and the fields of a file
  are numbers of the kinds the formats say, lengths being below 2^32. Nothing is
  assumed of how the lengths fit together.

Some hypotheses are not assumptions on the code but limits of what is true of
it:

- `~DELETE_AT_ROOT`: `fs_delete` does not unlink a child of the root (section
  6), and afterwards chains are not intact. `FilesTyped` and `PoolSafe` hold
  without it.
- `MAX_COMMANDS < DNS_ID_MOD`: ids have 16 bits and an answer may be
  delayed for ever, so that after 65,535 lookups an old answer can carry the id,
  and with luck the port, of a new query.
- `pings <= PING_SEQ_MOD`, in `PingHonest`: sequence numbers have 16 bits, and after
  65,536 pings a late reply to the same host looks like the right one.
- The text of a path is shorter than `PATH_CAP`, in `PathsResolve`: `pwd` and
  `find` have a buffer of 256 bytes, and 22 nested names of eleven characters
  are longer. The path they then print is cut and leads elsewhere or nowhere.
- `WellMade`, in `ReadsJar`: the headers give the lengths of the data, no offset
  in the file plus a length reaches 2^31, and the main class fits into
  `class_path`. `TrueLengths`, in the second half of `ParsesAsWritten`, asks the
  same of a class file's attributes. Without them the code may accept a file in
  which something is missing, or read for ever (section 6).

### Arguments

**Heap.** `LiveDisjoint` speaks of bytes and headers and is not inductive. The
inductive invariant is `HeapInv /\ Owned`: the list is well typed, tiles the
region and is coalesced; the callers hold exactly the blocks in use; each is as
long as what was asked for. The argument:

- `Min` of a non-empty set of naturals is its least element (`MinOfNats`, from
  the well-foundedness of `<`), so `kmalloc`'s block and the end of a run of
  mergeable blocks (`RunEnds`) exist.
- In a tiling every block but the first is the `next` of the greatest block
  below it (`Predecessor`). So a block is absorbed by `heap_coalesce` exactly
  when its predecessor is mergeable, and a merged block ends where the last of
  its run ended: `CoalesceSound` needs the region tiled but not coalesced, the
  state `kfree` is in after it has set `free`.
- `AlignUp`: rounding never shrinks a request, or yields 0, which is refused.
- `TakeSound`, `KmallocSound` and `KfreeSound` sum up what a call does; the
  client proofs use only these.
- `RefusesOnlyWhenFull`: a stretch that no caller's block touches lies in one
  free block. The block it starts in is free, and were that to end inside the
  stretch, the next would be free too, against `Coalesced` (`StretchHeld`). So the
  block has room for the request, and `kmalloc` does not refuse it.

- `CountsExact`: the sums take the blocks in whatever order `CHOOSE` gives. That
  the recursion defines a function at all, and that any element may be taken
  first, is shown by the number of elements (`SumExists`, `SumFacts`). The
  blocks below a block then take exactly the bytes up to it, from one block to
  the next, and each block in use has what its holder asked for.
- `LoopIsCoalesce`: each merge of the loop keeps the tiling, the blocks in use and
  the marks (`MergeSound`), the blocks behind the walk cannot be merged, and the
  number of blocks plus that of the blocks ahead decreases with every turn. And a
  list has only one such successor that is fully merged (`OneCoalesced`): a block
  that one of two had and the other had not would be free, behind a free one.

**Pages.** `PmmInv` is inductive as it stands. The work is in the cardinality
of the bitmap when one element is added or removed, and in that
`pmm_free_page` filters every address that is not an allocated page.

**Scheduler.** The inductive invariant `SInv` combines the heap's tiling
(every block in use large enough for a structure), the page allocator's
invariant, the equality of *blocks in use* with *structures on the ring plus
lost ones*, the equality of *pages in use* with *reserved pages plus stacks*,
and the shape of the ring. `RingIntact` counts hops; the induction uses `Ring`
instead: `next` stays on the ring, is injective, and no non-empty set of
structures that is closed under `next` leaves out `process_list`. Insertion keeps
this because a closed set without `process_list`, minus the new structure, would
have been closed before; removal because a closed set that holds the
predecessor, plus the removed structure, was closed before. From `Ring` follows
`RingIntact`: the nodes met by hops are closed under `next`, hence all of them;
the first node met twice is `process_list`, since `next` is injective; so the
walk returns after exactly as many hops as there are structures (`RingCounted`).
That the structure `kmalloc` returns is on no ring yet follows from its block
having been free; that a killed structure's `kfree` is not ignored, from its
block having at least one byte before `HEAP_END`.

**Files.** The inductive invariant `FilesInv` is that the disk is `Sound` and the
root and the current directory are directories. `Sound` has three parts: `DiskOK`,
types; `PoolOK`, files lie below the end of the written pool and apart; and, without
deletions at the root, `TreeOK`. `ListsIntact` walks chains; `TreeOK` says the
same by sets. A directory's chain is `Linked` to exactly its children: each is
reached, `next_sibling` is injective on them and ends. Names within a directory
differ. And the tree is connected: no proper part of the live nodes that holds
the root holds with each node its children. The last is what `PathsResolve`
needs, since a node whose ancestors form a cycle has a path that leads nowhere. Each
ramdisk operation keeps `Sound` (`AddSound` and its like); a command is a
composition of these, taken in the order of the code with every early return,
which is why no command needs an argument of its own except `mv`. There the
destination may be the source, lie behind it, or exist, and the table or the pool
may fill up in between; `MvSafe` rests on the bytes of the copy being in place
when the source is deleted, on the copy being another node than the source
(`CopyGoesElsewhere`), and on a write never touching bytes that a file has.

**Files, as a tree of names.** The refinement mapping takes the live nodes to
their paths, so first paths must be told apart: by the connectedness of the tree,
`PathTo` is injective on the live nodes, and the path of a parent is the
path without its last name (`PathsApart`). Then the tree holds at each path the
content of its one node (`TreeHolds`), and nodes that keep their parents and
names keep their paths (`PathsKept`). From these, each operation of the ramdisk
is one operation on the tree: a new entry is a free name with an empty content
(`GrownIsWith`), a write changes the content at one path and, as the pool is only
appended to, at no other (`WrittenIsWith`), and a deletion takes a leaf away
(`DeletedIsWithout`, `DeletedIsLeaf`). `Effect` lists what a command may compose
of these, and `EffectIsStep` shows that each is a step of `FileTree` or changes
nothing. Two cases are not obvious: an `mv` over a file that had the same bytes
before is seen as the removal of the source alone, and a `wget` to a path that
is not a plain name as two changes, or one if the file had the text already.

**Files, and the arguments.** `ArgumentsOnly` uses the same descriptions of the
ramdisk's operations. What `With` and `Without` touch is one path
(`TouchedWith`, `TouchedWithout`), and two steps in a row touch no more than both
(`TouchedTwice`). That this path is the argument's is the work: the file that
`Put` has made in the parent is the one that the whole path leads to afterwards
(`PutTouches`), the text of a plain name spells that name (`SaveTouches`), and a
node keeps its path while another is made, written or deleted, so that the
paths may be named in the tree before or after the command.

**Kernel log.** `LogInv` says only that head and size are in range. The work is
that a put moves every other byte's place by one (`Place`, computed with wraps),
and so, by induction on the bytes of a line, that the ring after a line is the
newest part of what it held followed by the line.

**Network ring.** `RingInv`: the page numbers are in the ring and, until an
overrun, every page between the one to be taken and CURR belongs to a frame that
lies wholly there, frames have no gaps between them and lie in the order of
arrival, and BNRY is behind the frame being taken, that behind CURR. The last
makes a write by the card between `TakeFrame` and `SetBnry` harmless. All
distances are counted round the ring, so that wrapping needs no cases.

**Resolver.** Four invariants over the same steps. `AwaitInv`: a flag that says
"waiting" is up only while its call polls. `PingCall`: the reply kept is to the
sequence number and target of the call; beside it `Numbered`, that the n-th
request and its reply carry the n-th number, and that among the first
`PING_SEQ_MOD` requests no two have the same (`SeqsDiffer`). `HopInv`: every
hardware address on the wire or in the cache belongs to the address beside it,
and between the check of the cache and the sending of the frame no poll comes.
`LookupInv`: there have been at most as many queries as commands, every answer
on the wire carries the id of a query asked, and those with the id of the
pending one are to its name.

**Desktop.** `DeskInv`: the stack is a permutation with the active window at its
front, every window is inside, only a visible window is dragged, and only while
the button was down. Every function that changes the stack is shown to keep the
permutation; `SeenIsHit` follows because the highest place of a visible window
that covers a cell is both the one painted last and the first one hit.

**Console, packets.** The bytes of one packet are on the way in order: those
the driver has collected, then the one in the port, then those the mouse has
still to send. The keyboard's byte in the port does not come between them because
the drivers sort by the AUX bit, and whoever polls asks the bit before the byte.

**Console, keys.** `EditsInOrder` is a refinement, and its invariant relates
three places. `KeysInv`: what the decoder will make of the bytes that are on
their way, from its present prefix and shift flags, is the queue of keys typed
and not yet acted on, and the shifts it will then believe to be held are those
that are. There are at most three such bytes, so that reading them is `Reading`,
three steps of a function and no recursion. `LineInv`: the buffer holds a string
of printable characters with a NUL behind it, the cursor in it. `HistoryInv`:
the slots of the ring in use hold such strings. An insertion shifts the cells
above the cursor, a deletion shifts them back, and the line as a sequence is
changed at one place (`InsertOk`, `RemoveOk`); a new entry of the ring is a new
last line, and the oldest is dropped when the ring is full (`PastAdd`).

**Java, interpreter.** `StacksBounded` needs that no operand stack, no array of
locals and no chain of frames exceeds its bound, which each instruction tests
before it pushes. For `CallsBalance` the invariant says of each frame but the
outermost that its `below` is the height of its caller's stack: callers do not
move while a call is under way, whatever the callee does.

**Java, readers.** Where the lengths are true and within an int, the casts change
nothing, and both loops are compared, turn by turn, with partial sums. After
n calls the walk over a JAR is at the n-th partial sum of the entries' lengths, as
long as the entries so far are readable: entries take bytes, so the sums
differ and the header found at an offset is the right one. After k turns the
parser's index is the k-th partial sum of the slots, its offset that of the
widths or `Fail` from the first cut on, and the constants read are those before.
The pool comes before every attribute, so this part needs no hypothesis on the
attributes' lengths.

**Recursive functions.** What `Chain`, `Walk`, the hops or `PutLine` compute is
established without the library's induction theorems, whose parameter the
installed provers cannot instantiate: by a least counterexample, from the
well-foundedness of `<` (`Climb`, `UpTo`), and by giving a witness for the
`CHOOSE` that defines a recursive function.

### Only model-checked

- The liveness properties `DrainEnds`, `CommandEnds` and `KeyboardNeverBlocked`:
  the prover has no ENABLED and no fairness.
- The three properties of the violation runs, `KeysAreRead` among them, which do
  not hold.

## 5. Abstract specifications

`FileTree` has no table, chain or pool, and each of its operations changes one
path (`Move` two, `SaveBeside` two). `FileCommands` refines it with `tree <-`
the paths of the live nodes and their contents, `cwd <-` the path of
`fs_cwd`. A command that fails and changes nothing is a stutter; a `cp` that
makes the target and cannot write it appears as `MakeFile`. So a command changes
at most the paths of one such operation, whatever happens to chains and bytes
underneath. Which path that is the steps of `FileTree` leave open;
`TouchesItsArguments` ties it to the command's arguments.

`FrameQueue` numbers the frames as they arrive and keeps the set of those that
were accepted and not yet handed on; the driver hands on the least. `NetRing`
refines it with `waiting <-` the frames whose pages lie between the next one to
be taken and CURR, until the card reports an overrun.

`BoundedLog` is the sequence of the newest bytes, up to the ring's capacity.
`KernelLog` refines it with the bytes from the ring's oldest on.

`LineEditor` has a line as a sequence with a cursor, the past lines as a sequence
and a queue of keys not yet acted on. `Console` refines it with the first
`cmdlen` cells of `cmdbuf` and the ring read from its oldest entry. Each key
acts once and in order, whatever bytes of the mouse lie between its codes.

## 6. Findings

- **Deleting a child of the root** (`lib/ramdisk.c:537`). `fs_delete` unlinks a
  node only when its parent's index is not 0, and 0 is the root. The deleted
  entry is marked free and stays on the root's chain: `ls` goes on printing it,
  and once the entry is used again in another directory the root's chain runs
  into that directory's. `files_root_delete` shows the first step of this.

- **`sleep_ms` returns early** (`drivers/pit.c:66`). Its comment promises "at
  least `ms` milliseconds". The number is rounded down to ticks and the tick
  under way counts as a whole one: `sleep 10` may return after 1 ms, `sleep 15`
  always within 10 (`timer_sleep`).
- **The 64-bit monitor stops reading keys** (`kernel/main64.c:778`). It halts when
  no key is pending, with all interrupts masked (`boot/boot.asm:217`) and
  disabled (`kernel/entry64.asm:15`), so the HLT never ends (`monitor64`).

Not defects of the model's properties, but worth knowing: `create_process` loses
its structure when there is no page for the stack (`leaked`); the data pool is
never reclaimed, so a file rewritten often enough fills it; after 2^32 processes
pids repeat, and a process with pid 0 cannot be killed. `dmesg` prints the
oldest bytes of the ring when its buffer is too short, and says "truncated" also
when exactly the buffer's 4095 bytes were there. A key typed while `mouse_init`
waits for an answer is taken for the answer; taken for the command byte it is
written back to the controller, and may switch the keyboard or the translation
of its codes off. A press on the desktop acts where the pointer is after all
packets of the frame, a release and a press within one frame are missed, packets
with an overflow bit lose their button change, and a click on a row of the open
menu that is no item goes to the window beneath. After an overrun the network
driver may walk over old pages, for ever. `pwd` and `find` cut a path that is
longer than their buffer, without saying so. In the java command, string
constants are looked up in the pool of the class that prints them, not of the
one that pushed them; sizes of 2^31 and more in a file become negative, so that
a JAR may be walked for ever and a class file with something missing be
accepted; and `INT_MIN / -1` faults. The first literal of the demo
`/java/hello.jar` announces 25 bytes and has 24.

## 7. Not modelled, and why

- Display, serial and speaker drivers, printf: output that nothing reads back.
- `ls`, `find`, `tree`, `grep`, `kat`, `pwd`: they change nothing; the walks they
  make are what `ListsIntact` and `PathsResolve` are about.
- Games, `calc`, `date`: local state of one command.
- Boot code, GDT, IDT: straight-line set-up, taken as the initial state.
- `wifi.c` (not built), `fat32.c`, `tcp_stack.c`, `web_stack.c`: stubs without
  state that others use.
- The context switch: `yield` only moves the pointer in this version.
- Typing inside the editor: `mamu_save` saves any text.
- The bytes of packets, checksums and the building of a DNS query: a message is
  what the handlers tell apart. The probing for the card is one Boolean.
- What a Java program computes and prints, and `javadir`, which moves the current
  directory as `cd` does.
- The 64-bit kernel's copies of the ZIP and HJAR code.

## 8. What is left

The components that keep state are modelled, and every invariant, action
property and refinement a passing run checks is proved. Left are:

1. The liveness properties, for a prover that has fairness.
2. The hazards in `PROJECT.json` that have a note in place of a property.

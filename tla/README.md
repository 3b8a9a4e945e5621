# TLA+ specifications of org.conman

org.conman is a collection of Lua modules, some in C (`src/src/`), some in Lua
(`src/lua/`). Its core is a network framework: `nfl` runs coroutines from an event
loop, on top of a set of polled files (`pollset`), a clock and a queue of timers;
`nfl.tcp` and `nfl.tls` give each connection a coroutine and a buffered stream
(`net.ios`); `signal` brings Unix signals to Lua code. Below it are the bindings to the
system: sockets (`net`), files (`fsys`), processes (`process`), libtls (`tls`) and the
system log (`syslog`). Beside it stand modules that only
compute, such as `base64`. This directory holds TLA+
modules of these parts, configurations that check them with TLC, and theorems that
TLAPS proves.

Paths such as `lua/nfl.lua` and `src/pollset.c` are below `src/` of the repository.

To check a run of `PROJECT.json`: `tlc -config MCNfl.cfg MCNfl`. To check the
proofs: `tlapm Sequential_proofs.tla`.

## 1. The system

| Component | State it keeps | Operations | What makes it correct |
|---|---|---|---|
| timer queue (`lua/nfl.lua` 55-156) | `TOQUEUE`: a heap of entries, and for each coroutine one of its entries | `timeout(when)`, `timeout(0)`, `remove()` | the first entry is the earliest; an entry that left the heap is no longer referred to; a timer leaves only when due or cancelled |
| event loop (`lua/nfl.lua`) | `RUNQUEUE` (an array and a hash of flags), `REFQUEUE` with a count, `SOCKETS` | `schedule`, `spawn`, `timeout`, `server_eventloop`, `client_eventloop` | flags and array agree; the count is that of the living coroutines; no sleep past a timer or with something to run; every scheduled coroutine runs |
| `pollset` (`src/pollset.c`) | what the kernel watches, an object for each file, the events of the last wait | `insert`, `update`, `remove`, `wait`, `events` | the parts agree; an event is of a registered file, for what it is wanted for and ready for, with its object. Four implementations |
| `signal` (`src/signal.c`; POSIX, and ANSI C without it) | for each signal: the function's reference, whether it was noted, what to block; the hook | `catch`, `ignore`, `default`, `caught`, `mask`, `suspend`, `raise` ...; the C handlers, the backend | no noted signal is forgotten; a reference is owned by one entry; a handler is not called for nothing; blocked signals are blocked during the handler |
| `nfl.tcp` (`lua/nfl/tcp.lua`) | the socket, its interest in `SOCKETS`, the coroutine | the event handler, `_refill`, `_drain`, `close`, `listens`, `connecta` | the stream is neither torn, repeated nor reordered; whoever waits for what is there is resumed |
| `net.ios` (`lua/net/ios.lua`) | read and write buffers, `_rpos`, `_eof` | `read`, `write`, `flush`, `setvbuf` ... | a line is a line whichever way packets were cut; what is written is drained once |
| `nfl.tls` (`lua/nfl/tls.lua`), `tls` (`src/tls.c`) | as `nfl.tcp`, with `__input` and the state of libtls between | the event handler, `_handshake`, `_refill`, `_drain`, `close`, which yield and try again; the callbacks libtls reads and sends with | as `nfl.tcp`; a read may wait for room, a write for bytes; the end is given after all that came before |
| `net.tcp`, `net.tls` | a stream | blocking calls | - |
| `net` (`src/net.c`) | in userdata: a descriptor, or an address | `socket`, `pair`, `accept`, `close`, `socketfile`, options of a socket as fields, `address`, comparison | a descriptor has one owner and is closed once, whatever fails half way; what is written reads back; the order of addresses is one |
| `fsys` (`src/fsys.c`) | descriptors in files and directories, the position in a list of names | `open`, `fdopen`, `pipe`, `dup`, `redirect`, `opendir`, `lock`; `chmod`, `umask`, `link` ...; `basename`, `dirname`; `expand`, `gexpand` | as `net`; permissions and names mean what was asked for; what `glob()` allocates is given back |
| `process` (`src/process.c`) | none of its own: the kernel's | `fork`, `wait`, `waitusage`, `waitid`, `exec`, `setresuid` ..., limits, affinity | the end of a child is told once and as it was; memory is given back on every way out of `exec()`; a refusal is told |
| `tls`: objects (`src/tls.c`) | a `struct tls` or `tls_config` in userdata; the registry, by address | `client`, `server`, `accept_...`, `connect_...`, `configure`, `reset`, `close`, the collector | a callback finds the functions of its own connection; a structure is freed once, and not while it is used |
| `syslog` (`src/syslog.c`) | the name given to `openlog()`, in the registry; the flag for stderr | `open`, `close`, `log` | the C library never holds a string that the collector has freed |
| `base64` (`src/base64.c`) | an object's options | `encode`, `decode` | decoding undoes encoding; the strict mode takes one text for each message |
| `strcore` (`src/strcore.c`) | none | `wrapt`, comparisons, `metaphone`, `safeascii`, `safeutf8` | of `wrapt`: lines fit, hold the whole text, and come to an end |
| `lfsr` (`src/lfsr.c`) | the register | the next value | every sequence of bits but 0 comes once |
| other algorithms (`crc`, `getopt`) | none | | equal to a reference definition |
| everything else | none, or a library's | one system or library call each | - |

`PROJECT.json` lists every component, with what was left out and why.

How they interact. `eventloop()` calls `pollset` (`wait`, `events`) and gives each
event to the handler stored as the file's object. A handler takes bytes off its
socket and calls `schedule()`. The loop resumes scheduled coroutines; a coroutine
calls the stream, which yields from `_refill()` and `_drain()`, changes the interest
of its socket, or inserts sockets. `timeout()` in a coroutine arms a timer; the loop
takes it off the queue and calls `schedule()`. Signals interrupt any of this: at C
level between two machine instructions, in Lua between two instructions of the
interpreter.

What is hard. There is one thread, but three kinds of concurrency: (1) coroutines
that interleave at yields while handlers and timers schedule them, each expecting to
be the only one to do so; (2) signals; (3) the kernel and the peer, which change what
is ready, cut streams anywhere, accept a part of what is sent, hang up. State is kept
twice in many places (array and hash, kernel's and module's), and it is the rare order
that makes the copies differ. The list `hazards` of `PROJECT.json` goes through the
code from this point of view; a hazard without a property says why there.

## 2. The modules

| Module | Models | State and actions |
|---|---|---|
| `TimerBag` | what the timer queue promises | a set `pending` of entries; `Arm`, `Disarm`, `Leave`, time |
| `TimeoutQueue` | `TOQUEUE` as it is | `heap` and `index` are the array and hash parts of the table; `pc`, `cur` stand for the tail-recursive `bubble_up`/`bubble_down`, one turn per step. Refines `TimerBag` |
| `Sequential_proofs` | - | theorems about `TimeoutQueue` and about `Wrap` |
| `Nfl` | `eventloop()`, its entry points, and any coroutines | extends `TimerBag`. `pc` is the place in `eventloop()` (`Top`, `Drain...`, `StartWait`, `Wait...`, `Handle...`, `Resume`); `Co...` are the calls a running coroutine can make, in any order |
| `Pollset` | the comment at the head of `src/pollset.c` | registered files, events found, the answer to the last call. With `StrayFinds`, as `Poll` refines it, a file that a handler inserts may have an event that no wait found |
| `Epoll`, `Poll`, `Select`, `Kqueue` | the four implementations | their C structures with the kernel's below; each refines `Pollset` |
| `Pollsets` | the pollset as a program has it | one of the four, chosen by `impl`, under the names `E`, `A`, `L` and `K`, with what each asks of its callers |
| `Loop_proofs` | - | theorems about `Nfl`, about each of the four, and about `Pollsets` |
| `Signal` | the POSIX half of `src/signal.c` | kernel (`action`, `pending`, `mask`), the C handlers as a stack of `frames`, the module (`m_signal`, `m_handlers`, `hook`), and the interrupted program with the steps of `luasigbackend()` and of each call |
| `SignalAnsi` | the other half of `src/signal.c` | as `Signal`, without a mask; `way` is what the kernel does about a signal, which it forgets when it calls the handler (`resets`), or not; a signal that nobody handles ends the process (`killed`) |
| `Kernel` | what the kernel knows of a process | the descriptors that are open; the lowest free one is given out; every call may fail with an `errno`, which stays until the next |
| `Sockets` | the userdata of `src/net.c` | `sock`: the number in each; one action for a call with all that it undoes when a later step fails |
| `Files` | streams and directories of `src/fsys.c` | `stream`, `dir`: their numbers; `told`: what the last call said and what is true |
| `Descriptors` | both, with `socketfile`, `fromfd`, `close(fd)` and `redirect` | `shared`, `lost`: the numbers that went through the calls that share or lose them |
| `SockOptions` | `__index` and `__newindex` of a socket, over the kernel of Linux | `file`: what the descriptor is; `val`: what the kernel keeps, which is what it makes of the value it is given (`KeptAs`); `m_sockoptions` is the table as the source has it, searched by halving (`bsearch`) |
| `Addresses` | addresses of `src/net.c` | made from hosts, ports and paths, compared by `Inet_comp()`; memory keeps what was in it |
| `Tree` | names, links and permissions of `src/fsys.c` | inodes with modes, `meant` by the program; `umask` |
| `Paths`, `Globs` | `basename` and `dirname`; `expand` and `gexpand` | a path cut into its parts; iterators with what `glob()` allocated |
| `Children`, `Exec`, `Limits` | `src/process.c` | what the kernel has to tell of each child; memory at each step of `exec()`; users, limits and processors |
| `TlsObjects` | contexts and configurations of `src/tls.c` | `registry` by address, the userdata with their tables, what libtls holds; the collector takes whom nobody has |
| `Syslog` | `src/syslog.c` | the pointer that the C library keeps, the strings that live |
| `Bindings` | the bindings as a program uses them | one of twelve parts, from `Descriptors` to `Syslog`, chosen by `part`; the variables of the others are `Off` |
| `ReadsBack_proofs` | - | lemmas about the parts of `Bindings` where what was written is read: `SockOptions`, `Addresses`, `Tree`, `Paths` |
| `Bindings_proofs` | - | theorems about `Signal`, about the other parts of `Bindings`, and about `Bindings` |
| `Ios` | the buffers of `lua/net/ios.lua` | operators: one look of a reader at the buffer (`Try`), the pieces a write is cut into (`Piece`) |
| `Connection` | what `lua/nfl/tcp.lua` and `lua/nfl/tls.lua` have in common | the socket and its peer, the loop as this connection sees it, the handler's hangup and write, the coroutine with `read`, `write`, `flush` and timeouts |
| `Tcp` | a connection of `lua/nfl/tcp.lua` | extends `Connection` with the handler's read and with `_refill`, `_drain`, `close`, and a coroutine that sleeps (`Nap`): `_refill`, as every yield, returns what the coroutine is resumed with. `overslept` and `dropped` are the bytes that nobody was given |
| `Tls` | a connection of `lua/nfl/tls.lua`, and `src/tls.c` with libtls as far as this needs it | extends `Connection`: the handler fills `input` (`__input`); in a call of libtls (`at` is one of `Calls`) a step reads or sends one piece of a record, or finds nothing or no room and yields (`WantInput`, `WantOutput`), and `Again` tries the call once more. `plain` and `record` are what libtls holds, `shake` how far the handshake is; the peer may say good-bye (`Bye`: close_notify) before its socket ends |
| `Transports` | the connections of an `nfl` program | one of three: of `Tcp` that is mostly read from (`R`), of `Tcp` that is mostly written to (`W`), of `Tls` (`T`), each with constants of its own |
| `Connection_proofs`, `Tcp_proofs`, `Tls_proofs`, `Transports_proofs` | - | lemmas about `Ios` and `Connection`; theorems about `Tcp`, about `Tls`, and about `Transports` |
| `Wrap` | `strcore_wrapt()` | `i`, `front`, `cnt`, `mark`, `lines` are its variables; a line is the set of the places of the text it has; one action for each class of character, with the break of the line that may follow in the same turn |
| `Base64` | `encode()` and `decode()` | the initial state is a message, or a text of somebody else; an action is one turn of the loop of `encode()` (`EncodeGroup`, `EncodeRest`), and then one call of `Ib64_readout()` (`ReadDigit`, `ReadPad`, `ReadEnd`, `BadCharacter`) or what `decode()` does with four digits |
| `Lfsr` | `lfsr()` and the function it returns | the register; one call per step |
| `MC...` | small instances for TLC | `MCSequential`, as `Pollsets`, `Transports` and `Bindings`, chooses one of several instances in the initial state, so that one run covers them |

Composition: `Nfl` is written over `TimerBag`, which `TimeoutQueue` is proved to
implement. `Descriptors` composes `Sockets` and `Files` over `Kernel`, and adds the calls that
take a descriptor from one to the other. `Connection` uses `Ios`, and repeats of the loop what a single connection sees:
timers, then the wait, then the handlers, then the run queue, with `Schedule()`
dropping a second value as `Nfl`'s does. `Nfl` treats the pollset as what `Pollset`
promises: an event of a registered socket, or none.

Conventions. Coroutines, files, entries and functions are model values. Bytes are
known by their position in the stream, so that a lost, repeated or displaced byte
shows without looking at content; what matters of content (CR, LF) is a function of
the position. A call that runs to its end without anything interleaving is one action;
where something can come between, it is several. What happens outside the code (peer,
kernel, time) is a nondeterministic action, marked external in the map where it has no
line in the repository. The map gives for each definition the lines it stands for.

Variables that the code does not have: `timing`, `news`, `abandoned`, `leaked`, `broken`,
`overslept`, `dropped`, `used`, `sent`, and in the bindings `told`, `shared`, `lost`, `wanted`, `meant`, `fate`, `heard`,
`asked`, `unheard`, are histories that properties refer to (`sent` bounds as well);
`clock`, `until`, `link`, `arrived` ... are the world's.

## 3. What is checked

| Run | Question | Result |
|---|---|---|
| `sequential` | The timer queue: is the array a heap between calls, does `TOQUEUE[co]` refer to an entry in it, and does the whole behave as `TimerBag`? `wrapt()`: do lines fit the margin, is nothing of the text lost, does it end? `base64`: does decoding undo encoding, does the strict mode refuse what is the encoding of nothing? `lfsr`: is the period what it should be? | holds, within the limits named below |
| `loop` | Do the two parts of `RUNQUEUE` agree, is `REFQUEUE._n` the number of living coroutines, does the wait never sleep past a timer, is no timer lost between queue and run queue? Does everyone who is scheduled run, do timers fire, does `client_eventloop()` return? | holds; timers fire if the run queue becomes empty time and again |
| `loop_stale` | Is a coroutine resumed by a timer only while it times an operation? | violated: finding |
| `pollset` | For each implementation: do its parts agree, does the iterator stay in its array, is every event what the comment promises? | holds, within the limits named below |
| `pollset_wanted` | Is an event what the file was ready for, for `select` without those limits? | violated: finding |
| `signal` | Is a noted signal handled, whenever it came; are references owned; is no handler called for nothing? | holds; a `catch()` that raises an error leaks its reference |
| `signal_blocked` | Are the signals blocked that the comment says are blocked while a Lua handler runs? | violated: finding |
| `tcp` | For `nfl.tcp` and `nfl.tls`: is the stream neither torn, repeated nor reordered, in both directions; are lines whole; does the socket wait for the right event; is whoever waits resumed? | holds, unless a timer breaks into a call, or the coroutine of `nfl.tcp` sleeps |
| `tcp_end` | Does `_refill()` of `nfl.tcp` return nil at the end? | violated: finding |
| `tcp_unread` | Does `read()` on a connection of `nfl.tls` give all that came before it gives the end? | violated: finding |
| `bindings` | Twelve parts, one for each kind of initial state. `OneOwner`: has each descriptor one object that closes it, does a callback of libtls find its own functions, is the name in the log alive? `NoLeak`: is everything that was taken given back - descriptors, names, memory, structures of libtls, references? `TrueAnswer`: is the program told what happened - by calls on files, of the end of children, of signals, of users and limits? `ReadsBack`: does an option read back as the kernel takes it, an address, a permission, a path, a flag as it was written? | holds, within the limits named below |
| `base64_abort` | Can `decode()` be given what `encode()` made? | violated: finding |

Properties are commented in the modules. Each has a mutant in `PROJECT.json`: a
plausible bug in the code under which TLC finds it violated.

### Findings

1. `loop_stale`: `remove()` clears `TOQUEUE[co]` whatever entry it refers to
   (`lua/nfl.lua` 110). After `timeout(t)`, `timeout(0)` and another `timeout(u)` the
   first entry is still in the heap; when it leaves, the second timer can no longer be
   cancelled and fires into a later operation.
2. `pollset_wanted`: `select`'s events are taken from the sets of what is wanted
   (`src/pollset.c` 1171), not from what `select()` found.
3. `signal_blocked`: the mask set at the end of the C handler (`src/signal.c` 793) is
   undone when the C handler returns, so that nothing is blocked during the Lua handler.
4. `tcp_end`: the handler gives the empty packet for the end (`lua/nfl/tcp.lua` 115),
   where `net.ios` asks for nil; `read("*a")` on a connection does not end.
5. `tcp_unread`: the handler of `nfl.tls` sets `_eof` when the socket ends
   (`lua/nfl/tls.lua` 174, 165), though `__input` or libtls may still hold bytes; the readers
   of `net.ios` look at `_eof` first, give what is left of `_readbuf` as the last data, and
   the rest is never read. The coroutine has to be elsewhere when the last packets come:
   in a write, asleep, or in the handshake.
6. `base64_abort`: `encode()` ends every full line with a line end, the last one too
   (`src/base64.c` 168-172). `decode()` then reads four symbols of padding from the end of
   the string and `assert(skip <= 2)` (265) ends the process. With the default length of 76
   any message of a multiple of 57 bytes does it. So does a text that somebody else has
   given a line end.

Others were met and have no run. Most are cases that the properties except (section "Limits
of what holds"); the rest is left out of the models:

- `catch()` takes a reference to the function before it looks at flags and sets (`src/signal.c`
  1151, 1156-1170); when it raises an error for one of these the reference is lost.
- what comes in while a coroutine of `nfl.tcp` sleeps (`timeout(t)`, then a yield) is given to that
  yield, which wakes it early, and not to `net.ios` (`lua/nfl/tcp.lua` 112-115).
- `_lock()` does not reset `errno`: a lock that was taken is reported with the error of the
  call before (`src/fsys.c` 1255).
- `_dup()` always raises an error, and the descriptor is lost.
- `basename()` and `dirname()` do not give the path again when it has no slash, as the
  comment has it (`src/fsys.c` 666-673).
- the permission "set group id" is named `getgid` in the table of a file's mode (`src/fsys.c` 94).
- `fsync()` calls `isatty()`.
- ANSI `ignore()` and `default()` look at their first argument on every turn (`src/signal.c` 337).
- where there is no `clock_nanosleep()`, `clock.sleep()` gives back a variable that nothing
  sets unless the sleep was interrupted (`src/clock.c` 250).
- a TLS option that is set from memory which was unloaded is cleared without a word.

And `poll`'s `insert()` does not set `revents` (`src/pollset.c`
991), and a file inserted by a handler is seen by the running iteration with whatever the
memory held. `Poll` has it (`Inside.poll`, `Junk`), and `ImplementsPollset` allows for it.

### Bounds, and why they suffice

- `sequential`: five entries give a heap of three levels with a missing child, which
  is what `bubble_up` and `bubble_down` distinguish; two coroutines, one of which may
  have several entries. The clock stops at `MaxClock`. Texts of four characters of every
  class with margins of one and two leave a full line, a break inside the next and a rest, so
  that every class meets a break that is remembered, one that is not, and the margin. Messages of six and seven
  bytes fill a line of eight digits exactly, and with a rest; texts of others have up to
  four symbols, which decide all that the strict mode decides. The registers are of 8 and
  16 bits, from the seed 1, and of 8 bits from a seed that does not fit.
- `loop`: two coroutines, of which one schedules the other and itself, so that the run queue need
  never become empty and the other has to get its turn all the same; a listening socket, two timer
  entries and nested timeouts. No symmetry, since it is not sound for liveness. A third
  coroutine adds none to the cases (one waits, one runs, one is scheduled or dead) that
  the safety properties tell apart, and these are proved for any number. `MaxLag` bounds the
  time a pass takes besides the wait, `Horizon` the clock; no timer is armed for later
  than `MaxClock`. `Horizon` is larger, so that the last timer can still become due.
- `pollset`: two or three files, so that there is one to remove between others. `poll`
  starts with an empty array and a limit smaller than its chunk (`Rlimit` < `Chunk`):
  growth, its cut to the limit and the refusal all happen. `select` has a descriptor
  beyond `SetSize`. A file is ready for nothing, for one event, or hung up; two handlers tell
  the object a file has from the one it had.
- `signal`: two signals that can be caught, one that cannot; `MaxLeaked` = 1 `catch()` may raise an error. `MaxSent` = 2: one
  signal brings the program into the backend, the other comes at any of its steps.
- `tcp`: one instance of `Tcp` reads three bytes `x LF LF`, a line and an empty one, as
  lines, as two bytes and as all, with packets cut anywhere; the other reads blocks and writes two in each mode through a socket that takes one at a
  time (`Window`), so that every send of two is partial. In both the coroutine may sleep between calls.
  The instance of `Tls` has a handshake
  of one piece in and one out; a record with CR LF comes in, which is read in
  two turns (`BufferSize`), so that the cut is inside the line end; then the good-bye, before the
  socket ends. Two bytes go out in records of one (`MaxRecord`), each
  in two pieces, so that libtls runs out of room inside a record and between records.
  `MaxGot` lets the peer take all of this.

- `bindings`: two descriptors are enough for a pair, for a pipe that fails in the middle, and for
  one that is in the way of another; two objects of a kind, so that one may hold a number
  that the other was given since. Options: the whole table, with 0 and 2, so that twice the room that is asked for is
  less than the kernel gives at least, and is not. Addresses:
  paths of the full length, empty, and with a common beginning; a port beyond the last; a protocol that has
  ports (132, SCTP) and one that has none; memory that is clear and that is not. Two names, so that a link leads to a file, to nothing, or to
  itself, and all there is behind links is behind one (`MaxLinks`; the kernel follows 40). Paths have up to four characters. `glob()` finds up to two
  names for two iterators. `exec()` has up to five variables with room for two at a time, so that the
  array is full at the NULL and at a variable. Two children, of which a call asks for one or
  all. Two users and two amounts, one of which does not fit its width when doubled. Two
  contexts share two addresses, so that one comes back. Signals in ANSI C: three, one of which
  `signal()` refuses; two come in. The parts have no state in common.

`CHECK_DEADLOCK FALSE` is used in `sequential` and `base64_abort`, where the clock stops at
its bound with an empty queue, wrapping comes to its end and so does decoding; in `bindings`, where a process may be gone; and in `signal`, where the program may
wait in `sigsuspend()` for a signal that nobody sends.

### Limits of what holds

- `TimersFire` is for programs whose run queue becomes empty time and again (`RunsOut`). A coroutine
  that schedules itself each time it runs keeps the loop in one pass: the others get their turn
  (`EveryoneRuns`), but nobody looks at the timers or the sockets any more.
- `RightEvent` and `Served` of `Tls` hold until a timer breaks in, too: a call that waited
  for room and then, tried again by a timer, wants bytes does not turn the socket back to
  reading. Its `NothingLost` and `AllWritten` hold regardless, since what is received is
  put aside before the coroutine is scheduled.
- `NothingLost` of `Tcp` says which bytes are lost, and that all others are kept, whatever timers do.
  Lost are those that come in while the coroutine sleeps, without any timer in a call
  (`overslept`): the handler gives them to the yield that sleeps. And once a timer has broken into
  a call (`broken`), those that come in while the coroutine is in a call that does not want them (`dropped`):
  `schedule()` drops the packet, since the timer of the same pass has scheduled the coroutine already, or
  a write left the socket waiting to be read from.
- `AllWritten`, `RightEvent` and `Served` of `Tcp` hold until a timer has
  broken into a call. After that a line end
  may be missed because `_rpos` is ahead; and a failed write may leave the socket waiting
  for room. No comment promises otherwise, but a user should know it. `InOrder` holds even
  then.
- `LinesFit` does not count a soft hyphen, which is visible at the end of a line.
  `NothingDropped` lets a hyphen be dropped where a line is broken: one that no longer fits
  its line is in neither (`src/strcore.c` 487-494), though the comment at 462 says "we include
  the character for this line, unlike for whitespace". With a margin of 0 the loop does not
  end; `WrapAssumption` excludes it.
- `RoundTrip` excepts texts that end with a line end (finding 6). The table that
  `strchr()` searches is not terminated (`src/base64.c` 207): a character that is found behind it
  is taken for a digit of 64 or more. `Stray` is such a character, and no line end.
- `Period` is for seeds that fit the register. One that does not, as most random ones do not,
  can become 0 in the first step and stay there (`src/lfsr.c` 54-56), whatever the comment at 25 says.
- `RefsOwned` of `Signal` excepts the references that a `catch()` which raised an error has leaked
  (`leaked`), and shows that no other way through the module leaks one.
- `NoneForgotten` and `Handled` of `Signal` except a handler that raises an error: the
  signals behind it wait for the next one. `Handled` also excepts a program that waits in
  `sigsuspend()`.
- `ImplementsPollset`: `poll` for a set that may give a file inserted during the iteration one event
  that no wait found (`StrayFinds`; see below the findings), `select` for callers that want one event at a time (finding 2); `kqueue` for files that
  can be watched for both events; files are removed between iterations. With no
  object given the event carries the descriptor's number, and not the file as the
  comment has it; the run leaves out calls without an object (`OmitObj`).
- `OneOwner` and `NoLeak` of descriptors except numbers that went through `fromfd`,
  `socketfile`, `close(fd)` or `redirect`, by which the program makes two owners itself
  (`shared`), and what `_dup()` loses (`lost`). `NoLeak` of `exec()` excepts `argv` when the environment is
  the old one (`src/process.c` 318) and a number that is a key of the environment (284).
  The iterator of `gexpand()` that is asked again after it was closed reads names that were freed.
- `TrueAnswer` of calls on files names those that answer falsely, and says that there are no others:
  `io.close()` of a file when what was left cannot be written, and `fsync()` on a terminal, say yes; `_lock()`
  with an old `errno`, and `_dup()`, say no when they did what was asked for; `_close()` gives an old `errno`
  with its success. Where there is no `setresuid()`, users may be changed by halves when the answer
  is no: `HalfDone` says what has changed then, which is the effective user and, for root only,
  the others. In ANSI C a signal that comes while the kernel has forgotten its handler ends the process.
- `ReadsBack` of options is about the kernel of Linux, which does not keep everything as it is
  given: the room of a buffer is doubled and kept within limits, `recvlow` is no 0 and no more than a tcp
  socket has room for, `linger` keeps its time when it is switched off, `debug` is for root. It says nothing
  of what the program cannot set: `error`, `type`, `recvqueue` and `sendqueue`, which are only read; `quickack`,
  which the search does not find, since the table is not sorted there (`src/net.c` 793); the timeouts, for which the
  kernel wants a structure and is given an int; `sendlow`, which it refuses; `maxsegment`, which the peer has
  a say in; `closeexec`, which can at most be switched off (`nonblock` of a pipe's end for reading
  likewise); and options the descriptor has not.
- A userdata of libtls that was closed is NULL, and every other method gives libtls that
  pointer (`StrayCtx`, `StrayConf`); the model stops there.

### Fairness

- `Nfl`: weak fairness of the loop's own steps, which are a running program. Strong
  fairness of the return from a wait whose time is up, since an interrupted wait
  (`WaitError`) may come first, though not always; and of time. Weak fairness of each
  coroutine's yield or end: scheduling is cooperative and one that never yields stops
  everything by design. No event and no caller of `done_f` is assumed to come.
- `Signal`: weak fairness of the C handlers, the backend and the calls; strong fairness
  of the end of a Lua handler, which is interrupted by handlers again and again.
- `Tcp`, `Tls`: weak fairness of the program, in which the steps of libtls are part. Nothing of the peer or the connection.

## 4. What is proved

`Sequential_proofs` proves of `TimeoutQueue`, for any sets of coroutines and entries, any
delays and any bound of the clock (`QueueAssumption`: delays are positive naturals, and
`NoInfo` and `Garbage` are not entries), so for heaps of any size:

- `Invariance`: `Spec => []IInv`;
- `TypeCorrect`, `HeapOrder`, `IndexCorrect`, `DuplicateFree`: the invariants of the run
  `sequential` that are about it;
- `Implementation`: `Spec => ImplementsBag`, the refinement that `Nfl` relies on.

The argument. `HeapOrdered` speaks of the queue between calls and is not inductive:
inside a call the order is broken at one place. `IInv` adds `Shape`, which says for each
loop where it can be broken: while bubbling up, only between `cur` and its parent, and
the children of `cur` are in order with that parent; while bubbling down, only between
`cur` and its children, and these with the parent of `cur`. Each turn of a loop swaps two entries and
moves the broken place one level; `SwapPlaces` and the lemmas after it say what a
swap does. `LiveEntries` says that entries in the array have content, without which
no comparison means anything, and `IndexInHeap` with `NoDuplicate` that removing an entry
leaves no reference to it. For the refinement, `RootEarliest` shows that the first
entry of a heap is due no later than any other: of the places that are due earlier take
the first; its parent comes before it and is due no later. This is the one induction
needed, and it is done by the least element of a set of naturals, without a
recursive definition.

Of `Wrap` it proves, for any texts and any margins but 0 (`WrapAssumption`), `EveryLineFits` (`LinesFit`),
`TextKept` (`NothingDropped`) and `LoopProgress` (`Progress`). `WrapIInv` says how far the work has come:
`LineSoFar`, that `cnt` is the number of glyphs from `front` to `i`, with no new-line character among them;
`MarkInLine`, that a marked place is between the two and leaves out at most a space; `LinesBefore` and
`LinesInOrder`, that the lines have only what is before `front`; `FewGone`, that each break has taken one
place at most; and `ResetsBreak`. A marked place is behind `front`, and there is a glyph between them when
none is marked, since the margin is not 0: hence every break moves `front` on (`BreakIInv`), and between
two breaks `i` goes on (`GoOnIInv`).

It proves of `Base64`, for any messages, texts of others and options, and whatever is in the
memory behind the table (`Base64Assumption`: messages are sequences of bytes, texts of symbols, and
lengths of lines are natural numbers), `DecodesBack` (`RoundTrip`) and `StrictRefuses`
(`StrictIsCanonical`). Both compare what two functions do, so the invariant
`Base64IInv` compares them symbol by symbol (`SymbolOf`, `DigitOf`: what stands at a place of a message's text):

- `EncodedSoFar`: the symbols of the text, which its line ends are not, are the first ones of what
  the message is encoded to (`Spells`), as many as `encode()` has come by.
- `DecodedPart`: of its own text, `decode()` has the first bytes of the message, and in `quad` the next
  digits; `skip` counts what was not a digit, and that comes behind the last digit. When that
  group is decoded, `DecodedAll`: everything is read. This fails where a line end is last, because then
  `Ib64_readout()` does not move, which is what `RoundTrip` excepts.
- `StrictPart`: of a padded text of others, what was decoded is encoded to what was read of it, and so is
  the group in `quad` once the strict mode has let it pass (`StrictDecode`); `StrictAll` at its end.

`BytesBack` and `DigitsBack` say that four digits hold three bytes and that three bytes hold four digits;
`StrictQuad` says which digits are left when a group is padded, `CountsBack` how many symbols there are of a
length. `Found` is the first place that is not passed over (`FoundPlace`).

`PartsTyped` puts the parts together: `TypesOK` for `wrapt()`, `base64` and the register of `Lfsr` with any
seeds (`LfsrAssumption`).

`Loop_proofs` proves of `Nfl`, for any set of coroutines, of timer entries and of sockets, any
clock and any `MaxLag` (`NflAssumption`, with that of `TimerBag`), the safety properties
the run `loop` checks: `TypeCorrect`, `RunQueue` (`RunQueueSound`), `Counted`
(`RefCount`), `Sleep` (`SleepSafe`) and `Delivery` (`TimerDelivered`), and `Complete`:
the assertion before the count is decremented holds (`NoFailure`), and `client_eventloop()`
leaves no coroutine behind (`NoneLeft`).

The inductive invariant has one part for each part of the loop's state:

- `Timers`: an entry that is pending has content, and `index` refers to pending entries
  of the right coroutine. Without it a timer that leaves might schedule anything.
- `Queues`: `RunQueueSound`, with the variables' types. An operation
  changes the array and the hash in different places, and `schedule()` decides by the
  hash alone what it does to the array.
- `References`: `RefCount`, and that the set counted is finite, without which a count that
  goes up or down by one says nothing.
- `Times` is what `SleepSafe` rests on. A pass reads the clock once (`now`), and
  the wait is computed from it: the clock is at most `MaxLag` ahead of `now` from
  then until the wait begins, and the timeout computed reaches no further than the first
  armed timer.
- `Places`: the types of what is left.

`Bindings_proofs` proves of `Signal`, for any number of signals, any sets the program
uses and any way signals come in (`SignalAssumption`: there are more references than
signals that can be caught and references that may be leaked, as `luaL_ref()` never runs out), `TypeCorrect`,
`NotForgotten` (`NoneForgotten`), `Owned` (`RefsOwned`) and `CalledForCause`
(`NoSpuriousCall`): the invariants of the run `signal`.

The argument. `NoneForgotten` is about the interrupted program and says nothing while C
handlers run, so it is not inductive. The invariant says of each C handler on the
stack that it has set the hook if it is past its first step (`Frames`): the backend
clears the hook, but cannot run before all of them have returned. Then `m_signal`, set
in the second step, implies that the hook is set or that the backend is about to look at
`m_signal` again (`Notes`); and a noted signal with a handler has `m_signal` set, or is
ahead of the scan, which starts after `m_signal` was cleared. This is why the order of
lines 745-747 of `src/signal.c` matters. `RefsOwned` needs to know what a `catch()` that
is between its two steps holds (`Table`): the old reference belongs to no entry,
and for a signal that cannot be caught there is none to lose. What is left of the references
when those are taken away that a `catch()` leaked is then one for each entry, so that there is always one
to be had (`RefLeft`). `NoSpuriousCall` needs the
exception `Told`: between the two steps of `caught()` a signal is still noted that the
program has been told of.

All inductive invariants were checked with TLC on the instances of the runs before they were proved.

It proves of `Descriptors`, for any descriptors (`KernelAssumption`: finitely many natural numbers) and any
number of sockets, files and directories, `Ownership` (`OneOwner`) and `Leakless` (`NoLeak`). The
invariant is both together with the types: a call that makes an object relies on the number
the kernel gives out being nobody's (`LowestIn`: it is one that is not open), which is that
what is held is open; and a call that closes one relies on nobody else holding it.

It proves of `TlsObjects`, for any contexts, configurations and addresses
(`TlsObjectsAssumption`: an address is not NULL), `CallbackFound` (`RightCallback`) and
`StructOwned` (`StructsOwned`). Neither is inductive without the other: that an entry of the registry leads to
the functions which libtls has needs that its address belongs to one userdata
(`TlsOwners`), also after it was freed and given out again; that a context with callbacks
is not collected needs the entry. That the count of a configuration is right
(`ConfsCounted`) is a matter of sets that change in one element (`TlsCountOne`): who configures,
frees or resets a connection leaves one set of users and joins another, and a
struct that is free is in none (`TlsConfs`).

Of `Children` it proves `TheEnd` (`EndTold`) for any children (`ChildrenAssumption`: nil is
no news). The invariant adds that the kernel's news of a child that ended is its end and that of
one that runs is not (`ChildKnown`); `ChildStatusTold` and `ChildInfoTold` say that both ways of decoding agree.

Of `Exec` it proves `RoomForAll` (`EnvpFits`) and `GivenBack` (`ExecClean`) for environments of any size and
any step of growth (`ExecAssumption`). `ExecAtWork` says what is allocated at each place of
`exec()`: as many strings as entries, and room for all of them.

Of `Bindings` it proves, for any sizes of everything (`Assumptions`, which are those of the parts), what
the run `bindings` checks: `AllTyped` (`TypesOK`), `AllOwned` (`OneOwner`), `AllLeakless`
(`NoLeak`), `AllTrue` (`TrueAnswer`) and `AllReadsBack` (`ReadsBack`). `AllIInv` says that the part there is keeps its own
invariant (`AllInvariance`); besides those above these are:

- `AnsiIInv`, of the signals in ANSI C. `NotForgotten` is about the program between its handlers, as
  `NoneForgotten` of `Signal`, so the invariant again follows the C handlers on the stack (`AnsiFrames`)
  and the backend's scan (`AnsiAhead`, `AnsiNotes`); `AnsiKernel` adds that the kernel does what
  the program asked for last, unless it has forgotten a C handler that is still on the stack:
  `StaysCaught` follows when the stack is empty.
- `FdAnswers`: what a call on a file said is what happened, and it is otherwise only for the calls
  that `TrueAnswer` names, each in the direction it names; and a directory that is closed is at its end (`FdPlaces`).
- `GlobIInv`: `NamesFreed`, and that an iterator has not gone past its names.
- `LimIInv`: what the kernel has fits what was asked for, and a user is not changed but by a call that said so,
  or by halves (`HalfDone`); it needs that a soft limit is not above
  the hard one, and that a process may run only on processors there are.
- `SlogIInv`: the string in the registry is the one the C library points to, and the flag for
  systems without `LOG_PERROR` with the options is what `open()` was given.
- `SoptIInv`, `AddrTypes`, `TreeIInv` and `PathTypes`: the types. A row of the table of options has
  a type that goes with its name (`SoptAllSound`); a path in an address is as long as memory for it is;
  an inode is free when it has no name, which `rmdir()` keeps since a directory has one name only
  (`TreeOnce`); the last slash of a path is in it (`PathFound`).

`ReadsBack` is not inductive in any of its parts, and most of it is about what an operator computes.
`ReadsBack_proofs` adds, for each part, what the state has besides its types:

- `SoptHeld`: an option that was set, and that the program can set, has what the kernel makes of `wanted`
  (`ReadsAs`; `SoptHeededReads`). That the search comes to the row
  of a name is shown for the table as it is, row by row and comparison by comparison (`SoptHalved`,
  `SoptFound`): for all names but the one that is out of place.
- `AddrAsAskedEver`: what was made of host, port and path is what they are made of, with whatever was in the
  memory before. `Ordered` is about the order of addresses byte by byte: two that differ have a
  first byte where they do (by the least counterexample, `LowestOf`), and with it the three comparisons
  agree, and an address shown the same is the same (`AddrShown`).
- `TreeRead`: modes are what was meant. The text of a mode is taken apart again letter by letter
  (`TreeReadsBack`), and `Behind`, the recursion that follows links, is a function for as many links as
  the kernel follows (`MaxLinks`, proved by the same method: `TreeFollowed`, `TreeBehind`). What it finds is no
  link, and with more links it finds the same (`TreeAllSteady`).
- `PathShorter`: a part of a path is no longer than the path, or it is `.`. That `_safename()` makes
  different names of different names is proved by the first place where two names differ: what is made
  of the characters before it is the same, and of what follows the next characters tell which it was
  (`PathNextTold`, `PathSafelyOne`).

`Loop_proofs` proves of each implementation in `src/pollset.c`, for any number of files,
objects and events, that it keeps its parts together and that it implements `Pollset`, each call
one step of the set that the comment promises:

| | parts agree | implements `Pollset` | further conditions |
|---|---|---|---|
| `Epoll` | `EpollAgrees` | `EpollImplements` | none: a second insertion is refused by the kernel |
| `Poll` | `PollAgrees` | `PollImplements` | no file is inserted twice; a file that a handler inserts may have one event nobody found |
| `Select` | `SelectAgrees` | `SelectImplements` | no file is inserted twice; one event is wanted at a time (`OneWanted`) |
| `Kqueue` | `KqueueAgrees` | `KqueueImplements` | no file is inserted twice; files can be watched for both events (`NoWrite`) |

The refinements assume that a caller gives an object (`~ OmitObj`), and those of `Select` and `Kqueue`
that a file that is hung up can be read and written (`HungUpIsReady`), since neither reports
the hangup by itself. These conditions are the divergences of section "Limits of what holds";
`MCPollset` has constants that satisfy them. `NULL` is assumed to be no sequence of events.
`EpollListValid` proves that the iterator stays in what `epoll_wait()` filled.

Of `Pollsets` it proves what the run `pollset` checks: `PollsetTypes` (`AnyTyped`), `PollsetAgrees` (`Agree`),
`PollsetListValid` (`ListValid`) and `PollsetImplements` (`ImplementsPollset`: the initial state of the
implementation there is, and each of its steps, is one of the promised set). A program can be built
with any of the four if it keeps to `PollsetsAssumption` and `CallersAssumption`, which are the
conditions of the table.

The arguments. `EpollInv` and `KqueueInv` say that an array exists only while it is iterated, or
holds nothing more to hand out, and that its entries are distinct and of files in the set. So an
event handed out leaves the set of those to come, and the object is found; removal
happens between iterations, when there is no array. In `Poll` an entry is found by the first
place that has its descriptor (`Slot`). `PollSlots` shows that, while `Agree` holds, it is the only one,
and `PollMoves` what `memmove()` leaves: each other entry once, so that every lookup after it still
finds its own. A file that a handler inserts is the last entry, which the iterator has still to come to: what it finds
there is the one event more (`PollStrays`). In `Select` the events are what is wanted at the time they are handed out, and
`SelectLeft` is why that is still what was found: a handler can change what is wanted only of a file that
the iterator has passed, or of one that it will not report.

`Connection_proofs` and `Tcp_proofs` prove of `Tcp`, for streams, buffers, packets and sockets of any size and
any formats (`TcpAssumption`: there is a format, and the two values `Nil` and nil of a resumption are
neither packets nor sequences), the safety properties of the run `tcp`: `TypesStay`,
`NoneLost` (`NothingLost`), `KeepsOrder` (`InOrder`), `EachSentOnce` (`AllWritten`), `WaitsForTheRight`
(`RightEvent`) and `LinesAreWhole` (`LineWhole`).

The invariant `IInv` has a part for each thing that the handler, the loop and the coroutine
know of each other:

- `Control`: where the coroutine is, where the loop is and what `RUNQUEUE` has for the coroutine fit
  together: a handler runs with an entry already there only if a timer has made it.
- `Connecting` and `Ending`: a connection that is not up has carried nothing; `_eof` is set
  once all has been received, or the connection has failed.
- `Waiting`: what `RightEvent` says, for each step of a pass and not only between them.
- `Kept`: what came in is in the order of the stream, whatever dropped out of it. `InOrder` follows.
- `NothingLost`, which is inductive with `Control`: a packet is lost where the coroutine is
  neither about to be told of it nor already in `_refill()`, and `Control` knows when that can be.
- `Sending`: what `_drain()` has left is the end of the unit at the front of the buffer, and
  `send()` is called with room, or fails before it has sent anything of the unit. `AllWritten` needs it.
- `Lines`: no line end is before `_rpos`, which is kept for the next `read()` only when the
  connection has failed. `LineWhole` needs it: `read("*l")` starts to look there.

`Tls_proofs` proves the same six theorems of `Tls`, for streams, records, sockets and handshakes of any size
(`TlsAssumption`: the pieces of the handshake carry no bytes of the stream, and a record is not empty).
Two buffers more lie between the socket and the program, and a call of libtls is many steps, so its
invariant has other parts beside `Control`, `Connecting`, `Lines` and the two properties
`NothingLost` and `AllWritten`, which are inductive together:

- `Ending`: `readbuf` is there until the end has been met, and in a call that decrypts.
- `Waiting`: the socket waits for bytes whenever the program runs, or libtls wants them; while libtls wants
  room it waits for room, until the loop has told the coroutine that there is some. `RightEvent` follows.
- `Greeting`: nothing of the stream moves before the handshake is done, and as much of it has been
  read as there were pieces to read (`Ins`). `NothingLost` rests on it, since what the handshake takes
  out of the socket is not the program's.
- `Sending`: a record that is half sent is the one that was sealed from the front of what is left to write, so a
  call that is tried again goes on with it and does not seal it again.

`Transports_proofs` puts the two together: `TransportTypes`, `TransportKeeps`, `TransportOrders`,
`TransportSends`, `TransportWaits` and `TransportLines` are the properties of the run `tcp` for
connections of both modules with any constants (`Assumptions`). Its invariant is that of the connection there
is; `Transports` instantiates `Tcp_proofs` and `Tls_proofs` and not `Tcp` and `Tls`, so that their theorems
are about the same operators.

`Connection_proofs` has what both need of sequences (`Take`, `Drop`, `Increasing`, `Numbers`), of
streams in pieces (`FlattenSeq` of the community modules: `PieceTaken`), of one look at the buffer (`Try`) and
of the steps that `Tcp` and `Tls` share.

Only model-checked: the liveness properties (`TimersFire`, `ClientReturns`,
`EveryoneRuns`, `Handled`, `Served`), which are out of the prover's reach under
fairness; and of `sequential` the `Period` of the register, which is not argued but found by going through
all its values, for the two widths TLC takes.

## 5. Plan

Order of the work; what is done is marked.

1. `TimerBag`, `TimeoutQueue`, theorems - done.
2. `Nfl` over `TimerBag`, safety and liveness - done.
3. `Pollset` and its implementations - done.
4. `Signal` (POSIX) - done.
5. `Ios`, `Tcp` - done for one format at a time; then `*n`, `*h`, `*L` and several formats.
6. Theorems about `Nfl` (`Loop_proofs`) - done.
7. Theorems about `Signal` - done.
8. Theorems about the pollset: `Agree`, and the refinement of `Pollset` - done for all four, and for `Pollsets`.
9. `Connection`, `Tls` - done for connections whose handshake is done once. Then an abstract
   stream that `Tcp` and `Tls` both implement, and the blocking `net.tcp` and `net.tls` as
   users of `Ios`.
10. The ANSI half of `signal.c` - done (`SignalAnsi`). Then an abstract latch (a signal is noted
    or it is not) that both halves implement.
11. The bindings: `net.c`, `fsys.c`, `process.c`, the objects of `tls.c`, `syslog.c` - done, with theorems
    about all of them in `Bindings_proofs`. Then `ptscore.c`, and `getopt`.
12. Algorithms in the run `sequential`: `wrapt()`, `base64`, `lfsr` - done. Then `crc` bit
    by bit, `safeascii()` and `safeutf8()`.
13. `Nfl` with `Signal`: a Lua handler that calls `schedule()` at any instruction.
14. `Tcp_proofs`, `Tls_proofs`, and both in `Transports_proofs` - done.

Runs stay few: a component that is small joins others in one instance chosen by the
initial state, as in `MCSequential`.

## 6. Not modelled

- Modules that make one system or library call for each operation (`clock`,
  `sys`, `env`, `magic`, `iconv`, `idn`, `hash`, `tcc`, `ptscore`), constants and tables, build tools, `other/` (older pollsets, superseded), file
  formats without state (`zip`, `gzip`), and small helpers in Lua.
- Of the modelled parts: the `p` and error events of the pollset; the information about
  a signal and its text; arguments of the wrong type; memory that runs out, save where
  the code tests for it in `pollset`; undefined behaviour at descriptor `FD_SETSIZE`;
  a collector that closes a stream; `listen()` and `connect()` of `nfl.tcp` and `nfl.tls`
  beyond their asynchronous cores; of libtls, certificates, renegotiation and what it keeps
  for itself: whether a call reads or sends next, and how much, is all that `Tls` knows of it.
- Of the bindings: what a configuration of libtls says (certificates, protocols), renegotiation;
  the interfaces of the system; `utime()`, `access()`, `pathconf()`, mount points and devices;
  `sleep()`, `times()`, priorities and schedulers; the bytes that `recv()` and `send()` carry,
  which are those of `Tcp`; what a child does.
- Time below the granularity of the clock: `wait()` cuts to milliseconds, and the
  loop then spins for less than one. No state is wrong in between.

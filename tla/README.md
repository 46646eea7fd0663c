# telnetServ in TLA+

telnetServ is a small C++ library: a program that links it can be watched and
driven over telnet. It prints messages to the telnet client (`telPrintf`) and runs
callbacks the program registered (`regCommand`) when the user types their name.
This directory holds TLA+ models of it, the TLC configurations that check them on
small instances, and proofs, checked by TLAPS, that the main properties hold for
every instance. All paths are relative to the repository; line numbers of
`src/telnetServ/telnetServ.cc` are written `:123`.

`PROJECT.json` lists the components, the runs, the definitions with the source
lines they stand for, the hazards, the findings and the theorems.

## 1. The system

| component | state | operations | talks to |
|---|---|---|---|
| log message queue | `currentBuffer_`, `nextBuffer_`, `buffers_`, under `mutex_` with `cond_`; the log thread's `newBuffer1`, `newBuffer2`, `buffersToWrite` | `appendToMsgBuf` (any thread), `LogOutPutFun` (log thread) | printing threads put in, the log thread takes out and sends |
| formatting | stack arrays of `MAX_LOG_MSG_LEN`, per-thread time cache `t_time`, `t_lastSecond` | `telPrintf`, `telPrintfNoTime`, `pushMsgToTerminalImmidate`, `formatTime` | the queue, or the client directly; `TimeZone` |
| sending | `sockClient_` (copied), total and tries on the stack | `sendMsgToTerminal`, `SockSend` | the socket; called by the log thread and by the daemon thread |
| telnet daemon | `sockServ_`, `sockClient_`, `portListen_`, the epoll set, the batch of events | `TelnetDaemonFun`, `createTcpListenSock` | the kernel, the client, the command line |
| command line | `command[2048]`, `cmdLen` (an `unsigned char`) | keys, `isNullStr`, `CmdParse` | the interpreter |
| interpreter | `cmdFunTable_`, `atRawPara[10]`, `para[10]` | `RunCmd`, `FindCommand`, `WordParse`, `telhelp`, `regCommand` | the program's callbacks |
| life cycle | `isRunning_`, the two `Thread` objects | constructor, `init`, `destory`, destructor | starts and joins both threads |
| monitors | pthread mutex, `holder_`, who waits | `MutexLock`, `MutexLockGuard`, `Condition` | every component with threads |
| thread pool, latch | `queue_`, `running_`, `threads_`; `count_` | `start`, `run`, `take`, `stop`; `wait`, `countDown` | the program's tasks |
| asynchronous logging | the same double buffer as the queue's; `LogFile` with the open file, its size, day and last flush; the log directory | `append`, `threadFunc`, `start`, `stop`; `rollFile`, `createDir`, `deleteExpiredFile` | callers of the logger put in, the logging thread writes files |
| time | zone data, Julian days, per-thread text of the last second | `TimeZone`, `Date`, `Logger::setTimeZone`, `Logger::Impl::formatTime` | the zone file, the clock |
| rest of `muduo/base` | | blocking queues, `LogStream`, `StringPiece`, `ProcessInfo`, `Exception`, `Atomic`, `Singleton` | |
| demo | | `main.cc` | registers two callbacks, `init`, waits for input |

How they interact. The application's threads call `telPrintf`; `init` starts a
daemon thread and a log thread; `destory` stops and joins them. All of them share
the members of one `TelnetServer`. Only the buffers are protected by `mutex_`:
`isRunning_`, `sockClient_` and `cmdFunTable_` are read and written without a lock.
The daemon thread alone sets `sockClient_` while the service runs; the printing
threads and the log thread look at it to find out whether there is a client. The
library logs its own doings through `muduo/base`: `AsyncLogging` is the model from
which the telnet queue was taken, and differs from it in the latch that orders start
and thread, in what it does with too many buffers, and in where the batch goes.

What is hard:

* **Hand-over of buffers.** Both double buffers work on a batch outside the mutex while
  appends roll over any number of times, use up the spare and allocate. After its
  batch the thread must have two empty spares again, nobody may share a buffer, and no
  message may be written twice or out of order.
* **The overrun rules** (`:678`, `AsyncLogging.cc:88`) delete buffers in the middle of
  all this, and leave as many as the spares that can be missing.
* **Waking up.** `destory` notifies without the mutex, so the signal may be lost; a
  message in a buffer that is not full notifies nobody. In the pool a wake-up may be
  stolen, and one condition serves several waiters.
* **Partial and failing sends.** A `-1` is added to the running total, which is then
  compared as an unsigned number.
* **Descriptor numbers.** A batch of epoll events carries numbers. The code closes
  and accepts sockets while it works through the batch, the log thread sends to a copy
  of a number, and the kernel gives closed numbers out again.
* **State that outlives its owner**: `cmdLen`, the unread buffers, the sockets that
  `destory` forgets, the text of a stamp after the zone was changed.
* **Small integers**: `cmdLen` and the index in `RunCmd` are `unsigned char`s; days
  before 1970 are negative, and the division of C truncates.
* **In-place parsing.** `RunCmd` overwrites the line it scans and reads what it has
  overwritten to find out where words begin.
* **Files and the clock.** A roll needs a new name, which is a local time; the clock may
  step back, and so does local time; directories may be refused and writes come out short.

What makes each component correct: the queue loses no message but by its stated
rules and keeps the order; a send writes the message from its beginning without a
gap and comes to an end; the daemon always has exactly the listening socket and the
client registered, leaks nothing, never blocks in `recv` and always comes back to
look at `isRunning_`; the line that is run is the line that was typed, by this client,
cut into the words the user sees; a command is not taken away while it runs; replies go to the client that asked; `destory`
returns and leaves nothing running; the log files hold the messages in order; a
stamp is the local time of its second; no caller of the pool waits for ever.

The hazards of the code, each at its line and with the properties that watch it, are
listed in `PROJECT.json` under `hazards`.

## 2. The modules

| module | models | 
|---|---|
| `LossyLog` | what the queue promises: numbered messages leave oldest first, each delivered or given up, once |
| `MsgBuffer` | the log message queue, with `init` and `destory` as far as the log thread is concerned; implements `LossyLog` |
| `SockSend` | one call of `sendMsgToTerminal` |
| `TelnetDaemon` | the daemon thread, the sockets and the peers |
| `CommandLine` | `command` and `cmdLen` under the keys |
| `RunCmd` | one call of `RunCmd`: scan, parameters, look-up |
| `TelnetSystem` | all threads of the service over one descriptor table and one life cycle |
| `Monitor` | `MutexLock` and `Condition`, as operators that a module with threads is built from |
| `ThreadPool` | the thread pool over `Monitor` |
| `LogFile` | the log files of a process, as operators that their owner is built from |
| `AsyncLogging` | the logger's double buffer and thread over `LogFile` |
| `Calendar` | Julian days, `toUtcTime`, `fromUtcTime` |
| `TimeZone` | zone files and both conversions, as operators |
| `LogStamp` | the stamps of messages over `TimeZone` |
| `MessageProofs` | theorems about `SockSend`, `Calendar` and `LogStamp`, what one thread does with one message |
| other `...Proofs` | theorems about `MsgBuffer`, `TelnetDaemon`, `CommandLine`, `RunCmd`, `TelnetSystem`, `ThreadPool` and `AsyncLogging` |
| `MC...` | instances for TLC |

### MsgBuffer

A buffer is a heap cell with its contents (`data`) and `length`; `live` is the set of
allocated cells, so leaks, double ownership and use after delete can be expressed.
A message is its number in the order in which `appendToMsgBuf` took the mutex.

One action per critical section or per read of unprotected state:
`TelPrintf` (client check and formatting), `AppendCheck` (the second client check,
without the lock), `AppendFits` and `AppendRolls` (the critical section of
`appendToMsgBuf`); `LogStart`, `LogLoop`, `LogWait`, `LogTimeout`, `LogSwap`,
`LogTrim`, one turn of the write loop (`LogSkip`, or `LogSendBegin` followed by
`LogSendDone` or `LogSendFails`), `LogRecycle`, `LogExit`; `Start`, `Stop`,
`StopNotify`, `StopJoin` for `init` and `destory`. The wait on `cond_` splits the log
thread's critical section: `LogWait` gives the mutex back, `woken` is the point after
it. A notify that finds nobody waiting is lost (`Signal`). The assertion at the head
of `LogOutPutFun` is a branch (`LogStartAborts`); those inside the loop are the
invariant `LoopAssertions`. A send is two steps because the client may go between
the look at `sockClient_` and its end. What the daemon thread does to `sockClient_`
is `ClientComes` and `ClientGoes`. `TelPrintf` takes it that the caller's text fits the
array: `telPrintfNoTime` and `pushMsgToTerminalImmidate` write it with `vsprintf` (`:834`,
`:862`) and look at its length afterwards.

`runs`, `accepted` and the number of cells are bounded by `MaxRuns`, `MaxMsgs` and
`Buffer`; the limit of 25 pending buffers is `MaxPending`, the 4 MB of a buffer
`BufSize`.

### SockSend

One call: the two looks at `sockClient_`, the `while` loop over the total, the `for`
loop of three tries, and `nTotalSendLen += ret`, where `ret` is -1 after the third
failure. The comparison of the `int` total with the `uint32_t` length is
`AsUnsigned(n) < DwLen`, modulo `Word`. A byte is its position in the message and
`wire` is what has gone out, so that a repeated or missing byte shows. A failed call
on a connection that works (`EINTR`, a full buffer with a timeout) is bounded by
`MaxFails`; on a dead connection every call fails. `row`, the number of failures since
the last success, stops counting one above the bound that `RowBounded` claims.

### TelnetDaemon

`open` is the descriptor table, with the epoll instance in it, `ep` the epoll set (a socket and the number in its
`data.fd`), `queue` the completed connections of each listening port. `accept` gives
out the lowest free number, and a close takes the socket out of `ep`. `EpollWait`
reports the ready sockets in any order, with the flags they have; then each event
takes the branch (`Branch`) that the loop body would take, with `sockServ_` and
`sockClient_` as they are when its turn comes, while peers go on typing, leaving and
connecting. One action per branch: `PeerClosed`, `Accept`, `AcceptFails`, `RecvKey`,
`RecvHang`, `RecvBye`, `RecvEnd`, `SystemError`. `Accept` is the whole handler: accept, close of
the old client, new `sockClient_`, registration. `recv` blocks: the receive actions are
enabled only with input or an end of the connection, so a call without either shows as
a stuck thread (and violates `RecvNeverBlocks` before). `Listen` chooses the port as
`TelnetDaemonFun` does, given the set of ports other processes hold; `ListenFails` is
the exit when no port is left. What is echoed to the client is left out, and of the
keys two are told apart: the one that completes `bye`, and the return key after a line
that the parser never finishes, on which the thread stays (`RecvHang`, `Spin`): a line
with a leading blank (`:99`) or one of 255 characters (`:398`).

`Join` forgets the sockets as `destory` does, and the thread its epoll instance (`:125`),
without closing them; `left` remembers which ones, and `NoLeak` is about the descriptors
of the present run. What earlier runs left can use up the table: then `accept`, which
needs a descriptor before the old client is closed, takes nobody (`UsedUp`).

An event carries, beside its number and flags, the socket it was reported for. The code
does not see it; `DropsOnlyFor` needs it to say whose event it was that closed a client.

### CommandLine

`command`, `cmdLen` and the keys: letters and digits, other characters, blank, NUL,
backspace and return. A key that the code ignores changes nothing and has no action.
`Accept` is the part of the accept handler that concerns the line: `command` is zeroed,
`cmdLen` is not. `Return` is the whole handler with `CmdParse` and the reading of a C
string in `RunCmd`; `ReturnHangs` is `isNullStr` on a leading blank. Both record the line
(`line`), so that `CleanLineRuns` says of each clean line whether it ran or hung. `cmdLen` counts
modulo `Wrap` (256), so the branch for a full array of 2048 cells (`:304`) is never
reached and has no action; the cells from `Wrap` on are never used and are not modelled.

A NUL is a key because the code does not ignore it, and telnet clients that end their
lines with CR NUL put one at the head of the next line.

### RunCmd

The scan over `szCmd` with `count`, one action per branch of the `switch` that the
code takes (`Apostrophe`, `LiteralTooLong`, `Quote`, `Separator`, `Other`, `NewWord`,
`WordOverrun`), then `Unbalanced` or `Convert`, and the look-up (`RunBye`, `RunHelp`,
`FindCommand`, `NotFound`). Cells are overwritten with NUL as the code does it. `raw` is
`atRawPara`; the write behind its end is the state `corrupt`, from which nothing is
claimed. A parameter is abstracted to its kind and the cell it comes from: zero, the
address of the cell, such an address cut down to the `int` that `WordParse` returns
(`:549`, `:557`), a character, or a number. `atoi` takes zeros and one sign before the
digits (`NonZero`); the numbers are those of an `int`. The reference definition (`WordStarts`, `WordEnd`, `Inside`)
reads the untouched `input` by counting quotes and knows neither cells nor index.

### TelnetSystem

The composition. It keeps of each part what the others can see: of the daemon thread
the writes to `sockClient_` and the descriptor table, with a step between accept, close
and `setTelnetClient` each (`Accept`, `CloseOld`, `SetClient`; `CloseClient`,
`UnsetClient`); of the log thread the batch, the copy of the descriptor and the pieces
of a message (`LogSwap`, `LogSkip`, `LogCopy`, `LogSend`, `LogSent`); of the life cycle
`Start`, `Destory` and the two joins. Sends block when `Room` pieces wait for the peer:
a blocked send holds on to its file (`inside`), the next one looks the number up again.
The three tries of `SockSend` fail together (`Fails`), on a dead connection always and on
one that works up to `MaxFails` times, for want of buffers (`:799`); `failed` remembers
for which messages they did, since the bytes the total goes back over are sent again.
`said` counts the replies as `got` records the log. `Strangers` are sockets of the rest
of the program, which take freed numbers.

`RegCommand` and `RegReturns` are `regCommand`, before `init` as in `main.cc` or after it
as in `src/README.md`. A look-up (`FindCommand`) in between reads a map that is being
changed: it finds the name or not, never ends, or ends the process (`LookupRaces`). A line
the parser never finishes leaves the thread `hung` (`EndlessLine`), and the log thread's
assertion ends the process when `destory` came first (`LogAborts`).

### Monitor and ThreadPool

`Monitor` has the pthread mutex and `holder_` separately, because the assertions read
the latter; `wait` and `wake` unassign and assign it as `UnassignGuard` does. A signal
moves one waiter to "woken", from where it competes for the mutex; wake-ups may be
spurious. `ThreadPool` is built from these operators: a critical section is the step
that locks followed by the one that works and unlocks or waits. `start` chooses between
no threads (the caller of `run` runs the task) and the workers. A task that throws ends
the process (`TaskThrows`).

### LogFile and AsyncLogging

`LogFile` has the directory as a set of names (base name and local time, which is UTC and
the `ZoneOffset` of that second, any function of the time), what was ever
written to each own file (`disk`), and the stream's buffer (`stream`), which is lost
with the process and flushed by closing. `rollFile` is the whole function: directory,
expiry, and the new file if the second is later than that of the last roll. A short
write is a choice of how much the stream takes; the refusal of `mkdir` is chosen at
the start. `AsyncLogging` is one action per critical section and per step of
`threadFunc` (`Begin`, `Loop`, `Swap`, `Drop`, `Write`, `Recycle`, `Exit`), plus `Abort`
for the assertion of `AppendFile`. A pointer to a spare buffer is a sequence of that
buffer, or the empty one, so that a spare that was not reset shows in `AsyncAssertions`.
The clock is a process of its own that may step back.

### Calendar, TimeZone, LogStamp

`Calendar` has the code's integer formulas with the division of C (`Quot`, `Rem`); its
state is a clock and what `toUtcTime` makes of it, so that the reference is the
succession of days in the Gregorian calendar. `TimeZone` has the reading of a zone file
that may end early, `findLocaltime` with its binary search, and both conversions.
`LogStamp` has the two caches of stamp texts, of the telnet server and of the logger,
each per thread, and `setTimeZone`.

A zone file is `WellFormed` as tzfile(5) has it: there is a type, the transitions ascend
and name types of the file. What `findLocaltime` needs besides is that they ascend in
local time too (`lower_bound` over a vector that is not sorted has no meaning).
`RoundTrip` says what `fromLocalTime` promises: it takes the local time of a second back
to that second, in the hour that comes twice at the end of daylight saving time as well.
It excepts the seconds whose local time comes again in another way, since the code knows
of one hour and of `tm_isdst` only: a zone that moves its clocks back by half an hour, or
west for good, or to a winter time that is the one with `isDst`. One file of the run,
`East`, has such a second.

`StampCorrect` is about the seconds whose local time the file itself tells (`FileTells`):
from its first transition to its last, or any if it has one type only. Before the first
transition `findLocaltime` takes the first type, which its comment calls wrong (`:224`,
"should be first non dst time zone"), and after the last one the last type for good
(`:244`, "use TZ-env"). The run has files that begin and end in daylight saving time; of
their stamps outside of the transitions nothing is claimed.

## 3. The runs

Counts are distinct states.

| run | instance | states | what it shows |
|---|---|---|---|
| `queue` | 2 threads, lengths 1 and 2 in buffers of 3, overrun above 2 buffers, 3 messages, 2 starts, 6 cells | 85 000 | `OneOwner`, `NoLeakNoDangling`, `LoopAssertions`, `Accounted`, `DropsOldest`, and that the queue implements `LossyLog` |
| `queue_live` | 1 thread, 2 messages of which the second rolls over, no symmetry | 1 600 | `destory` returns; every message leaves the queue without another one |
| `queue_start_assert` | | | *violation*: `assert(isRunning_ == true)` (`:647`) fails when `destory` comes before the thread's first line |
| `send` | 4 bytes, up to 9 failures on a working connection, a client that goes and a connection that dies at any point | 16 000 | `InMessage`, `NothingSkipped`, `ExactUnlessGaveUp`, `RowBounded`, `DeadPeerReturns` |
| `daemon` | 2 connections, 2 ports, 6 descriptors, a restart, one key ahead, one failing accept, fair | 104 000 | `NoLeak`, `Registered`, `RecvNeverBlocks`, `DropsOnlyFor`, `QueuedIsAccepted`, `GoneIsNoticed` |
| `line` | one character of each kind, `Wrap` 3, lines of up to 4 characters | 1 434 000 | `RunsOwnKeys`, `CleanLineRuns` |
| `runcmd` | every line of up to 6 characters of a letter, a digit, a zero, a minus, a blank and both quotes; 2 parameters, `Wrap` 7 | 883 000 | `ParamsMatch`, `VerdictMatches`, `ScanEnds` |
| `system` | 2 clients, 2 descriptors, a message of 2 pieces, room for one, one failure on a connection that works; beyond that a second message, another socket or a command registered at any time, fair | 1 563 000 | `RepliesGoHome`, `MessagesWhole`, `CalledStays`, `QuietAfterStop`, `StopReturns` |
| `logging` | 4 messages in buffers that hold one, drop above 2 buffers, rolls above 2 messages and every day of 2 seconds, a clock of 4 seconds that steps back once, local time that goes on by one second and back by two, one short write, refusals at each component, fair | 995 000 | `AsyncAssertions`, `LoggedOnce`, `EveryMessageWritten` |
| `pool` | 2 callers, 2 workers or none, 3 tasks, unbounded queue or one place | 46 000 | `PoolAssertions`, `EachTaskOnce`, `RunReturns`, `TasksRunOrStopped` |
| `calendar` | 1900 to 2500, every day, two seconds a day | 439 000 | `CalendarTicks`, `UtcRoundTrip` |
| `stamps` | five zone files, each complete or cut anywhere; two threads, 14 minutes, two steps back, one `setTimeZone` | 2 594 000 | `StampCorrect`, `RoundTrip` |

Why the bounds are enough. `queue`: an append fits or rolls over, the spare is there or
not, and three messages fill three buffers, one more than `MaxPending`; two threads are
two appends on either side of every step of the log thread; the second start finds the
messages of the first. The theorems of section 5 remove these bounds. `send`: with 4
bytes, 9 failures while the connection works are one round more than the loop needs to
go from the last byte below zero; again the theorems hold for every length. `daemon`:
two connections are the client and the one that takes its place; the batch then holds a
stale event, and a free descriptor below the newcomer's shows a number that is given out
again. A run leaves three descriptors open, so that the second one uses up the six and a
take-over fails for want of one. More connections
are the theorems' matter. `line`: `Wrap` 3 and 4 characters wrap once and go on.
`runcmd`: three words are one more than the array has cells, a literal of two characters
needs four, six is the length at which `cmdLen` is the number of values of the index,
and the alphabet has every case of the `switch`. `system`: two descriptors are the
fewest for a take-over, which needs both; then the old number is free for the
other socket while the log thread still has it, and after that socket is closed for
nobody; two pieces let a message be torn, and one failure on a connection that works
lets a piece be sent again. No property needs the second message, the other socket and
the command in one behaviour, and the constraint `OneExtra` of the run lets each have one
of them; it cuts off only what the rest of the program may leave undone, nothing that
fairness asks for. With a third message a
connection that gets the end of the first by its number can miss the second, skipped
before `setTelnetClient`, and get the third; `MessagesWhole` allows this, and its theorem
has no bound.
`logging`: four messages are enough to use up
both spares and be one buffer above the limit; four seconds cross a day in UTC and, at
another time, one in local time, and have the hour (of a second) in which a file gets a
name below the last one's, and the name of a file that is there. `pool`: with two callers and one place, one of them
waits, and the other can steal the place it was told of; two workers make `stop`'s
signal insufficient if it wakes one. For the safety properties of every
run the bounds are removed by section 5; for the liveness properties they stay. `calendar` has every kind of century and 1970.
`stamps`: the files begin in standard or in daylight saving time, change the type
without the offset, end in either, or turn back without daylight saving time.

Deadlock is checked where the system can go on or says that it has ended (after the last
start, a call that has returned, a daemon thread that hangs: such a specification has a
step that stutters). It is not checked in `logging`, `pool`, `calendar` and `stamps`: a
stopped or aborted logger, a stopped pool with callers blocked in `run`, and a bounded
clock have nothing to do.

### What does not hold

One claim of the code fails: `assert(isRunning_ == true)` at the head of the log thread
(`:647`) ends the process when `destory` comes before the thread's first line.
`AsyncLogging` has the same assertion, and its latch keeps it (`AsyncAssertions`).

The other peculiarities below are modelled as the code has them; no document claims
otherwise, or only the wording of a comment or a message does.

* A client that takes the place of one who has typed half a line inherits `cmdLen`
  (`:209` zeroes `command` only). Its own line then begins behind NULs, `isNullStr`
  calls it empty, and it is not run. `RunsOwnKeys` shows what does *not* happen: no
  character of the earlier client is ever run.
* `isNullStr` does not move its pointer (`:99`), so a blank in front is an endless loop.
* `cmdLen` is an `unsigned char`; the comparison with 2048 (`:300`) is always true, and
  a line longer than 255 characters loses its beginning. The index of `RunCmd` (`:388`)
  has the same width: a line of 255 characters is scanned for ever, or until the words
  found again overrun `atRawPara`.
* `WordParse` returns an `int` (`:549`), so of the address of a word in letters the
  parameter has the lower half with its sign spread over the upper
  (`:557`, `:482`; the compiler's warning is noted at `:472`). Only the address
  of a word in quotes is whole, and `ParamsMatch` tells the two apart.
* A separator or quote at the end of a line is followed by an empty word, the NUL
  (`:437`); it counts as a parameter. The eleventh word is written behind the array
  (`:450`).
* `SockSend` after three failures adds -1 and goes on, so it tries more often than the
  comment's three times (`:799`). The total walks backwards, and the bytes it passes are
  sent again if the connection recovers. It cannot walk out of the message because -1
  compares as the largest unsigned number and ends the loop.
* The overrun rule keeps the last two buffers (`:681`), while its warning (`:680`) says
  that tail messages are dropped. Its own assertions need two (`LoopAssertions` fails if
  one is kept), and the order of messages is not affected.
* When a newcomer and a key of the present client are reported in one batch, newcomer
  first, the key's event no longer matches `sockClient_` and falls through to the last
  branch (`:318`), which closes the newcomer. The last case of `DropsOnlyFor` is this one.
* The log thread's copy of `sockClient_` (`:734`) may by the time of the send be the
  number of another socket of the program, which then gets the rest of the message.
  `MessagesWhole` shows that what a connection gets of the log still has no hole inside a
  message; where sends succeed nothing is repeated and only its first and its last message
  can be cut. A message whose three tries failed on the connection can come in part twice
  or break off for the next one. `RepliesGoHome` shows that the daemon thread's own replies
  are not exposed to this.
  A reply may stand in the middle of a log message: both threads send to one socket.
* `destory` clears the command table (`:602`): a program that calls `init` again has to
  register again, and `src/README.md` tells it to do so after `init`, when the daemon
  thread may be reading the map (`LookupRaces`). It waits for ever for a client that does
  not read or a line that is never finished. The client's socket, the listening socket
  and the epoll instance (`:125`) stay open, so that every restart has three descriptors
  fewer, and without one `accept` takes nobody.
* `LogFile::deleteExpiredFile` deletes every `*.log` in the directory that sorts before
  the cut-off name, those of other programs with a smaller base name included
  (`LogFile.cc:237`). `createDir` answers true if it made a part of the path
  (`LogFile.cc:184`), and the assertion of `AppendFile` then ends the process.
* Log files are named by local time (`LogFile.cc:308`), which goes back at the end of
  daylight saving time: a later file then gets a lower name, or an earlier file its own
  again and is appended to. `FilesInOrder` is the order that is left: of two files whose
  names were not turned round by local time, the lower one has the earlier messages.
* `AsyncLogging::stop` loses what was appended after the last swap. `ThreadPool::stop`
  does not wake callers that wait for a place.
* The zone data has no rule for times before its first and after its last transition. The
  code takes the first and the last type, which its own comments call wrong
  (`TimeZone.cc:224`, `:244`). `StampCorrect` is about the seconds the file tells
  (`FileTells`), those between two transitions or in a zone of one type.
* A zone file that is missing or ends early gives a zone without types, without an error;
  `findLocaltime` then takes `front()` of an empty vector (`TimeZone.cc:225`). The stamp
  of the second in which `setTimeZone` is called may still show the old zone.
* `telPrintfNoTime` and `pushMsgToTerminalImmidate` format with an unbounded `vsprintf`
  before they look at the length (`:834`, `:862`): a text longer than the array has
  overrun it by then. The model returns there, as the code does if it comes so far.
* `telPrintf` takes the result of `vsnprintf` as unsigned: after an error the sum with the
  21 characters of the stamp is 20, which passes the check (`:893`), and the head of a
  stamp is queued.

## 4. Fairness

* `queue_live`: the log thread and the control thread run on once they can, the timed
  wait of `cond_` ends (`waitForSeconds`), and a blocking send returns or fails. Nobody
  has to print, to connect or to stop. Without an end of the send `destory` waits for
  the log thread for ever: the socket is blocking and has no timeout.
* `send`: the calling thread runs on, and a send on a dead connection fails. A send on
  a connection that works need not return.
* `daemon`: the daemon thread runs on, `epoll_wait` times out (500 ms), and a joined
  thread is reaped. The fairness is on the thread as a whole, not on its branches: a
  branch that is never taken again is not forced. Callbacks and echoes inside a handler
  return. A line that is never finished is not assumed away: `QueuedIsAccepted` and
  `GoneIsNoticed` excuse the thread that hangs in one (`Spin`), the first also a
  descriptor table that is used up.
* `runcmd`: the call runs on.
* `system`: each of the two threads and the joining thread run on, and a peer that is
  there, or was closed with data unread, reads what it was sent. This is an assumption on
  the clients; `StopReturns` is false without it. It excuses the daemon thread that
  hangs and the process that the log thread's assertion ended.
* `logging`: the logging thread, a waiting `start` and a joining `stop` run on. The timed
  wait ends. Nobody has to call `stop`, and the clock need not move.
* `pool`: every thread runs on, weakly, but for getting the mutex, which is strong: a
  thread blocked in `pthread_mutex_lock` gets the mutex if it is free again and again.
  Tasks end or throw. Nobody has to call `run` or `stop`.

The other runs have no liveness: nobody has to type, the clock need not tick.

## 5. What is proved

The theorems hold for every value of the constants that the modules' assumptions allow:
any number of threads, cells, messages and starts, any length of message, any number of
connections, ports and descriptors, any width of `cmdLen` and of the index of `RunCmd`,
any alphabet, length of line and number of words, any number of other sockets and of
pieces a peer has room for, any number of callers, workers and places in the pool, any
size of the log's buffers and files, any movement of the clock, any well-formed zone
files and any years between -4712, where the Julian days begin, and 1000000, short of
where an `int` overflows.

Every safety invariant and every action property that a run checks is one of them.
Each module of proofs has a theorem `TypeCorrect`, or one for each of its components; the
calendar has no such theorem, its two variables being determined by the clock. For the queue it includes that no
message goes beyond the end of its buffer.

**MsgBufferProofs.** `Invariance` proves an inductive invariant, and the other theorems
follow from it. `Shape` says at which point of the log thread which of its pointers are
set: its important part is that a batch has two buffers if `newBuffer2` has been given
away, which holds because `nextBuffer_` is empty only if an append has queued a buffer
before; hence the pops at `:697` and `:707` find a buffer. `OneOwner` and
`NoLeakNoDangling` are inductive only with it. That spares are empty
(`SparesAlwaysEmpty`), the account of the messages (`Accounted`) and their order
(`DeliveredInOrder`) need that the contents of the held cells are
increasing from cell to cell, and that the cells written so far are exactly the first
`sendIdx - 1`. `LoopAssertionsHold` is then the code's own assertions; `OverrunDropsOldest`
an action property; `Refinement` shows that every step of the queue is a step of
`LossyLog` or leaves its variables unchanged.

**MessageProofs, sending.** The invariant says where the total can be at each point of the
loop (`Position`), that what has gone out is a beginning of the message and reaches at
least to the total (`Covered`), that it is exact while no three tries in a row have failed
(`Exact`), and how many failures can have happened since the last success, three for each
byte the total is below the end (`Budget`). The assumption `2 * DwLen < Word` says that
a message is shorter than 2 GB, which the lengths in the code (4 MB) satisfy.

**MessageProofs, calendar.** The state follows from the clock, so the work is in the
formulas of `Date.cc`. They count years from March, the leap day last; a date is then
four numbers, the centuries `b`, years `d`, months `m` and days `k` gone by (`IsDate`),
and `DayCount` the sum of their days. `HasDate` divides a count into a date, one lemma
for centuries, years and months each. `DateOf` shows that the nested divisions of
`getYearMonthDay` find that date, by the bounds each quotient keeps, `JulianOf` that
`getJulianDayNumber` counts it back, and `HasNextDay` that the next count is the next
date of the calendar, at the ends of months, years and centuries too. `SplitOf` is about
the truncating division before the epoch. From these follow `ConvertsBack`
(`UtcRoundTrip`) and `GregorianTicks` (`CalendarTicks`).

**MessageProofs, stamps.** The zones are what was read or set (`Zones`), and the text kept
for a thread is the local time of the second kept with it, by the file until the first
`setTimeZone` (`KeptByFile`) and by the zone that was set for seconds after it
(`KeptBySetting`); the test for another second, and not a later one, is what makes this
inductive when the clock steps back. `FindsType` shows that `lower_bound` with its three
cases picks the last transition that is not after the sought time, in both vectors of
times. For `RoundTrip`, the local time finds either the transition of its second, or the
one after it; in the second case it comes again, hence at an end of daylight saving, and
the try with the later type gives standard time and the same time of day.

**TelnetDaemonProofs.** `NoLeak` and `Registered` speak of descriptor numbers, which are
given out again, and are not inductive. `Placed` says that a connection that waits for
accept is in one queue, once, and neither open nor left over from an earlier run, so the
newcomer is never a socket the table already has. `NoLeak` counts the epoll instance
among the descriptors of the run. `BatchOK` says what the rest of a
batch can be about: its numbers differ; an event of the client means that the client
still has input or has gone, and a broken flag only that it has gone; an event next to
the one of the listening socket is the client's; and an event of neither socket is
one of a client that was dropped since the batch was taken. The take-over keeps this because
`accept` runs before the close of the old client and so never gets the old number:
`NewTelHandle` differs from `sockClient`, and what is left in the batch is the old one's.
From it follow `RecvHasInput` (a receive is for an event of the present client) and
`PlaceLostOnlyFor`, one case per action that drops a client; the error branch is taken
for the event of the client whose place the dropped one had just got. `Idle` is for the time
between two runs.

**CommandLineProofs.** `RunsOwnKeys` is not inductive. `OwnTail` is why it holds: as
soon as the first cell of the array is set, the first `cmdLen` cells are the last
`cmdLen` keys of the present client's line. A missing beginning, where an earlier
client's length is still counted, leaves NUL in the first cell, and then nothing is run.

**RunCmdProofs.** `ParamsMatch` and `VerdictMatches` compare the words `RunCmd` found with
the line as it was typed, but the scan destroys the line as it goes. `ReadTo(c)` says
what has become of it up to cell `c`, in terms of `input`: a cell is NUL if its character
is a delimiter and `c` is beyond it (`CellsTo`), the flags tell which quotes are open
(`QuotesTo`), no literal was too long (`LongTo`), and `raw` has the words that begin there
(`WordsTo`). Where the index wraps round, the scan starts over on cells in which no
apostrophe is left; that is all there is to know (`Again`), because then the call can
neither refuse the line nor come to its end. That a parameter ends where the word does
(`WordText`) needs the first delimiter behind its beginning, which exists because the
numbers are well-ordered (`HasEnd`).

**TelnetSystemProofs.** All threads use numbers for sockets, and a number is given out
again. `Phases` says for each point of the life cycle which threads there are;
`QuietAfterStop` follows from it, for log and replies, and so does that
`destory` empties the table only when the daemon thread is gone; `CalledStays` is then
inductive, however `regCommand` is called. `Placed` says what stands behind a
number: a file is behind one number at most, and one that was not accepted yet is behind
none and has got nothing. `Served` says that the number the daemon thread serves is that
of the client it accepted, through the steps of a take-over, in which the new number
differs from the old; `RepliesGoHome` follows. `Written` is about the number the log
thread copied, behind which the file may have changed: a connection has got whole
messages, but the one behind that number has got either all that was sent of the present
message or nothing of it, unless its peer is gone or sends of that message
failed on it (`Over`, `Present`); and a send that waits in a file which
has lost its number leaves nothing in the file that has the number now. A running total
goes back where nobody is behind the number, where the peer is gone, or for a message
that is in `failed` from then on. With this
`MessagesWhole` is inductive, although the number may be the wrong one.

**ThreadPoolProofs.** `Guarded` ties the accounts of the mutex together: `holder_`, which
the code keeps by hand through every wait, names the thread that has the pthread mutex,
that is the one at a place inside the critical section, and those that wait on a
condition are exactly those at the wait. `Unstarted` covers the time before `start`,
`Bounded` the size of the queue, `InHand` says which threads hold a task. With them
`EachTaskOnce` is inductive.

**AsyncLoggingProofs.** `Phases` relates the points of the logging thread to the latch,
`running_` and its owner. `Paid` says that a spare is empty, where both are there, and that elsewhere each
missing one has brought another buffer into the batch; the assertions at the head and the
end of the loop follow, whatever the drop rule removed. The order of the files rests on their names: `Named` says that every file
has the local time of a second up to that of the last roll, and the present one that of
the last roll. A roll needs a later second than the last, also when the clock has stepped
back in between; so a name lower than the present file's belongs to an earlier second,
unless local time went back between the two. `Numbered` and `InPipe` say that
the batch, the full buffers and the current buffer are in the order of the appends, and
behind what has been written. Whatever a `LogFile` does with the text it is given,
it ends up behind what the file has or stays in the stream (`Wrote`, lemma
`GivenToFile`); short writes, rolls and deleted files are cases of it. `LoggedOnce` adds
an account: every action takes messages from those that wait and puts them in the files,
among the dropped or among the cut (lemma `Moves`), and what it takes is in no other
place, because different buffers of the pipe have no message in common (`BeforeApart`).

Only model-checked:

* Liveness, which is out of the prover's reach: `StopCompletes`,
  `EveryMessageFlushed`, `DeadPeerReturns`, `QueuedIsAccepted`, `GoneIsNoticed`,
  `ScanEnds`, `StopReturns`, `EveryMessageWritten`, `RunReturns`, `TasksRunOrStopped`.
* The finding, which is a counterexample.
* That the few calls of the C library the models use (`lower_bound`, `fopen`, `send`) do
  what their definitions here say, which is an assumption of both checks and proofs.

## 6. What is not modelled

* Text: formatting (`LogStream`, `StringPiece`, `Timestamp` and `Date` to strings),
  echoes, prompts, the welcome screen, log lines on `stdout`, and the unsigned sums in
  which `telPrintf` adds up lengths; what `vsprintf` writes behind its array.
* `BlockingQueue` and `BoundedBlockingQueue`: no object of these classes is made
  anywhere in the repository; the queue of `ThreadPool` has their protocol.
* `ProcessInfo`, `ReadSmallFile`, `Exception`, `Atomic`, `Singleton`: input and output or
  one-line wrappers. Thread names and ids, the handler at fork.
* In `TelnetSystem`: one restart's leftovers are `TelnetDaemon`'s and `MsgBuffer`'s
  matter, as are ports, epoll and the buffers; callbacks do nothing.
* `toUtcTime` with its second argument false, and the abbreviations of a zone file.
* Memory exhaustion; a failing `pthread_create`; the weak memory effects of the
  unprotected flags (each read sees the last write).

## 7. Plan

Done: all modules of section 2, the runs, and proofs of every safety invariant and action
property that they check.

Left, should the code grow that way:

1. Liveness by hand: the measures that fall in `SockSend` (`Budget`) and in the scan of
   `RunCmd` are in the proofs as bounds; that they fall under fairness is TLC's.
2. The unsigned sums of `telPrintf` after an error of `vsnprintf`, with `Word` as in
   `SockSend`.

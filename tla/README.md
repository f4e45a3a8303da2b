# CppTempLearn in TLA+

CppTempLearn is a set of small C++ libraries for Unix programs: `libfs` (file
system objects, paths, listings, file streams), `libcutils` (record streams,
local and network sockets, uevents) and `libcpputils` (logging, shell commands,
file input and output, properties, parsing), with a demonstration client and
server under `src/appsrc`. It builds with Bazel for 64-bit Linux. This directory
holds TLA+ modules of the parts where order, staleness, fragmentation or
concurrency decide whether the code is right, the TLC configurations that check
them, and proofs for TLAPS.

    tlc -config RecordStream.cfg MCRecordStream     # one run
    tlapm RecordStreamProofs.tla                    # one proof module

`PROJECT.json` lists components, runs, the lines each definition models, hazards
and theorems.

## 1. Inventory

State, operations, what is hard, and what makes the component correct.

| component | state | operations | hard | correct when |
|---|---|---|---|---|
| Record stream, `libcutils/record_stream.cpp` | one buffer, `unconsumed`, `read_end` | `record_stream_get_next` | `read()` cuts frames anywhere; remainders move; buffer exactly full; peer dies inside a frame | records come out unchanged, in order, all of them; EOF, EAGAIN, EFBIG mean what they say |
| `FsObject`, `libfs/FsObject.cpp` | path, remembered `m_exists`, `m_realPath`, type | `create move copy createSymLink remove removeSymLink setPath isExist getAbsolutePath setOwner setGroup changeMode` | memory of a file system that others change; links followed or not; several steps, the first of which stay when a later one fails; paths pasted into shell commands | no operation destroys what it was not asked to; true means done |
| `makePath`, `CreateDirPath` | none of its own | a `stat` and a `mkdir` per level | another process between the two | true exactly when all is there |
| Logging, `libcpputils/logging.cpp` | logger, aborter, default tag, severity, two mutexes | `LOG LOG_STREAM PLOG CHECK`, the setters, `ScopedLogSeverity`, `InitLogging` | threads; an aborter called without the lock, which may return and log; a severity read twice | messages whole, FATAL never lost, no deadlock |
| Path, `libfs/Path.cpp` | text, and what was analysed of it | assignment, getters, `resolve`, `resolved` | a getter asked before and after an assignment; `..`, empty names, drives | what is remembered is of this text; resolving leads to the same place |
| Dir, `libfs/Dir.cpp` | cached listing and its time | `getEntries` | whole seconds; a copy takes the time without the listing; `ls` that fails | a listing is not older than the last change |
| File, `libfs/File.cpp` | an object and a stream with a buffer | `open` in four forms, `setPath`, assignment, `move remove close` | assignment to an open file; an old real path; words still in the buffer | it opens, and empties, only the file it names; the stream is that of the path |
| Shell, `libcpputils/sysutil.cpp` | command, output path | `execute execCommand` | output in a pipe nobody reads until the command ends; redirection to `/dev/null` left set | every command ends; true means it ran |
| File I/O, `file.cpp`, `load_file.cpp` | none | whole files, links, temporary names | transfers in parts; clean-up by name; files that change under way | all or an error, and nothing else deleted |
| Descriptors, `unique_fd.h`, `cmsg.cpp` | owned descriptors, one table per process | own, move, release, `Pipe`, `Fdopen`, send, receive | every call can fail in the middle; truncated messages; a full table | each open descriptor has one owner |
| Sockets, `socket_*_unix.cpp` | none between calls | connect with a timeout over addresses, bind, listen | timeouts, descriptors of failed attempts, names others want | a connected descriptor or none open |
| Socket demo, `appsrc/localSocketDemo` | a connection | client loop, server loop | several of each; a peer that goes away | turns stay in step and both stop |
| Uevent, `uevent.cpp` | none | open, receive | messages of anybody but the kernel | nothing of theirs is left in the buffer |
| Properties, strings, small utilities | little or none | | | |

How they interact. `FsObject` runs `mv`, `cp`, `rm`, `chown` and `chgrp` through
`Shell`; `Dir` and `File` are built on `FsObject`, and all three on `Path`.
`InitLogging` (and every `LOG`) is used by the other parts of `libcpputils`; the
log file's directories are made by `CreateDirPath`, the same walk as `makePath`.
The socket functions give descriptors to their callers, who may keep them in a
`unique_fd`, send them over a local socket, or put a record stream on them: all
of them take numbers from one table, which is why `Library` composes them. The shared state is of two kinds: globals of `logging.cpp`,
guarded by its mutexes or not at all, and the file system, which every process
shares with every other.

The hazards this leads to are listed, each with its line and the properties
that would catch it, in `PROJECT.json`.

## 2. Modules

| module | what it is |
|---|---|
| `RecordChannel` | abstract: a peer emits records, a caller receives the same ones in order, then an end |
| `RecordStream` | `record_stream.cpp` over bytes; implements `RecordChannel` |
| `RecordStreamProofs` | its theorems |
| `FileSystem` | external: the file system calls and shell commands `libfs` uses, as operators on a tree |
| `FsObject` | the object and its operations, over `FileSystem` |
| `MakePath` | `makePath` and `CreateDirPath`, one system call at a time, in several processes |
| `Logging` | threads in `logging.cpp` |
| `LoggingProofs` | its theorems |
| `Shell` | a command, its pipe, and the caller that reads it |
| `ShellProofs` | its theorems |
| `Listing` | `Dir`: entries kept by the directory's time |
| `ListingProofs` | its theorems |
| `Paths` | `Path`: a text and what is remembered of it |
| `PathProofs` | the theorems about `MakePath` and `Paths` |
| `FileStream` | `File`: extends `FsObject` by the stream and the files' contents |
| `FsObjectProofs` | the theorems about `FsObject` and `FileStream` |
| `Descriptors` | the table of descriptors and who owns what: `unique_fd` |
| `FdPassing` | `cmsg.cpp` over `Descriptors` |
| `NetworkClient` | `socket_network_client_timeout` over `Descriptors` |
| `Endpoints` | `socket_inaddr_any_server`, `uevent.cpp` |
| `FileIO` | `file.cpp` and `load_file.cpp` |
| `Library` | composes the five: one thread that calls their functions over one table |
| `LibraryProofs` | its theorems |
| `LocalSockets` | the kernel's local sockets, `socket_local_server`, `socket_local_client` |
| `LocalDemo` | the demo's programs over `LocalSockets` |
| `LocalDemoProofs` | its theorem |
| `MC...` | values of the constants for TLC |

A definition named like another with a suffix after an underscore
(`Moved_Not` beside `Moved`, `IsFull_Never` beside `IsFull`) is a mistake a
programmer could have made there. No specification uses one; for every property
there is one that makes the property fail, which shows that the property depends
on the code and that the bounds reach the case. `PROJECT.json` pairs them.

### RecordStream

State: the fields of `struct RecordStream` as offsets into the buffer
(`unconsumed`, `read_end`, `buffer`), the byte stream (`written`, `taken`,
`closed`), the last result, and history (`sent`, `ends`, `torn`, `rcvd`). The
peer emits a frame, closes, or dies inside a frame. One call of
`record_stream_get_next` is one action, in one of five ways: a record is in the
buffer (`GetBuffered`), the buffer is full of a record that does not fit
(`GetTooBig`), the remainder moves to the front and `read()` gives `n` bytes
(`GetRead`), 0 (`GetEof`), or -1 (`GetError`). The object belongs to one thread,
so nothing but the peer runs between its steps, and the peer only appends to the
stream: one atomic call loses no behaviour.

The bytes of the header are real bytes (`Htonl`, `Ntohl`), and a byte never
written is `Uninit`, so a misplaced offset is seen. `NDEBUG` is set in this
build: the `assert(0)` before EFBIG does nothing, and the code goes on.

Two comments of the source are inaccurate without consequence: line 117 speaks
of a 16-bit length where the code reads four bytes, and line 147 says of EFBIG
"this should never happen", which a peer's oversize record reaches.

### FileSystem and FsObject

A path is a sequence of names, a tree a function from a finite set of paths to
nodes. `FileSystem` holds the calls: `realpath`, `stat`, `lstat`, `mkdir`,
`symlink`, `unlink`, `creat`, `rm -rf`, `mv`, `cp -rf`, links included. It is
external to the repository and is modelled from how `libfs` uses it. A path of
`Bare` is written as a name alone: it starts in the current directory, but as the
text of a link it is looked up where the link is (`Leads`). A command gets its
paths without quotes (`FsObject.cpp:370`, `409`, `450`): `Words` gives the
operands a shell makes of a path, a pattern's matches among them, and `Signs` the
paths whose text ends the command (a ';', or the '>' at which `Shell` splits). `Line`
and `RunEach` are the command line and what `rm`, `mv` and `cp` do operand by
operand. A path that is one word to the shell is `Plain`. A path is
followed link by link (`Hops`); after `MaxHops` of them the call fails (ELOOP,
`TooLong`), and `creat` makes its file where the last link leads (`Ending`). `cp`
puts a link over whatever is no directory, writes a file through a link to a file,
and skips, but reports, what clashes (`Clashes`), with all below it.

`FsObject` has the object's members and the tree. Each operation of the class is
an operator on a record of both (tree, path, exists, real path, what was
returned) that composes the helpers the code composes, in its order (`isExist`,
`makePath`, `getAbsolutePath`, `setPath`, a shell command), and an action that
makes its result the next state. A shell command may fail to start (`up`); when a
path ends it early, the answer is that of the rest of the line, and what the rest
does to the tree is left to `Other`. `getAbsolutePath` that resolves nothing keeps
`m_realPath` and clears `m_absolute` (`Resolve`); an object of which that is so
although `m_exists` is set strays (`Strays`).
An absolute path that leaves the finite set of paths is remembered as none
(`Fitting`).
`Other` is another program that makes a node, or deletes one with all below it,
between two calls: a file, a link, or the directory the object is in.

The invariants about an operation quantify over its outcomes in the current
state, so each is about the call from every reachable combination of tree and
memory. `FsObject` takes a call as one step; what another process does inside
`makePath` is the subject of `MakePath`.

### MakePath

`node` is what is at each level of one path, and each process walks it: `Check`
(the first `stat` of the whole path), `Stat`, `Mkdir`. `CreateDirPath` of
`logging.cpp` walks the same way, after it has refused a path that is empty or
longer than its buffer (`Refuse`). `maker` is history.

For a name in the root directory `makePath` always returns false, since "/"
without its trailing slash is the empty string, on which `mkdir` fails. `create`
does not look at the answer. `FsObject` models that (`Directories`); `MakePath`
is about the other paths.

### Logging

Each thread has a program, a sequence of calls. `LOG` looks at the severity, the
destructor looks again (`CheckAgain`), takes `LoggingLock` (`Lock`), and for each
line takes `TagLock` when the message has no tag (`LogLine`), calls the log
function (`Written`), and releases; FATAL goes on to `Abort`, without a lock.
`SetAborter` holds `LoggingLock` while the aborter is moved, but the call of the
aborter does not take it: between the two steps of `SetAborter` a call may find
the old function, the new one, or crash. `InitLogging` expands to the calls it
makes; its test and assignment of `gInitialized` are two steps, and it sets no tag
when `argv` is `nullptr`. `CHECK` is
`LOG_STREAM(FATAL)` for a condition that is false, `PLOG` is `LOG`.

### Shell

The object's members, the running command (`child`: what it has yet to say and
its exit status), the pipe, and the caller's place in `execCommand`. `Start` and
`GiveUp` are `execute` up to `system()`, with every early return; the command
says some of its output at a time, as much as the pipe takes (`Say`), or is
killed (`Killed`); `SystemReturns`, a `Read` per `read()`, and `Finish`, which
splits the text into lines and writes the file. `file` is the file system seen
from the output paths, `run` is history. A text is a sequence of words and
quotes, split at the last `>` as `updateCommand` does; what a command says is
given by `Programs`, external. Characters (`Char`) matter only as line ends and
zero bytes, at which the code cuts a read. Left out: the blanks `Trim` removes, and
commands that leave a background process with the pipe open.

### Listing

Directories have names and a modification time in seconds, and a clock ticks.
`GetEntries` takes the time and clears the entries, `LsOpens`, `LsEnds` and
`LsFails` are the command, `Check` the look at one line, `Return` the end; other
programs add and delete names and directories between any two of these.
`Hidden` names `ls` does not print, `Dangling` ones `stat` does not find, and
`Trim` may turn a name into another. With an empty path the command is `ls /`,
or the listing of the last path, as in the code. The path is in the command without
quotes: `Lists` says which directories the shell makes of it, while the entries are
looked up below the path itself (`Place`). The entries are a set: their
order is `ls`'s, and a name that `Trim` turns into another one that is there
would be in the vector twice. Left out: directories renamed together with their
time, and clocks that go back. `Listing` takes `Shell` for what its run shows:
all lines or a failure. The two share no state.

### Paths

A text is the sequence of the names between its separators. `object` and `given`
are two `Path` objects: their text, and what `analyze` has filled in, if it has.
`SetPath`, `Assign`, `Move`, `Resolve` and the getters (`Analyze`) come in any
order. A Path that was moved from (`moved`, history) has empty strings and the flags
it had.
`resolved` is the loop of the code with its stack and its counter of what the
next ".." may take away. The reference is `Leads`: where a text leads in a tree of
directories. What looks into a name (`baseName`, `extension`) is left out.

### FileStream

`File` is an `FsObject` that is a `std::fstream`. The regular files of
`FsObject`'s tree are inodes here, so that a stream keeps its file when the name
goes or changes; `data` is what is in each file, `stream` the open file, its mode
and what is in its buffer. The operations are `FsObject`'s operators with the
closing and opening `File` adds, in the code's order: `setPath` closes first,
`openInit` closes, then asks `getAbsolutePath`, then opens; `move` and `remove`
close when the object exists. Assignment goes to `Path` and closes nothing.
A file's content is a set of words: what is in it, not where. Another program
(`Program`) makes files, directories and links and deletes what is there with all
below it, the directory of the open file too. `create` and `copy`, which `File`
inherits as they are, are in `FsObject` only.

### Descriptors, FdPassing, NetworkClient, Endpoints, FileIO, Library

`Descriptors` has what every function that opens anything shares: the table
(`fds`), the caller's `unique_fd` objects and one `FILE` (`held`), its
`std::vector<unique_fd>` (`vector`), and the running function's locals
(`frame`, which is `NoCall` between two calls). `wrong` remembers a close of a
number that was not open. `CloseAll` is the loop over a vector of `unique_fd` in
one step: what it closes, and whether a number was in it twice. The kernel
gives the lowest free number, so a number that was closed twice is soon somebody
else's. `Open`, `Reset`, `Move`, `Pipe`, `Fdopen`, `Fclose` and `Clear` are the
caller's steps.

`FdPassing` sends and receives over one socket, stream or datagram, whose
receiver may have asked for credentials. The sizes of control messages are those
of 64-bit Linux; `recvmsg` says what arrives and what is truncated, and a receive
is one action, for nothing else uses the socket or the table meanwhile. After the
sender of a stream has closed (`Hangup`) a receive meets the end.
`NetworkClient` is one action per system call, each of which may fail, while the
network answers when it likes (`Answer`). `Endpoints` has the chains of system
calls of the other sockets in one action each, with one outcome per failure, and
`uevent_kernel_recv` from the moment the message is in the buffer. `FileIO` is
one action per system call, `mkdtemp` and `nftw` included, with another program
that renames files onto the path, deletes it, appends to the file that is being
read, cuts it, or lengthens a link, until the call returns. What the clean-up of a
failed write takes away is remembered in `removed`.

`Library` is a thread that calls all of them. Its guards are bounds: what a
function does depends on the table only through the numbers that are free, so a
call in several steps starts among descriptors of one kind (`OfOneKind`), with
nothing in the channel (`Unused`), and only what the caller opened is sent
(`OnlyObjects`).

### LocalSockets, LocalDemo

`LocalSockets` is the kernel's side: who holds the name, who listens, the queue
of each listening socket, and for each connection two queues and its open ends.
`LocalDemo` has servers and clients as processes, one action per system call and
loop pass: a server binds, listens, accepts one client, reads and answers until
it reads a '~'; a client connects, and its user types. `socket`, `bind`, `listen`,
`accept` and `connect` may fail (`NoSocket`, `NoClient`), on which a program ends. A
client may be killed
and its input may end; a write to a closed connection kills the writer. The
demo's name is abstract; `LocalSockets` has the other namespaces too, and in
those a second server takes the name of the first by `unlink`.

## 3. Runs

| run | question | answer |
|---|---|---|
| `RecordStream` | does every fragmentation give back the records, and the right endings, and is it the abstract channel? | yes |
| `FsObject` | can an operation lose data or report what is not so, from stale memory and through the shell, while other programs change files and directories? | only in the two ways `RemoveHitsOnlyNamed` names: a path the shell takes apart, and an object that strays |
| `MakePath` | is the answer the documented one, is somebody successful, and does every call return? | yes, but false to a call that lost a race for a directory |
| `Logging` | messages whole, FATAL out and never skipped, nothing replaced under a call, no deadlock? | yes |
| `Shell` | is all output kept, only the right file written, and does every call return? | yes, when the output fits into the pipe |
| `Listing` | are the entries read, and the entries remembered, those of the directory? | yes, for the path they were read for, if the shell takes it for one word, and a later second |
| `FileStream` | does `File` open, empty and keep only the file its path names, and move it complete? | yes, when the directories on the way are there or can be made and the object does not stray |
| `FileStreamAnyPath` | and for every path? | no: a new bare name empties the file named before |
| `Library` | does anything leak, get closed twice, come back half, or never come back? | no |
| `LocalDemo` | one server, turns in step, and does everybody stop? | yes, unless a client is killed or its input ends |
| `Paths` | is what a Path remembers true, and does resolving lead to the same place? | yes, without empty names inside, of a Path that was not moved from |
| `PathsEmptyNames` | and with them? | no: one level too deep |

### What the properties say

* `RecordStream`: `Aligned` (the window holds the stream's bytes from the next
  header on), `ResultsAreRight` (records unchanged and in order, the end only at
  the end, EAGAIN only with no complete record in the buffer, EFBIG only for a
  record that is longer), `TooBigIsFinal`, `AllDelivered` (liveness),
  `ChannelSpec` (refinement).
* `FsObject`: `RemoveHitsOnlyNamed`, `CreateIsRight` (it destroys nothing, and it
  succeeds where it can), `MoveAndCopyKeepData`, `LinksAreRight`. The first says
  what `remove` may touch at all: what the path names; of a directory whose path the
  shell takes apart, what its words name; and of an object that strays, the one file
  or link that is remembered as its real path. The last happens: resolve one path,
  set another that exists, let another program delete the directory of the second;
  `isExist` answers from memory, `getAbsolutePath` keeps the first real path, and
  `remove` unlinks that. `MoveAndCopyKeepData` is about calls whose two texts the
  shell leaves whole, of objects that do not stray (`Straight`): of the others the
  code promises nothing that could be stated. A link holds the object's text, so
  `LinksAreRight` leads an object of `Bare` back only where the link is in the
  directory the name is in.
* `MakePath`: `AnswersUnlessRaced`, `SomeoneSucceeds`, `AllReturn`. The documented
  answer is "'true' if path is created or exist, else 'false'" (`FsObject.h:410`).
  One case is an exception: `mkdir` that meets what another process has just made
  (EEXIST) makes `makePath` false although the path is, or is about to be, there.
  The property says that nothing else does.
* `Logging`: `MessagesWhole`, `FatalIsFinal`, `NothingChangesUnderCall`,
  `AllFinish`. Two things the code does are not excluded by them: overlapping
  `ScopedLogSeverity` objects of two threads restore each other's level
  (`logging.cpp:679`; `logging.h:463` promises a temporary change), and
  `InitLogging` takes the string `logging.h:141` gives as an example for a FATAL
  error and aborts.
* `Shell`: `OutputIsKept` (lines and error message against what the command
  said, however reads cut it), `OnlyTheFileIsWritten`, and `Returns`: nobody
  reads the pipe while `system()` runs, so the condition in it (`Fits`) is the
  code's limit: more output than the pipe holds, 64 KiB on Linux, and the
  call never returns.
* `Listing`: `RememberedEntriesAreRight`, whose conditions are what a caller has
  to know (same path, one word to the shell, successful reading, in a later second
  than the last change), and `ReadingSeesDirectory`, what one reading gives while the
  directory changes. Without the first condition it fails: after `setPath` or
  an assignment to a directory of the same second, `getEntries` gives the other
  directory's entries, where `Dir.h:98` says "Get this directory enties".
* `FileStream`: `OpensOnlyNamed`, of an object that does not stray and a path of
  which something can be made (`Sure`), `StreamFollowsPath`, `MovedIsComplete`. An
  assignment leaves an open stream on the old path (`File.cpp:72`), and so may an
  open of an object that strays: `kept` remembers that neither has happened.
* `Library`: `NothingLeaks` (each open number has one owner at every step),
  `ConnectsRight`, `ReceivesAreRight`, `TransfersAreWhole`, `EveryCallReturns`.
  `TransfersAreWhole` names what other programs can spoil: a file that is cut while
  `ReadFileToString` reads it gives a text that no file held, but no less than is
  left; and a failed write removes the name, with what another program has put there
  since.
* `LocalDemo`: `Orderly` (one holder of the name, at most one message between
  client and server and none while the user types, a server dies only of a
  client's death, addresses refused exactly when they do not fit), `AllStop`.
* `Paths`: `DetailsAreRight`, `ResolvesRight`.

### Bounds, and why they are enough

* `RecordStream`: `MaxRecordLen` 4, so the buffer has 8 bytes; at most 3
  complete records (`MaxSent`) of lengths 0, 1, 4 (fills the buffer exactly) and 5 (does
  not fit). Two empty frames fit at once, so that consumed frames, remainders
  that move and frames that end at the buffer's end all occur. Payload bytes
  look like headers.
* `FsObject`: a directory that is the current one, a file in it, which is also named
  without its directory, a free name with places below it, and a link to the file, to
  the directory, or to a directory whose name the shell takes for the directory, the
  file and the end of the command. Destinations with and without a slash, at a free
  name and inside it. Other programs delete the directory and the file and put
  directories in their place, so an object strays in few steps. `MaxHops` 4 links in
  one resolution: one original link, one to the current directory, those the object
  makes, and loops; `MaxRenames` 2 retries of `create`, which the two names of
  `Sharp` never exceed. The theorems remove the bounds on paths, words, trees, links,
  hops, renames and destinations.
* `MakePath`: three processes, three levels, two of them racing for all and one
  for a prefix, and a fourth whose path is refused; every position of an obstacle. The theorems remove the bound.
* `Logging`: two threads, every pair of six programs of up to eight calls (36
  initial states), chosen so that each kind of call meets each other kind and
  each way an aborter can behave. The theorems remove the bound.
* `Shell`: a pipe of four characters read two at a time; commands that say
  nothing, text with and without a last line end, a line of exactly one read, a
  zero byte, more than the pipe holds, and that fail with and without a word;
  output paths with, without and with another file. The theorems remove the
  bounds on the pipe, the reads, the commands and what they say.
* `Listing`: three directories, the root, another, and one whose path names the two
  to the shell; four names, one of each kind; three seconds (`MaxTime`) and two changes (`MaxChanges`), so that one can
  fall in the second of a reading and one later. A time may be 0, the time of a
  Dir that has read nothing. The theorems remove the bound.
* `FileStream`: a file in a directory, another beside the directory, and a free name
  in the directory that is written without it (`Bare`); three inodes, which are given
  back when nothing refers to them (`Room` keeps one free); one destination of a
  move; the directory, which another program deletes with its file and makes again;
  `MaxRenames` 1, `MaxHops` 3. The theorems remove these bounds too.
* `Library`: three numbers (`Fd`), two `unique_fd` and a `FILE`, so that every
  call also meets a full table; two kinds of object. `PageSize` 32 refuses
  three descriptors, as a page does 1019; `MaxBytes` 2 in the channel, enough
  for a message cut in the middle and for two messages; `MaxAddresses` 2;
  `RmemMax` 1 with sizes 1 and 2; content of two pieces, so that a transfer can
  stop half way; `MaxLink` 3 against a first buffer of 2, so that it doubles.
  The theorems remove all of them, and the guards on when a call begins.
* `LocalDemo`: two servers that want one name and two clients, `MaxWords` 2 words
  before the '~'; `LISTEN_BACKLOG` 4, the code's, which two clients never fill.
  The theorem removes the bound from `Orderly`.
* `Paths`: every text of up to four names (`MaxNames`) over two ordinary names,
  "", ".", ".." and a drive, as the object, up to two names as the argument; a
  result of `resolve` grows to `MaxNames`. The theorems remove the bounds.

Deadlock is checked but in four models. `FsObject`, `FileStream` and `Paths` are
objects whose callers may stop at any time. In `LocalDemo` the programs end. In
`MakePath` and `Logging` a `Stop` step marks the ends that are meant, so that any
other standstill is an error.

### Fairness

* `RecordStream`: weak fairness of `record_stream_get_next`: the caller goes on
  calling. Nothing is assumed of the peer, and nothing of the size of a read but
  that it is positive, which `read()` guarantees.
* `MakePath`: weak fairness of each process, a walk without waiting: the
  scheduler runs it.
* `Logging`: weak fairness of each thread. `std::mutex` is not fair, and strong
  fairness is not assumed: programs are finite, so a thread that keeps taking the
  lock runs out of calls.
* `Shell`: weak fairness of the caller and of a command that can write. That a
  command may be killed is not relied on, and a command that computes for ever is
  not in `Programs`.
* `Library`: weak fairness of the running function, except in a `select` without
  a timeout, which waits for the network; and of the network's answer, which the
  kernel's own time limit for a connection gives. Nothing is assumed of the other
  program.
* `LocalDemo`: weak fairness of each process (a user who types is part of the
  client): every process runs and every user types on. That a client is killed or
  its input ends is not assumed; `AllStop` is about the executions where neither
  happens, since the server spins for ever when its client dies
  (`local-server.cpp:24`).

## 4. Findings

1. `File::open` of a new name without a directory opens, and `openWrite` empties,
   the file the object named before (`FsObject.cpp:313`, called at
   `File.cpp:167`). Such a name has `m_directoryPath` "", so neither it nor its
   directory resolves, and `getAbsolutePath` keeps the old `m_realPath`.
   `File.h:178`: "Opens the file identified by argument filename".
2. `Path::resolved` takes the empty name between two separators for a directory
   (`Path.cpp:301`): "a//.." becomes "a". `Path.h:308`: "Resolve path (removed
   '.' and '..' entries if possible)".

Beside these, the code does something else than its comments say, or than a caller
would take for granted, in these places. No run has them as a violation; the
properties named here are stated so that they hold with them, and say that it goes
no further.

* `makePath` is false when another process makes the directory in time
  (`FsObject.cpp:593` against `FsObject.h:410`): `AnswersUnlessRaced`.
* `move`, `copy`, `remove`, the owner calls and `getEntries` give their paths to the
  shell without quotes (`FsObject.cpp:370`, `409`, `450`, `494`, `Dir.cpp:85`):
  `RemoveHitsOnlyNamed`, `Straight`, `Plain`.
* `remove` of an object whose directory has gone may delete the file of an earlier
  path (`FsObject.cpp:313` against `FsObject.h:349`, "Delete the filesystem
  object."): `RemoveHitsOnlyNamed`, `Strays`. A failed `getAbsolutePath` also leaves the
  object calling its path relative (`FsObject.cpp:317`).
* `createSymLink` from a relative path makes a link that leads from its own directory
  (`FsObject.cpp:434`): `LinksAreRight`.
* `CleanUpAfterFailedWrite` removes what another program has put on the path
  (`file.cpp:269`, "Let's not leave a corrupt file lying around"): `TransfersAreWhole`.
* a `Dir` that was set or assigned to another path of the same second gives the old
  entries (`Dir.h:98`, "Get this directory enties"): `RememberedEntriesAreRight`.
* `execute(true)` leaves `/dev/null` as the output path of later calls
  (`sysutil.cpp:82`).
* an assignment to an open `File` leaves its stream on the old file (`File.cpp:72`).
* a `Path` that was moved from still says that it is absolute (`Path.cpp:86`).
* a server that binds a file's name takes it from a running one
  (`socket_local_server_unix.cpp:76`); the demo's server spins when its client is
  killed (`local-server.cpp:24`).
* scoped severities of two threads, and the example of `logging.h:141`: see `Logging`
  in section 3.

## 5. Proofs

`RecordStreamProofs` proves, for every `MaxRecordLen` up to 65535, every set of
records whose lengths do not wrap around and every number of records, that
`TypeOK`, `Aligned` and `ResultsAreRight` are invariants (the last by its parts,
`InOrder`, `EofOnlyAtEnd`, `AgainOnlyIfDrained` and `TooBigOnlyIfLonger`, each a
theorem), that `TooBigIsFinal` holds, and that `RecordStream` implements
`RecordChannel`. `InOrder` alone is not inductive: a call returns the bytes
between two offsets, and that they are a record depends on where the offsets
stand in the stream. The invariant is therefore

    IInv == TypeOK /\ Framed /\ Aligned /\ InOrder /\ ResultOK

`Framed` says that the stream is the frames of `sent` and then what was cut
short, `Aligned` ties the buffer to it, and `ResultOK` ties the last result to
both. The heart is `WindowParse`: on a window that holds the stream's bytes from
a frame's first byte on, `getEndOfRecord` finds that frame's end exactly when
the window reaches it. `HeaderRoundTrip` is the lemma that `Ntohl` undoes
`Htonl`. Assumptions: the four named in `RecordStream`.

`PathProofs` proves of `MakePath`, for any set of processes and any number of
levels, that `TypeOK`, `AnswersUnlessRaced` (by `TrueMeansThere` and
`FalseOnlyIf`) and `SomeoneSucceeds` are invariants. The invariant adds
`Quiet` (a process whose path is refused makes nothing), `Rooted` (what is there lies in directories), `Passed` (every level above a
process's own is a directory), `AfterStat` (what `mkdir` may meet),
`MakersAhead` (whoever made a level is further down than it, or has returned
true) and `Leader` (with nothing in the way, some process that has not failed is
ahead of all that have). When the leader fails, it fails on a level that another
process made, who then leads. Assumptions: the three named in `MakePath`.

`PathProofs` proves of `Paths`, for any names and texts of any length, that
`DetailsAreRight` and `ResolvesRight` are invariants. The invariant is `PathsInv`:
both objects hold a text that is not without names, and what is remembered of it
is what it says, unless the object was moved from. The work is in the operators. `Walked` and `Taken` are recursive
functions over a sequence of names; `Recursion` (there is such a function),
`WalkAppend` and `TakenAppend` (one name more is one step more) and `SeqInduction`
(sets of sequences that are closed under one element more) stand in for the
library's induction theorems. For `resolve` it follows that walking along a full
path and then along another text is walking along both (`WalkConcat`,
`JoinLeads`). For `resolved` the invariant of the loop is

    Cleans(b, from, s, names) ==
        \E d \in Seq({DotDot}), n \in Seq(Name) : Keeps(b, from, s, names, d, n)

what is on the stack is the root `b`, if any, then ".." (`d`), then as many names
(`n`) as may be taken away, and they lead where the names taken so far lead. A
".." takes away the last of `n`, which is the step back (`BackAgain`), or adds to
`d`. So the result has its dots in front, and resolving it again changes nothing
(`TakenClean`). `ResolvedIsRight` holds for `Simple` texts, as in the property: an
empty name in the middle is no step back, which is the second finding.
Assumptions: the two named in `Paths`.

`LoggingProofs` proves, for any set of threads and any programs of legal calls,
that `TypeOK` and `MessagesWhole` are invariants and that `FatalIsFinal` and
`NothingChangesUnderCall` hold. The invariant is

    IInv == TypeOK /\ Positions /\ OutOK /\ MessagesWhole
            /\ UnderWay /\ Words /\ LastWords

`TypeOK` has the locks: a thread holds them exactly where its place in the code
says, so two threads are never both between `Lock` and the release. `Positions`
says what kind of call is under way at each place. `MessagesWhole` alone is not
inductive: that a second line continues the first needs to know that the last
line out is this thread's, of this message and by the present log function
(`UnderWay`), which holds because whoever could add a line or replace the
function needs the lock. `Words` says that a thread on its way to the aborter
has its last line out, which makes `LastWords` inductive. Assumptions: those
named in `Logging`, of which `CallsAssumption` says that programs, and what
aborters do, are finite sequences of the calls there are, and that a message has
at least one line.

`ListingProofs` proves, for any directories, names, seconds and changes by other
programs, that `TypeOK` and `RememberedEntriesAreRight` are invariants and that
`ReadingSeesDirectory` holds. The invariant is

    IInv == TypeOK /\ Way /\ Seen /\ Kept

`Way` says that a reading is of the path the object has: `setPath` and assignment
cannot come between. `Seen` follows the history: what was there since `ls` began
is part of what is there, which is part of what ever was, and each name of the
first kind is in the entries or still to be looked at. `Kept` is what makes the
remembered entries right later: as long as the directory's time is older than
the second of the reading (`Old`), nobody has changed it since, so that during
the reading `ever` is no more than `always`, and afterwards the entries are
right. A change puts the directory's time to the clock, which is never before
the reading, and `Old` is over. That the path is one word to the shell (`Plain`) is
part of both properties and of `Kept`. Assumptions: the four named in `Listing`.

`LocalDemoProofs` proves, for any number of servers, clients and words and any
length of the queue, that `Orderly` is an invariant of the demo under an abstract
name. The condition is needed: under a file's name `bind` takes the name of a
running server, and `OneServer` fails. The invariant is

    IInv == Types /\ OneServer /\ Links /\ ServerSurvives /\ Turns

`Links` ties programs to connections: a server that reads or writes has the
connection of its client (`Accepted`), so have the clients in its queue
(`Queued`), a client that has not connected is in no queue (`Opened`), and a
connection whose client has gone is one of a client that was killed or whose
input ended (`Survivors`). `Turns` says where the one message of a connection is:
nowhere while the user types, and on the way in, with the server or on the way
back while the client waits. `StepDoes` first reduces every step to what it does
to one program and to the kernel, so that each part of the invariant is followed
through fifteen effects. Assumptions: `ProcessAssumption` of `LocalSockets`.

`LibraryProofs` proves, for any table of descriptors, any objects, sizes,
addresses, contents and lengths of links, that `NothingLeaks`, `ConnectsRight`,
`ReceivesAreRight` and `TransfersAreWhole` are invariants. It proves them of
`AnySpec`, where a call begins in any state between two calls, as often as one
likes: the guards of `Library` that bound the run (`BeginCall`, `OpenSocket`) are
not used. The invariant is

    IInv == Owned(Here, InFlight) /\ FrameOK(frame, fds) /\ ChannelOK

`NothingLeaks` counts keepers, which is no way to reason about a step. `Owned(t,
E)` says the same by who keeps what: every open number is held by one object or
stands in one place of the vector, or is in `E`, what the running function has in
hand, and those numbers are open; nothing was closed twice. It is about a table
and not about the state, so that the first layer of the module can say what each
operator makes of it: `Reset_Owned`, `MoveAssigned_Owned` (an object assigned to
itself included), `Pair_Owned`, `CloseAll_Owned`, `Resets_Owned`,
`ReceivedVector_Owned`. `FrameOK` is what holds of the locals of the running call
at each of its places: that what was written and what is left are the content,
that the addresses before the present one have refused, that an unlinked name is
the one the call made. `ChannelOK` is what makes a receive right: what is in the
channel ends with the last byte of a message. Assumptions: those named in the
six modules, of which `ThingAssumption` says that -1 stands for nothing.

`Resets` and `recvmsg` give a number to each of a sequence of objects. What they
do for every length is induction over data, and the theorems of the library that
would give it take an operator. `SetInduction` and `Recursion` are the same for a
set and a function instead, from the fact that < is well-founded on the numbers
(`NatLessThanWellFounded` and `WFMin` of the library).

`ShellProofs` proves, for any commands, output paths and outputs, any size of the
pipe and of a read, that `TypeOK`, `OutputIsKept` and `OnlyTheFileIsWritten` are
invariants. The last two speak of the moment when a call is over, so the
invariant has to say what the call has in hand before:

    IInv == TypeOK /\ Shapes /\ UnderWay /\ OutputIsKept /\ OnlyTheFileIsWritten

`UnderWay` says where the output is: all of it in the pipe until `system()`
returns, then in what was read and the pipe, one behind the other, unless a zero
byte has cut a read; and no file differs from what it was when the call began.
That the lines are then the output is `LinesAreText`, about `Cut`: the lines with
their ends, and the rest, are the text. It and what `FlattenSeq` makes of a longer
sequence (`FlattenAppend`) are proved by `SetInduction` and `Recursion`, as in
`LibraryProofs`. Assumptions: the three named in `Shell`, of which
`ProgramsAssumption` says that what a command says is characters, and that it
exits with 0 or 1.

`FsObjectProofs` proves, for any set of paths, any trees on
them in which what is there is in a directory, any links, any bound on links and
renames, and whatever other programs make and delete:

* `TypeOK`, which is inductive: each of the ten operations and each call of
  `FileSystem` leaves a tree in which what is there is in a directory.
* `CreateIsRight` and `LinksAreRight`, of every state of `TypeOK`. The retries of
  `create` and the levels of `makePath` are recursive functions; what they do is
  proved for a fixed bound by `NatLessThanWellFounded` and `WFMin`, as above.
* `RemoveHitsOnlyNamed`, of every state of `TypeOK` too, with no condition on what
  other programs do: `Doomed` names what the words of the path, or the remembered
  real path, let go.
* `MoveKeepsData`, of an object that is there, and `MoveAndCopyKeepData` where in
  addition the landings hold no links (`LandingsHoldNoLinks`). The first condition
  is the question the property asks: with nothing at the path, `m_realPath` may be
  that of an earlier object, and there is no source that the call could be said
  to keep. The second is needed: `cp` puts a link of the source over one at the
  landing, and writes a file through one, which may lead into the source.
* of `FileStream`, without a further hypothesis, `OpensOnlyNamed`,
  `StreamFollowsPath` and `MovedIsComplete`.

The invariant of `FileStream` is

    FileInv == FileTypeOK /\ StreamFollowsPath

where `kept` remembers that the stream was opened by a path that can be walked, of an
object that did not stray. `openInit` opens what `getAbsolutePath` answers, and that
is the path's own file (`AnswersPath`) exactly then: a remembered object of which the
path resolves to nothing must have its directory (`Led`).
The lemmas are in layers: paths and links (`SameFollowed`, `FewerHops`: two trees
that agree on the links of a path follow it alike), then one lemma per call of
`FileSystem`, one per helper of `FsObject` (`Adds`, `Tries`, `Creates`, `Prepares`
say what each does to the tree, the path and the remembered place), then one per
operation, and last the properties.
Assumptions: those named in `FileSystem` and `FsObject`.

Only model-checked: liveness (`AllDelivered`, `AllReturn`, `AllFinish`, `Returns`,
`EveryCallReturns`, `AllStop`), which is beyond this prover, as is everything
about ENABLED.

## 6. Not modelled, and the plan

Not modelled:

* the Android and Windows branches, which are not built here; permissions,
  owners, hard links and full disks, which no decision of the code depends on
  but through a failing call, and calls fail in the models;
* the getters that report `stat` fields, `Path`'s `baseName`, `extension` and
  `driveLetter`, `Realpath`, `GetExecutablePath`, `Basename`, `Dirname`,
  `mapped_file.cpp`, `Fs.cpp`, `sockets.cpp` and `sockets_unix.cpp`: one call of
  the system or a look at a string, without state;
* lengths near 2^32, which wrap on a 32-bit build only, and the `int` size of
  `load_file`, which is wrong for files of 2 GiB and more;
* log functions that log (none here does), and the characters they write;
* the wait for a uevent and the sender's uid; properties, a map without locks and
  without waiting in this build; the string and number functions; the thin
  wrappers of the operating system and the build rules;
* an object used by two threads at once, which none of the classes allows.

Plan: operators for `ParseInt`, `ParseNetAddress` and `Split` against reference
definitions over bounded inputs.

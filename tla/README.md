# A verification of the agent library of mastertest

`src/public` is a library for an agent program on managed machines: a management
server gives it *tasks* (health checks, commands, patches, software), it keeps them in a list
and in a file, carries them out, and fetches what it needs over FTP or BitTorrent. `src/main.cpp`
only shows a window; there are no tests. This directory holds TLA+ models of the parts that
carry state, TLC configurations for them, and proofs for the TLA+ proof system.

The code's comments are Chinese; they are quoted here where a property takes its words from
them.

## 1. Inventory

### Components, state, operations

| Part | Source | State | Operations |
|---|---|---|---|
| `TASKHEAD` | `astTask/astTask.h` 349-470 | fields of a task; `atpr`, a pointer to a counted block with the payload | constructors, copy constructor, destructor, `operator=`, `SetTime` |
| `CTaskList` | `astTask/astTask.cpp` 346-608 | `m_TaskList`, the cursor `m_iCurrent`, the flag `m_bLock` | `AddTask`, `DelTask`, `InvalidTask`, `FindTask`, `FindFirst`, `Copy`, `Begin`, `Next`, `TaskClear`, `Lock`, `UnLock`, `Save`, `Load` |
| task file | `astTask/astTask.cpp` 483-556, 610-785 | a text file, rewritten by every `Save` | `Save`, `SaveTask`, `SaveExamTask`, `Load`, `LoadTask`, `LoadExamTask` |
| `CTaskExam` | `astTask/astTask.cpp` 30-112 | the items of a health check, their scores and percents, a cursor | `InsertItem`, `FinishInit`, `Begin`, `Next` |
| `CTaskSoft`, `CTaskPatch` | `astTask/astTask.cpp` 113-341 | software and patch lists, `m_bSoftLock` | insert, check, delete, `GetNeedKb` |
| `btDownload` | `bt/btDownlaod.cpp` | a libtorrent session, `m_bLock`, `m_nFileSize`, the caller's switch | `DownloadProcess`, `GetBtStatus`, `ReloadTorrent`, `CopyVariable` |
| `ftpClient` | `ftp/ftpclient.cpp` | the control connection, `m_bLogin`, progress, the caller's switch | `login2Server`, `inputUserName`, `inputPassWord`, the plain commands, `Dir`, `Get`, `Put`, `CloseFtp` |
| `CSocket`, `CAstClient` | `zsocket.h`, `astclient.cpp` | a descriptor, its `O_NONBLOCK` flag, a time limit | `connect`, `run`, `runcontinue`, `close`; `build_stream`, `bind`, `setblocking`, `sendv`, `recvv` |
| `astServerCtrl`, `astPackage` | `astPackage/` | the agent's id and key, its address, the registration | `TryConnect`, `GetDevInfo`, `RegAst`, `RegFinish`, `InitReg`, `RegAck`, `LoadConf`, `SaveConf` |
| `ini_parser`, `astConfig` | `rwIni/`, `astconfig.cpp` | ini files | read and rewrite a key |
| `CAstLogOut` | `log/logOut.cpp` | the log file, a flag lock, the size for rotation | `WriteLog`, rotation |
| `dbHandle`, `SQLiteWrapper` | `sqlite3341/` | a database handle, a mutex | query, execute |
| `sm3`, `sm4`, base64 | `sm/`, `base64/` | none | digest, cipher, code |
| machine information, utils, encodings | `cpu/`, `disk/`, `memory/`, `network/`, `system/`, `utils/`, `characterEncode/` | none | read `/proc`, run commands, `iconv` |
| vendored | `json/`, `bt/boost`, `bt/libtorrent`, `sqlite3341/sqlite3*.h` | | |

### How they interact

The owner of the task list (a program that uses the library) receives tasks through `CAstClient`, puts them in with `AddTask`, takes
the first enabled one with `FindFirst`, marks it as running through the pointer it got, stamps it
with `SetTime`, and saves the list. The list is shared by threads; some of its methods take the flag lock, some do not. A copy of a task
(`Copy`, and every move inside the vector) shares the payload block by its count. The downloads run in
threads of their own and are paused and cancelled through a variable whose address
`copyVariable`/`CopyVariable` took: 0 go on, 1 wait, 2 leave.

Before it gets tasks an agent registers: `astServerCtrl` sends two requests through `CAstClient`, `astPackage` checks the answer and
keeps the id and the key, and `SaveConf` puts them into an ini file through `astConfig`. Every part writes to the log with
`CAstLogOut`.

### What is hard here

* Locks that are plain bools, tested and set in two steps, some without a time limit.
* Iterators and cursors kept across changes of a vector.
* A reference count maintained by hand in four special member functions.
* A text file whose reader depends on blanks, truncated before it is rewritten.
* Request and reply over one connection with a one-second wait, where a late or unread reply is
  read by the next request.
* Resuming transfers from the length of what is there.
* Integer percents that must add up to 100.
* An identity made of three values, checked with a MAC, that is kept in memory by several assignments and in a file by several
  rewrites, each of which truncates the file first.
* A socket whose blocking mode is toggled around every call, and an answer read in two parts, by one call or by two.
* A file pointer that is tested, opened and stored before the lock and used behind it.
* Progress that counts bytes before they have been checked.

`PROJECT.json` lists these as *hazards*, each at its line.

## 2. Modules

| Module | Models | Checked by | Proofs |
|---|---|---|---|
| `TaskHead` | the life of task records and their counted blocks | `TaskHead.cfg` | `TaskListProofs` |
| `TaskOps` | the pure list operations (`_AddTask`, `FindTask`, `FindFirst`, invalidation) | through the two below | |
| `TaskList` | the list and its cursor, as one thread sees them | `TaskList.cfg`, `TaskListDup.cfg` | `TaskListProofs` |
| `FlagLock` | `Lock`/`UnLock` from several threads | `FlagLock.cfg`, `FlagLockRace.cfg` | `FlagLockProofs` |
| `ExamPercent`, `ExamScore` | the percents (pure) and the item list with its cursor | `ExamScore.cfg` | `ExamScoreProofs` |
| `TaskFile` | `Save`, a restart or a crash, `Load` | `MCTaskFile` with `TaskFile.cfg`, `TaskFileStamp.cfg` | `TaskFileProofs` |
| `BtDownload` | `DownloadProcess` of several threads in one session | `MCBtDownload` with `BtDownload.cfg`, `BtDownloadCancel.cfg`, `BtDownloadHash.cfg` | `BtDownloadProofs` |
| `FtpClient` | one `ftpClient`, its server and the line between them | `MCFtpClient` with `FtpClient.cfg`, `FtpUpload.cfg` | `FtpClientProofs` |
| `AgentIdentity` | what registration promises (abstract) | as the property `ImplementsIdentity` | |
| `AstRegister` | registration, load, save, crashes, the server's side of it | `MCAstRegister` with `AstRegister.cfg`, `AstRegisterAck.cfg` | `AstRegisterProofs` |
| `AstClient` | `CAstClient` over `CSocket`, and a server | `AstClient.cfg`, `AstClientTimeout.cfg` | `AstRegisterProofs` |
| `IniFile` | reading and rewriting an ini file | `MCIniFile` with `IniFile.cfg`, `IniFilePrefix.cfg` | `IniFileProofs` |
| `LogOut` | writers and rotations of the log, on top of `FlagLock` | `LogOut.cfg` | `FlagLockProofs` |

`AstRegister` is shown to implement `AgentIdentity`. `LogOut` extends `FlagLock`, whose lock it has, and implements it. `TaskList` and `TaskFile` both use `TaskOps`; `ExamScore` and `TaskFile` use `ExamPercent`, so that a loaded check is weighed by the same
`FinishInit`. `TaskHead`, `ExamScore` and `AstClient` have a prefix on the names of their specification (`HeadSpec`, `ExamSpec`, `ClientSpec`), because the
proofs about a task record and a list, about the percents and the file, and about a registration and its connection stand in one module or build on each other. Definitions keep the
names of the C++ members and methods. Definitions introduced as a mutant or
described as a wrong variant next to an action are deliberately wrong versions of it, used
to see that a property notices the difference.

### TaskHead

`atpr[h]` is the block record `h` points to, or `None` when the record does not exist; `heap` is the set of allocated blocks,
`ref` their stored counts. `Construct`, `CopyConstruct`, `Destroy` and `Assign` are the four special
members with all they do (`operator=` first lets go of the old block, deleting it at 0, then shares the
new one). `Assign` has two different records: assigning a record to itself would delete the
block it keeps; nothing in the repository does it.

### TaskList

The vector is a sequence, the cursor an index (`Len + 1` is `end()`). `AddTask` is `_AddTask` with the search that stops at the
first task that has the same tid *or is disabled*, erases it, and appends. `DelTask` erases the first match; an iterator
is an address, so the index stays and means the next task, with the wrap to `begin()` the code does. `MarkTask` stands
for the caller, who writes `invalid` through the pointer `FindTask` or `FindFirst` gave him. The history variables say which version of a task is the newest
and whether something was disabled.

### FlagLock

A thread in `Lock` is at `test`, `set`, `sleep`; the body of the method is the step from `inside` to
`UnLock`. `ret` is what the thread's last `Lock` returned. `overwritten` is a history variable: some `Lock` set a flag that was set already.

### ExamPercent, ExamScore

`FinishInit` truncates each share, raises 0 to 1, and gives or takes the difference from 100 in the order of the
scores. `ExamScore` adds items in any order and walks them with the cursor. All scores 0 is a division 0.0/0.0
whose conversion to `int` is undefined; the result is the value `Undefined`, about which nothing is claimed. A total below 0, which only a damaged file can hold,
is treated in the same way.

### TaskFile

The file is a sequence of lines of words. A word carries what the reader can tell of it: the integer `%d` would read, what it
leaves, whether it passes as a tid. The stdio functions are operators on the unread rest of the file, so the effect of a blank
too many, an empty line, or the end of the file is computed and not assumed. Only health checks are saved by the code. An item is eight lines (`SaveItem`), each read with `fgets` into
`cTmp`, whose last character is then overwritten (`GetLine`, `Trim`). That character is the end of the line, except in three cases: at the end of the file `fgets` leaves `cTmp` as it was, and
it loses one more character with every read; a last line without its newline (`open`) loses a real one; and of a text of 1024 to 2045 characters (kind `long`) `fgets` takes 1023 and leaves the rest for the next field.
`cTmp` is not initialised: `left` is what happens to be in it. When it is empty, the zero goes to `cTmp[-1]`; what it hits there is not modelled. The number of items is
whatever `%d` reads, a year out of a shifted stamp included; nothing bounds it. `CrashInSave` cuts the file at
any line, and inside a line, as buffered output would. `LoadLoop` is the loop of `Load` as a function of its turns; each turn reads at least one word, so twice the number of lines
(`WordsPerLine`) bounds them. `LastOfEach` says what a list must be when a tid was saved twice: the last task of each tid, in their order.

### BtDownload

One thread per download; a step is a stretch of `DownloadProcess` between two accesses to shared
state. libtorrent and the clock (`Tick`) are external and may do what they like. `progress` is what `file_progress` gives without `piece_granularity` (that call is commented out, `btDownlaod.cpp:264`):
bytes that have come (`Transfer`), whether or not their piece has been hashed. `verified` are the ones that passed (`HashPass`, which posts the finished alert for the last of them); a piece that fails takes
the progress back (`HashFail`). So the two ways to a result of 0 mean different things: the size comparison that all bytes have come, the alert that they are good (`ZeroMeansReceived`). A thread in `Lock(0)` that finds the flag set spins: `Spin` models a turn
of it, `Hang` the case that nobody can clear the flag any more.

### FtpClient

A command is sent, then everything that arrives until a second of silence is read. `pending` holds the replies on their way, in order; each read
takes any number `k` of them, and the code looks at the first. Nothing is ever lost from the order unless the connection drops. The server reports the end
of a transfer on the same line (`Report`); `Get` never reads that report, `Put` reads it only at the end of the file. A byte is its place in the file, so
a gap, an overlap or a mix-up is visible. `Get` here is `downLoad64`; `downLoad` is the same with the switch at 0.
`late` is a history variable: some reply came after the second.

### AgentIdentity, AstRegister

An identity is a pair of agent id and key. `AgentIdentity` says what an agent may do with it: the server issues pairs; the running
agent adopts an issued one, loads the one the file holds, or has none after a restart; and while it has one the file may become
unreadable or hold an issued pair. A pair is never mixed from two registrations.

`AstRegister` has the members `m_bInit`, `m_AgentID`, `m_KA`, `m_UUID`, the file's four values, and the place of `RegAst`. One action per stretch between two
calls of the network: `RegAst` (address and first request), `Connect`, `RegFinish` with `InitReg` and the second request, `RegAck`, and
`GiveUp` for every early exit with its return value. `SaveConf` is four rewrites; `OpenFile` truncates, `PutFile` writes or fails, `OpenFails`
does nothing, and nobody looks at the result. `Crash` may come anywhere. `LoadConf` overwrites the id, and then the uuid, before it checks
anything, as the code does. Encryption and MAC are symbolic: a ciphertext is the key with the id it is under, a MAC what it covers.
`RegAck` has no statement, so its value is a free choice. The refinement maps the identity in memory to "none" while `m_bInit` is set and the one on disk to what `LoadConf`
would accept.

The caller's discipline is an assumption: the callers are not in the repository. `LoadConf` is called while there is no identity and `SaveConf` when there is one; the guards on `m_bInit` say
so, and neither function looks at it. A `LoadConf` over a live identity that fails would leave the id of the file beside the key in memory.

`m_UUID` is 64 bytes that the constructor does not set. `SaveConf` writes, hashes and encrypts under all of them up to a 0, `LoadConf` takes the first 40 characters of the line it finds. `ReadBack` is the result of that, for
every uuid: itself when it is a line of at most 40 characters, something shorter, or nothing (`Uuid` applies it in the checks of `LoadConf`). `MemoryIsIssued`, `FileIsIssued` and the refinement hold whatever it is;
`SaveThenLoad` has the premise that the uuid of the moment is read back as it was written, which nothing in the code ensures.

Data in the model, and not bytes: `aid`, `ka` and `mka` are adopted as they were sent, while `RegFinish` copies them without a terminator into buffers that are not initialised (`astserverctrl.cpp:370-379`) and `InitReg` takes
their `strlen` (`astpackage.cpp:413-428`). The length `m_nAidLen` is left out; `InitReg` does not set it, so that `ToAgentID` (`astpackage.cpp:386-396`) may put an empty id into the second request. No
property is about the id in that request.

### AstClient

Followed are the descriptors of the process and the socket's flag. `SetBlocking` is the code's expression: 1 makes the socket blocking, 0
non-blocking, and -1 turns it over. `ConnectBound` is `connect(true)`: it makes a descriptor, `bindClientIP` makes another over it. An answer is
one part of head and up to `BodyLen` of the rest, as many as the head says (`nLen`); the server sends and closes when it likes, `recv` takes any number of what is there. Every exit of `run` is there: -3 when the request does not go out, -1 when
the caller has no room for a head, -6 without a head, -4 when the rest fails, also when there is none (`recvv` of 0 bytes returns 0, which `run` takes for a failure), the length when the
buffer is too small (`at` = `more`, for `runcontinue`). An error without a limit goes through `ERR_RET` and turns the flag over (`OnReset`). Lengths below 8, which would make the second `recvv` ask for a negative number, are left out.

With a limit the socket blocks, so a timed call ends by an answer or a close only (`AstClientTimeout.cfg`). Without one each `sendv` and `recvv` turns the flag over: the request goes out in non-blocking mode, the head is read in blocking mode, the rest
is not. `HeadIsAwaited` is about that: before the head `run` gives up only when the server has closed; behind it, it may give up an answer that is on its way.

### IniFile

A file is a sequence of lines. `parse_file` compares over the length of the name in the file, so a name in the file matches every
name it begins; which names begin which is the parameter `ProperPrefixes`. The operators give where the code finds a key, where a
section ends for it, and what the rewritten file is. Every file of up to `InitialLines` lines is a start, with or without a newline at its end (`noeol`).

A new key is printed behind its header, and behind it the rest of the file, as the *format* of a `sprintf` (`ini_parser.cpp:290`, `astconfig.cpp:311`). What becomes of a value with a `%` in it (`Percents`) is a free choice (`Expansions`), a comment with one is spoiled; the model has them
stay on their line and behind their key. When the header is the last line and has no newline, the pair comes onto the header's line (`Joined`), where `parse_file` still finds it. That the text fits the 16 KB of `w_buf` is assumed.

### LogOut

`CAstLogOut` has the lock of `CTaskList` with another number of tries, so the module extends `FlagLock`: `Call`, the tests, `SetFlag`, `Sleep` and `UnLock`
are taken from there. A writer tests `m_fp` (`Enter`) and, when it is NULL, stores what `fopen` gives it (`OpenFile`) and tests again (`Check`), all without the flag: other writers come in between, two may open the file one after
the other (one `FILE` is lost), and an `fopen` that fails stores NULL over a file somebody else has opened meanwhile. Then it takes the flag (`Wait`, `Acquire`), and goes through the places `at[t]` between `Lock` and `UnLock`: it writes,
rotates, unlocks. `m_fp` is `closed` between `fclose` and the next `fopen`: not NULL, and not
to be used. `misused` records an `fseek`, `fprintf` or `fclose` on a file that is not open, `failed` that a failing `fopen`, in a rotation or in a late writer, took a file away from `m_fp`.

## 3. Runs

| Run | Asks | Answer |
|---|---|---|
| `task_head` | is the count exact, does anything dangle or leak, for any mix of operations on four records and four blocks? | holds |
| `task_list` | one task per tid and `FindTask` the newest as long as nothing was disabled; an update costs no enabled task of another tid; deletion under the cursor moves on to the next | holds |
| `flag_lock` | is the flag ever left set with nobody inside; is exclusion lost in any other way than by overwriting; does every call return? | holds |
| `exam_score` | percents add up to 100 and stay within two points of the exact share; a walk gives each item once | holds |
| `task_file` | a restart gives back what was saved; after a crash at any character of `Save` the tasks whose last line was written come back as they were, and one damaged task at most follows | holds for tasks that never ran, with a named first item and texts that fit `cTmp` |
| `bt_download` | a result of 0 means that every byte of the file has come, and by an alert that all are hash-checked; a failed download is gone from the session; the flag is free unless somebody cancelled; calls return | holds for calls one after the other |
| `ftp` | fetched files are always a beginning of the server's; stored ones too unless a reply was late; full progress is true; calls return | holds |
| `ftp_upload` | an upload resumes ("支持断点传送方式") | **violated**: the unread report of a broken transfer is taken for the answer to `SIZE`, so `STOR` starts from nothing |
| `register` | is the pair in memory, and the pair the file would load as, one the server issued, through crashes and failed writes; does a failed registration keep the identity; does a save without errors load again, under a uuid that is read back as written; is the reported address the connection's; is `AgentIdentity` implemented? | holds |
| `client` | does 0 mean a whole answer; does an untimed call give up the head only when the server has closed; is at most one descriptor lost per `connect(true)` and none otherwise; does every call return with a server that answers or closes? | holds |
| `ini` | does a write change the value of its own section and key and no other; which lines does a rewrite lose or change? | the first holds when no name begins another and, for a new key, no value behind the header has a `%`; none is lost, and only lines with a `%` and a last header without a newline are changed |
| `log` | is a file that is not open used only after a race in `Lock` or an `fopen` that failed and took an open file away; is the flag ever left set; do writers return? | holds |

The type invariants of `TaskList` and `AstRegister` are checked in their runs and proved; those of `TaskHead`, `FlagLock`, `LogOut`, `AstClient`, `FtpClient` and
`IniFile`, `ExamScore` and `TaskFile` are proved, most as part of an inductive invariant. `AddKeepsOthers` compares the two lists by an order-preserving map between the
places of the wanted tasks (`SameTasks`), `RewriteKeepsLines` line by line (the same line; the written pair with another value; a line with a `%` that `sprintf` spoils, `Spoils`; a joined header). `CrashDamagesOne` ties what is loaded to the place of the cut: `WrittenBefore(w)` counts the whole lines on disk against those of the first `w` tasks.

### Bounds and why they are enough

* `TaskHead`: four records, four blocks. The largest situation of any action involves two records and two
  blocks; a third and fourth give sharing before and after. The proof removes the bound.
* `TaskList`: two tids, two types, two stamps, three places (`MaxTasks`). Duplicates, a disabled task in front of another, and a deletion at
  the front, the middle and the end all occur. The proofs remove the bound.
* `FlagLock`: three threads, `Lock` with two tries in the place of 60: the first try, a later one and giving up all occur.
* `ExamScore`: up to five items with scores from {0, 1, 7, 300}: shares that truncate to 0, ties, and differences in both directions of more
  than one item. The proofs remove the bound.
* `TaskFile`: two tids, two tasks, up to two items each: full, nameless, and too long for `cTmp`; the cut file ends in each field of each of the tasks. A year of 3 and tids from 12 on (`TenDigits`) stand for the real ones, so that a
  shifted stamp can be read as a number of items and a time as a tid in a file TLC can hold. The constraint `MCInPlace` stops behind a `Load` whose lines were not in place; each such file is still loaded and checked. The tids are symmetric. 353,677 states. The proofs remove the bounds.
* `BtDownload`: files of one and two blocks, limits of one and two seconds, so that each limit passes before and after
  completion.
* `FtpClient`: one file each way of two bytes, so that a transfer can break before, in the middle of and after a file;
  `MaxPending` = 2 leaves one late reply in front of a command and a report behind it. With 3 the same
  properties hold (checked once, with a larger state space). The proofs remove the bounds on files, sizes and replies.
* `AstRegister`: two ids with two keys, all pairs of which could be mixed; three uuids, one of which is read back as another; two addresses. Two registrations with a save after
  each are what a mixture needs. The proofs remove the bound.
* `AstClient`: four descriptors, so that the second `connect(true)` meets the limit in its first or in its second step; a rest of none to three
  parts; with and without a limit. The proofs remove the bound.
* `IniFile`: every file of three lines over two sections, two keys, a value with and one without a `%`, a blank, a comment with and one without, with and without a last newline: repeated sections, pairs before any
  section, an absent section or key. Writing goes on from there. The proofs remove the bound.
* `LogOut`: three threads, two turns of `Lock`, rotation after two lines: one thread rotates while another has passed its test and a third waits. The proof removes the bounds.

### Fairness

`FlagLock` and `BtDownload` have weak fairness for the steps of each thread: the operating system runs it. Calling a
method is not fair, and nobody owes a download a peer, a block, or the user's permission. In `FtpClient` the
steps inside a call are fair as a whole: every wait in the code is a `select` of one second (20 for
`Connect`), after which the call goes on without an answer. The pauses by the caller's switch are excluded in the premise of `CallsReturn`,
because the code does wait for as long as the caller wants.

In `AstClient` the client's steps are fair (the process runs); `FairSpec` adds a server that goes on sending what it owes, and `RunReturns` is stated for
it. Nothing is assumed of the server in `ClientFair`, which `AstClientTimeout.cfg` uses. In `LogOut` the steps of each writer are fair; opening the
file may fail for ever.

### Assumptions that matter

* `RestHonoured`: the reply to `REST` is read and not looked at (`ftpclient.cpp:1099`, "350"). With a server that refuses it the whole
  file is appended to what is there; `LocalIsPrefix` is about servers that obey.
* `late`: when a reply was later than a second, a stale 213 may be taken for the length of another file, and an
  upload may append at the wrong place; `RemoteIsPrefix` and `ProgressIsTrue` are about the time before.
* `Overlap` = FALSE in `BtDownload.cfg`: `m_nFileSize` is shared by all calls. With TRUE, TLC finds a call that returns 0 before its file
  has come.
* `FilesAssumption`: a file is fetched or stored, not both.
* `ProperPrefixes` = {} in `IniFile.cfg`, and `PrefixFree` in `WritesAreExact`: no section or key of a file begins another one, which is so for the names
  this library uses together (`agentid`, `uuid`, `ka`, `mac` in `SECRETKEY`). `RewritesKeepLines` does not need it. `WriteIsExact` for a new key also has it that no value behind the header holds a `%` (`Marks`).
* `AbsentAssumption` in `AstRegister`: the value for "nothing" is no file, no field and no ciphertext or MAC; it is a matter of the model and not of the code.
* `ScoresAssumption`: a score is a natural number ("权重分数", a weight). `MaxItemsAssumption` and `NumbersAssumption` only say that a bound is a natural number, and that types, times, hours and the year are integers.
* `RoundTrip` and `CrashDamagesOne` are about tasks that `SetTime` has not stamped, whose first item has a name and whose texts have less than 1024 characters; without the first `TaskFileStamp.cfg` has a
  counterexample, and without the second `"%d\n"` in front of the first name skips an empty line.
* `ReadBack[m_UUID] = m_UUID` in `SaveThenLoad`: see `AstRegister` above.
* `AstClient`: a request (at most 1024 bytes) fits the send buffer of a fresh connection.

## 4. Proofs

| Theorem | Module | For |
|---|---|---|
| `CountIsExact`, `NeverDangling`, `NeverLeaked` | `TaskListProofs` | any finite set of records, any set of blocks |
| `TypeCorrect`, `TidsUnique`, `FindTaskIsNewest`, `UpdatesKeepOtherTasks`, `DeletionLoopMovesOn` | `TaskListProofs` | any tids, lists of any length |
| `ExamTypes`, `PercentsSumTo100`, `PercentsKeepWeights`, `WalksGiveEveryItem` | `ExamScoreProofs` | any weights, any number of items |
| `FileTypes`, `SavedTasksComeBack`, `CrashLosesLittle` | `TaskFileProofs` | any tids, names, weights, times, any number of tasks and items |
| `NeverOrphaned`, `ExclusionLostOnlyByOverwriting` | `FlagLockProofs` | any threads, any timeout, 0 included |
| `MisuseOnlyWithCause`, `LogNeverOrphaned` | `FlagLockProofs` | `LogOut`: any threads, turns of `Lock`, size |
| `TypeCorrect` | `FtpClientProofs` | any number and size of files |
| `ResumingIsSafe` | `FtpClientProofs` | any number and size of files, any number of late replies, a server that obeys `REST` |
| `UploadIsSafe`, `ProgressIsHonest` | `FtpClientProofs` | any number and size of files, until a reply is late; the second with a server that obeys `REST` |
| `TypeCorrect`, `AgentUsesIssuedPair`, `FileHoldsIssuedPair`, `SecondRequestNamesSource`, `FailureIsHarmless`, `SavedIsLoadable`, `Implementation` | `AstRegisterProofs` | any pairs, uuids, addresses |
| `ClientTypes`, `AnswersAreWhole`, `UntimedHeadIsAwaited`, `OneDescriptorPerBind` | `AstRegisterProofs` | any number of descriptors, length of the answer, limits |
| `FlagReleased`, `NothingLeftBehind`, `ZeroIsReceived` | `BtDownloadProofs` | any downloads, sizes, limits; the last for calls one after the other |
| `TypeCorrect`, `RewritesKeepLines` | `IniFileProofs` | any names, files of any length |
| `WritesAreExact` | `IniFileProofs` | the same, where no name begins another; a new key where no value behind its header has a `%` |

**TaskHead.** `HeadIInv` is the type invariant with all three properties: the count is exact, so a count that reaches 0 means no owner, so
deleting leaves nothing dangling; and a block is deleted at 0, so each one has an owner, so none leaks. None of the
three is inductive alone. The steps count owners with `Cardinality` of a set with one element added or removed.

**TaskList.** The invariant says that a tid occurs once and that the listed task is its newest version as long as nothing was disabled. Then the
first clash `_AddTask` finds is the only task of that tid, erasing it leaves the others in their order,
and the new one goes to the end. Lemmas describe the sequence with one element removed by its indices. The two action properties need of the
invariant only the types: whatever is disabled or doubled, `_AddTask` appends, or erases one task that clashes and appends (`AddTaskErases`), and neither moves the wanted tasks of other tids past each
other; `SameTasks` is shown with the map that shifts the places behind the erased one.

**ExamScore.** A percent is a share plus or minus one, and the shares are summed with a fold. The prover has no induction it can apply, so a statement about the sums of the first `k` numbers is proved
by contradiction from the least `k` that violates it (`LeastElement`, `Reaches`); a set of naturals has a least element by the library's well-foundedness theorem. From there sums are linear
and monotone (`TotalLinear`, `TotalMonotone`), and a sum of marks 0 and 1 counts the marked places (`TotalMarks`). Truncation takes less than a point off a share and raising 0 to 1 adds at most one; the exact shares add up to 100. So the shares of `n` items exceed 100 by at most
`n`, and fall short of it by at most the number of items that have a weight (`PadBound`): the loop over `vmax` never runs out of items. Ranks number the items from 0 to `n - 1` without a gap (`RankBelow`), so exactly `|nPad|` items are moved, all by one and in the same
direction (`PercentsAdd`). Items with a weight rank first, so one of score 0, which was raised to 1, is never raised again, and each percent ends less than two points from the exact share (`PercentNear`). For a walk, the items given so far are those up to the cursor (`WalkSoFar`).

**TaskFile.** `FileInv` has the types, what the file is (`Image(saved)`, or that text cut somewhere, `CutAt`) and the two properties, which `Load` establishes. The loops of `Load`, `LoadExamTask` and `FlattenSeq` are recursive functions; `Turns` and
`Rests` give their states one by one, again by the least turn that would go wrong. A stream is *solid* when it begins with a word. In front of a solid stream the blanks `fscanf` skips are the ones it should, so each reader takes the line its writer wrote
(`LoadTaskWhole`, and for the eight lines of each item `ItemsRead`), and `FinishInit` finds the percents it made itself (`FinishInitKeeps`: it looks only at the scores). The premises, no stamp, no nameless first item, no text that does not fit, are exactly what keeps every place solid and every line in one piece. For a whole file the list
after `k` turns is the last task of each tid among the first `k` (`NewestAt`, `LoadWhole`). For a cut file each reader leaves a cut of what it should leave, or the end (`ScanDCut`, `ScanSCut`, `CutBody`); the tasks before the cut are read as above (`WholeTurn`), the task
that is cut takes all that is left, whatever `cTmp` makes of it (`LoadTaskCut`, `DamagedTurn`), and the next turn ends the loop (`LoadCut`). The number of lines is carried along (`Going`): the lines on disk and those still due tell how many tasks
the file holds whole (`PrefixLines`, `WrittenIs`), and that is the number of tasks that come back.

The attempt to prove `CrashDamagesOne` corrected it. It used to say that what is loaded in front of the damaged task is just what was saved in front of it, which holds for two tasks and was checked for two. With three it is false: a crash may cut a tid so that it still passes `checkTid`, and when the
previous crash left another task with that same shortened tid, the damaged task replaces it as an update would. The property now names this case, and is proved for any number of tasks.

**FlagLock.** `LoopBound` (a thread in the loop has tries left) and `SleepBound` (`Lock(0)` never sleeps) are needed for the
types; `FlagHeld` and `ExclusiveUnlessOverwritten` then hold together: a second thread can only be inside after a `SetFlag` on a
set flag, which is what `overwritten` records. `LockStep` shows this of each step of the lock, so that `LogOut` can use it.

**FtpClient.** What makes resuming safe is a chain: `nSize` is the length of what is here until `RETR`; after `REST` the server's place is `nSize`; during the
transfer it is the end of what is here (`Getting`). So each byte that is appended is the next one, whatever replies were mixed up meanwhile, because
nothing of the chain depends on a reply: the client measures its own file and the server obeys the commands in order. `Sound` says
byte by byte that the file is a beginning, from which the prefix follows.

The other direction does depend on a reply, the 213 with the length of what is there. `JInv` is the type invariant with `Measured` (what a call knows late replies or not: `REST` is sent the length here, the progress counts
it, `fseek` is never given a negative place, and the report of an open transfer has room), `Sources` (neither side changes the file it sends), and, until a reply is late, `Prompt`: no 213 is on its way between two commands (`NoSizes`), so the one
that is read after `SIZE` is the answer to this `SIZE`; the place where `STOR` or `APPE` goes on is then the end of what is there, and the size that
`Get` compares its progress with is the file's. Each command is shown once to leave the line as it should be (`LineStep`), and each action to keep `JInv` from that.

**AstRegister.** That the file never loads as a mixed pair needs more than the two properties: each MAC, in the file or in the text about to be
written, covers a pair that was issued as a pair (`MacIssued`); a save only runs with an issued pair in memory; and an answer with a pair
carries an issued one. `LoadConf` accepts only when the MAC covers the other three values, so what it accepts
was issued. The refinement then has one step per action: most are stutters of `AgentIdentity`, `InitReg` is `Adopt`, a rewrite is `Save`, `Grant` is `Issue`.
The address is an invariant of its own (`AddressKnown`: it is the connection's from the moment the first request waits for its answer). That a failed
registration is harmless is an action property with nothing to strengthen: up to the answer to the first request only `RegFinish` assigns the identity, and only when its checks succeed. For the save, `SavedSoFar` says of a save in which nothing failed that the fields written so far, in the file or in the
text about to be written, hold what is in memory (`Written`); at the last field that is all four, with a MAC that fits them.

**AstClient.** `Parts` (what was read, waits and is owed is at most one answer), `Calls` (a call holds a descriptor; a connection that has not been used has nothing in
it) and `Flag` (without a limit the socket blocks between connections and calls, does not while the request goes out, and blocks again for the head) are the strengthening. For the descriptors the two calls of
`build_stream` are compared with the limit in every case.

**LogOut.** The invariant of the lock, which each step of the log keeps because it is a step of the lock or leaves it alone (`LogUsesLock`); `PlacesInside`: a thread is at a place behind `Lock` exactly
while it is inside the lock, and outside it while it opens the file; and `FileState`: a closed file belongs to the thread that is about to open the next, and a thread that is
past its test never sees NULL, as long as no flag was overwritten and no failed `fopen` took a file away. A late `fopen` that succeeds stores an open file over an open or closed one, which harms nobody who writes. A thread that writes is then alone, so the file is open.

**BtDownload.** `LockReleased` is inductive with the shape of `pc`. For `ZeroIsReceived` the member `m_nFileSize` is the size of the call that runs, and an
alert found in a call is about its own download and was posted when all of it was verified (`OwnAlert`); both need that calls do not overlap. `InOrder` (verified is at most progress, at most the size) keeps what is verified through failing pieces.

**IniFile.** What is read depends on the first pair that is hit, and a hit on the last header in front of it, so the proof is about places. `Grown(f, g, up)` says that `g` has the lines of `f` in
their order, line `i` at `up[i]`, and new headers only behind them all. Then every old line is in the section it was in
(`HeaderMoves`), is hit by what hit it (`OldHits`), and the first hit stays the first (`HitsMove`). A new section at the end and a new key behind a header
(`SectionAtEnd`, `InsertAtShifts`, `SectionEndPlace`) are two such files with one new pair (`OnePair`), which is all that is new to a reader (`OnePairMore`); a
value in place leaves every place alone (`ValueInPlace`). What `sprintf` prints of the rest is a file with the same headers and keys (`Alike`, `FormattedLines`), and the same values when none has a `%`. Without `PrefixFree` the statement is false, which `IniFilePrefix.cfg` shows. The same descriptions of the three texts give `RewritesKeepLines`.

Only model-checked: all liveness (`CallsReturn` of the lock, the downloads and the FTP client, `WritesReturn` of the log, `RunReturns`), which needs fairness. Every invariant and every action property that a run
checks is also proved.

## 5. Findings

The run marked **violated** above, in `PROJECT.json` under *findings*. The following configurations each check one more sentence of the code's
comments and names, and TLC gives a counterexample for each:

| Configuration (module) | Sentence | What the code does |
|---|---|---|
| `TaskListDup.cfg` (`TaskList`) | one task per tid: "清除任务invalid为1的任务或者已存在的任务", "删除原来的，更新新任务" (`astTask.cpp:571`, `573`) | `_AddTask` stops at the first task that has the tid *or is disabled*: a disabled task in front is erased in place of the outdated version |
| `FlagLockRace.cfg` (`FlagLock`) | mutual exclusion: "多线程对此队列的操作" (`astTask.h:503`) | test and set are two steps (`astTask.cpp:595`) |
| `TaskFileStamp.cfg` (`MCTaskFile`) | "YYYY-MM-DD-hh-mm-ss" (`astTask.h:356`) | `SetTime` writes a blank, `LoadTask` reads one word: the fields behind it shift |
| `BtDownloadCancel.cfg` (`MCBtDownload`) | "获取下载过程信息解锁" (`btDownlaod.cpp:388`) | the cancel branch leaves between `Lock` and `unLock` (line 317): the next poll spins for ever |
| `BtDownloadHash.cfg` (`MCBtDownload`) | "判断文件是否下载完成", "下载已完成" (`btDownlaod.cpp:267`, `270`) | `file_progress` counts bytes whose piece has not been hashed: 0 is returned for a file that may still lose a piece |
| `AstRegisterAck.cfg` (`MCAstRegister`) | "完成应答处理" (`astserverctrl.cpp:394`) | `RegAck` has no statement: 0 may be returned for a refused agent |
| `AstClientTimeout.cfg` (`AstClient`) | `timeout_ms` (`zsocket.h:557`), "nTimeout = 30000" (`define.h:97`) | with a limit the socket is made blocking (line 522), so the `select` that would apply the limit is never reached: `recv` waits for ever |
| `IniFilePrefix.cfg` (`MCIniFile`) | "key [in] name of the key pairs to value" (`ini_parser.cpp:161`) | `strncmp` over the length of the key in the file (line 124): `ip` is found for `ipmask` |

Seen while reading, and not the subject of a configuration:

* `DelTask` announces that the cursor moves to the next task (line 407), the statement for it is commented out (line 428); it is true
  only of a deletion at the cursor (`DelCurrentMovesOn`).
* "如果0分就设成1分" (`astTask.cpp:58`) is undone for some items by the correction that follows.
* The `Lock` of the list speaks of 50 ms and sleeps seconds (`astTask.cpp:487`).
* A failed `Connect` leaves a closed descriptor in `m_cmdSocket` (`ftpclient.cpp:699`).
* `m_bSoftLock` is never initialised (`astTask.h:148`, `165`).
* Assigning a task record to itself would delete the block it keeps (`astTask.h:435`); nobody does.
* `downLoad` and `downLoad64` do not close `data_fd` on their early returns (`ftpclient.cpp:1091`).
* `GetData` writes its terminator one behind the message (`astpackage.cpp:222`).
* `LoadExamTask` writes to `cTmp[-1]` when a line is empty at the end of a cut file (`astTask.cpp:757`).
* `ReportedIpIsSource` is about the first connection of a registration; the second may come from another address than the one its request names (`astserverctrl.cpp:237`).
* `RegFinish` copies strings without a terminator, and `m_nAidLen` is not set by `InitReg` (see `AstRegister` above).
* The second request of `RegAst` is copied over the first without clearing the buffer (`astserverctrl.cpp:243`).
* `WriteLog`, `WriteHexLog` and `dbHandle::GetCurrentTime` return no value on their normal path.

## 6. Not modelled

The repository has some 2.9 million lines; all but about ten thousand are vendored headers (boost, libtorrent, sqlite, JsonCpp).
Of its own code the following is left out:

* the list operations of `CTaskSoft` and `CTaskPatch` (`astTask.cpp` 126-341): loops over a vector by name or KB number, complete under a lock
  that is `FlagLock` with `timeouts` = 0; `SaveFile` and `LoadFile` are declared and not written;
* the byte layout of a package (`PutData`, `GetData`): lengths and offsets without state of their own, with the ciphers in between;
* `sm3`, `sm4`, base64: 32-bit arithmetic over inputs that no model checker covers, with published test vectors;
* `dbHandle`, `SQLiteWrapper`: each method is one call of pthread or SQLite, and nothing calls them;
* machine information, `utils`, `characterEncode`: input without state;
* speed limits (they only delay), rates and settings of libtorrent, `LoadSession` and `SaveSession` (not called);
* `RetryRegAst`, `ReportTaskRecv`, `SendExit`: declared, with empty bodies;
* the count of `TASKHEAD` between threads: `ref++` and `ref--` are plain increments without a lock, so nothing could be shown to hold.

Worth adding: `IniFile` composed with `AstRegister`, so that a crash in `SaveConf` is seen in the other sections of the file.

# TecnicoFS: models, checks and proofs

The repository holds three successive versions of TecnicoFS, a toy file system:

* **ex1** – a batch program: the commands of an input file are loaded into an
  array and executed by worker threads over one search tree.
* **ex2** – a pipeline: a reader thread feeds a ring of commands, workers take
  commands from it and execute them over hash buckets of search trees, one lock
  per bucket.
* **ex3** – a server: clients connect to a socket; one thread per session
  executes their requests (create, delete, rename, open, close, read, write) on
  a directory and a table of i-nodes.

The three share the search tree (`lib/bst.c`) and the hash (`lib/hash.c`), which
are the same files in each. This directory models them in TLA+, checks small
instances with TLC and proves theorems for all instances with TLAPS.

## 1. Inventory

| Component | State | Operations | Hard parts | What makes it correct |
|---|---|---|---|---|
| ex3 i-node table (`ex3/server/lib/inodes.c`) | `inode_table[50]`, `inode_table_lock` | `inode_create`, `inode_delete`, `inode_get`, `inode_set`, init, destroy | entries freed and reused; dangling content pointer after a delete; guard `inumber > SIZE` admits one entry too many | no entry in use points to freed content; of the numbers off the table only the one past the end is ever let through |
| ex3 request handlers (`ex3/server/main.c:92-409`) | directory `fs`, lock `locker`, one `files` table and stack per session | `createFile` … `writeFile`, dispatched by `treatClient` | check and use are never in one critical section; two handlers look names up without the lock; error paths | permission is held when it is used; names are not rebound; one i-node per name; every request answered |
| ex3 server lifecycle (`main.c:76-90`, `294-312`, `411-468`) | `counter`, `tid[]`, `Args[]`, `flag`, listening socket | `createSocket`, `treatConnection`, `treatSignal`, `endProgram`, `main` | SIGINT at any moment; shutdown while sessions run; limit of 10 sessions | nothing is freed while a thread uses it; shutdown ends |
| ex3 client library (`ex3/client/`) | `clientSocket` | `tfsMount` … `tfsUnmount` | request/reply framing on a stream; replies dropped | the caller gets the server's answer to its own request |
| ex2 pipeline (`ex2/main.c`) | ring `inputCommands[10]`, `headQueue`, `numberCommands`, two semaphores, `commandsLocker` | `insertCommand`, `removeCommand`, `processInput`, `applyCommands` | poison command put back at the head; a slot read after it was released; termination | no command lost, duplicated or torn; every run completes |
| ex2 directory (`ex2/fs.c`, `commandRename`) | `vector[]` of trees, `vecLock[]`, `nextINumber` | create, delete, lookup, rename under bucket locks | two locks taken by a rename | no deadlock; rename atomic; i-numbers unique |
| ex1 batch (`ex1/main.c`) | `inputCommands`, `numberCommands`, `headQueue`, `locker1`, `locker2` | `processInput`, `applyCommands` | unlocked test of the counter; early `continue` with a lock held | each command executed once; termination |
| search tree (`lib/bst.c`) | nodes | `insert`, `remove_item`, `search` | relinking on removal; unlocked readers in ex3 | represents the map of its insertions |
| hash (`lib/hash.c`) | – | `hash` | sign of the remainder | a bucket that exists |

Interactions: a client call is one message to the server and one reply (two for
a read). The threads of the sessions share only `fs` (and its lock `locker`) and
`inode_table` (and its mutex); `files` belongs to one thread. The i-node
operations never call back and touch nothing else, so they are single steps. The
directory operations `create` and `delete` run under `locker`, `lookup` runs
under it in `deleteFile` and `renameFile` and without it in `createFile` and
`openFile`.

`main` starts the threads of the sessions and meets them again only when a SIGINT makes
it join them; without one it frees `fs` and `inode_table` whether they run or not. In
ex1 and ex2 `main` joins the workers first; they share the queue under one lock and the
trees under another.

The hazards that follow from this are listed in `PROJECT.json`, each at its
line, with the property that would catch it.

## 2. Modules

| Module | Models | State and actions |
|---|---|---|
| `Inodes` | `inodes.c` | `inode_table`; `inode_create`, `inode_delete`, `inode_set` are operators that an action uses as conjuncts; `Valid` is the guard they share with `inode_get`, which only reads; `PASTEND`, `Rejected`, `Beyond` and `Admitted` say what it does with the number past the end |
| `TecnicoFS` | the handlers and `treatClient` of `ex3/server/main.c` over `Inodes` | `fs`, `locker`, `files` and, per thread, `pc`, `req` (the locals filled by `sscanf`) and `iNumber`; one action per stretch of a handler between two accesses to state that other threads can see |
| `FileSystem` | the abstract specification | `file`: names to files; `user`: whom the request in progress is for; `Begin`, and `End` with at most one of `Create`, `Delete`, `Rename`, `Write` |
| `TecnicoFSFiles` | – | the files that the directory and the i-nodes stand for: the refinement mapping to `FileSystem` |
| `MCTecnicoFS` | – | instances: users and requests |
| `TecnicoFSProofs` | – | theorems about `TecnicoFS`, however requests overlap |
| `TecnicoFSSerialProofs` | – | theorems about requests that do not overlap |
| `TecnicoFSRefinementProofs` | – | the refinement of `FileSystem` |
| `CommandQueue` | the reader, the ring and the workers of `ex2/main.c` | the ring (`inputCommands`, `numberCommands`, `headQueue`), the semaphores, where the reader and each worker are, what each worker has parsed and from which slot |
| `Dispatch` | the abstract specification of the pipeline | how many commands are given, what each worker is doing; `Give`, `Finish`, `Stop` |
| `MCCommandQueue` | – | instances: input files |
| `CommandQueueProofs` | – | theorems about `CommandQueue`, for every input, number of workers and ring |
| `Buckets` | what the workers of `ex2/main.c` do to the directory (`ex2/fs.c`) | `vector` (the trees), `vecLock`, `nextINumber`; per worker `pc`, `iNumber`, `searchResult` and what it printed; one action per command, and for a rename one per change of the trees; `LockBucket` for every lock |
| `Directory` | the abstract specification of the workers | the names, the i-numbers given out, what was printed; `Take`, `Apply`, `Stop`, in step with a `Dispatch` |
| `MCBuckets` | – | instance: an input file |
| `BucketsProofs` | – | theorems about `Buckets`, for every input, number of workers, names, buckets and hash |
| `Hash` | `lib/hash.c` | `HashOf`, an operator; the instance of `Buckets` uses it |
| `Server` | the life of the ex3 server (`main`, `treatConnection`, `treatSignal`, `endProgram`) | where `main` is, `counter`, `flag`, how far the handler of SIGINT is (`joining`), what it freed (`ended`, `closed`), and the threads as running or returned; one action per stretch of `main` between two places where a signal makes a difference |
| `ClientApi` | a session on the wire: the client library (`tecnicofs-client-api.c`) and the loop of `treatClient` that answers it | per client: what it is doing, its request, the messages in both directions, what the server has yet to send; `Mount`, `Call`, `ReadReply`, `ReadData`, `Unmount` and `Die` of the client, `Reply`, `SendData`, `Leave` and `Fatal` of its thread |
| `Sessions` | `Server` and `ClientApi` composed | which connections were accepted; every step is one of `Server`, one of `ClientApi`, or one of each (accepting, returning, killing the process) |
| `MCSessions` | – | instance: the requests |
| `SessionsProofs` | – | theorems about the end of the server and about the calls, for any number of sessions, signals and requests |
| `Batch` | ex1: `processInput`, `applyCommands`, `applyThread`, `main` | the array (`inputCommands`, `numberCommands`, `headQueue`), `locker1`, where main and each worker are, the directory; one action per line loaded and per critical section of a worker |
| `MCBatch` | – | instances: input files |
| `BatchProofs` | – | theorems about `Batch`, for every input, array and number of workers |
| `Bst` | `lib/bst.c` | the links of the tree; `Insert` is one step, `remove_item` one per store (`Free`, `Store`, `Relink`), a search without the lock one per node (`Start`, `Step`); a history variable holds the map the operations add up to |
| `BstProofs` | – | theorems about `Bst`, for every set of names |

`pc` carries the name of the handler's step: `"read"` is the thread in `read()`,
the one-letter labels are a request that has just been read (the token of the
protocol), `"create_lock"`, `"delete_lock"` and `"rename_lock"` wait for
`locker`, `"create_insert"`, `"delete_remove"` and `"rename_move"` hold it,
`"gone"` is a thread that has returned. A handler is cut before every lookup,
lock, i-node operation and directory change. Computation on locals and the reply
are part of the step that decides them: `sent` holds the replies of the last
step, for the properties to speak of.

Cuts that need an argument:

* `deleteFile` and `renameFile` take `locker` only to look names up. The step
  `DeleteLookup` (`RenameLookup`) is enabled when the lock is free and is
  LOCK, lookup, UNLOCK at once: nothing else runs in that critical section but
  unlocked lookups, which change nothing.
* The changes to the directory are separate from the acquisition of the lock
  (`AcquireLock`), because an unlocked lookup may run in between, when the tree
  is being changed. `RacyLookup` says what such a lookup may return: against an
  insertion, the tree before or after it; against `remove_item`, which frees the
  node before it unlinks it, also a miss, or the i-number field of a node that
  was freed and reused (any int: the numbers of the table, `PASTEND`, which is
  the one past its end that the guards admit, or `OFFTABLE`, which stands for all
  others), or a crash (`LookupCrash`).
* Entry `INODE_TABLE_SIZE` lies past the table, and what is there belongs to
  something else. The guard may find it free or not, and what passes may have any
  owner, permissions and content pointer (`Beyond`): an open through it may
  succeed, and then a descriptor holds the number. A read through it returns any
  content or crashes; a write is rejected and does nothing, or crashes. In the
  build of the Makefile the entry covers zero padding (owner 0, no permission)
  and, as its content pointer, the first word of `inode_table_lock`. A write that
  survives and corrupts something else is not modelled.
* A free through the null `openNode` (`main.c:185`, `263`, `289`) kills the
  process: `RespondAndCrash` when the reply is written before it, `Crash` when
  it is not.
* The reply of `deleteFile` to a client that is not the owner is an
  uninitialised local: any int (`UNASSIGNED` stands for all of them).

What is abstracted: names and contents are model values. `len` of a read is
taken to cover the content, so the data of the reply is the content and the
length is not modelled. Descriptors are within `0..MAX_FILES-1`: the code
indexes `files` unchecked, and outside it the behaviour is undefined. Permission
digits are `0..9`, as `%1d` reads them. `Receive` is the client's send and the
server's read together: a session has one request in flight, as the client
library sends the next one after the reply.

`Overlap` is a constant about the clients. With `TRUE` every session sends
whenever it likes. With `FALSE` a session sends only while no request is being
handled anywhere: an environment in which the clients take turns, for the
properties that hold only then.

`FileSystem` says what the clients may rely on then. A request begins for some
user and ends with one change at most: a file is created under a free name,
empty and owned by the user; removed or renamed by its owner; or written by a
user whom its permissions do not exclude. `TecnicoFSFiles` maps the server to
it: the file called n is the i-node that n leads to, if it is in use, and the
user is that of the session whose handler is running. So a file exists from the
insertion of its name (`CreateInsert`), not from `inode_create`, and ceases to
exist when its i-node is freed (`DeleteInode`), not when its name is removed.

In `CommandQueue` a thread is cut at every semaphore operation and at every
critical section. The section of a worker (`WorkerLock`) is one step; that of
the reader is two (`ReaderLock`, `ReaderCopy`), because while it copies a line
into a slot a worker that parses a rename for the second time may read that slot
without the lock (`Reread`: each word as the slot has it or as the new line
does). While the reader is between the two, no other thread can have
`commandsLocker` (`Unlocked`). `processInput` is modelled from what it lets into
the ring: `Input` is the sequence of its commands, lines it skips left out, and
`Malformed` says that a command without its name follows, where it returns
before the poison. A line has a token, a name and, for a rename, a second name
that may be missing. `Rem` is `%` of C, negative for a negative dividend. A head
of -1 leads to `Garbage`, the bytes before the ring: they are taken to be no
command and not to begin with `x`; whatever else they are, the worker exits.
What `commandRename`, `create`, `delete` and `lookup` do is not part of this
module: `Apply` is the end of it.

`Dispatch` is what the workers and `main` rely on: commands are handed out in
the order of the file, each to one worker, and a worker stops only when all are
given. A command is given when a worker takes it (`TakeCommand`), a worker stops
when it meets the poison (`TakePoison`).

`Buckets` starts where `CommandQueue` ends: its workers take commands from a
`Dispatch` (`Remove`, `Finish` and `Stop` are steps of it), which `CommandQueue`
is shown to implement, and then apply them under the locks of the buckets. A
command has its words from the start; a rename gets those of its own line only
where `CommandQueue` says so (`queue_reread`). The i-number of a "c" is taken
with the command, because both happen under `commandsLocker`. A tree is the map
from its names to their i-numbers. `hash` is a constant: any function from names
to existing buckets; `Hash` has the remainder itself, which is negative for names
that begin with a byte above 127 where char is signed.
Locks are taken one by one (`LockBucket`; `IsNext` is the order of
`commandRename`), and released together in the step that ends the command: a
release waits for nothing, and what is done between two releases is output only.
Within the locks, a command that writes one name is one step; a rename that goes
on is three (`RenameLookups`, `RenameDelete`, `RenameCreate`), so that another
worker may look in between.

`Directory` is the same without buckets and locks: a command takes effect at once,
at some moment between its removal from the queue and the next one of the same
worker. The refinement mapping lets a rename take effect when it takes the file
from the old name: from then on the file is `Seen` under the new one, and the
worker has nothing left `ToApply`.

`Batch` cuts a worker at the test of the loop, which takes no lock, and at the two
critical sections, which are steps: nothing in them waits. `locker1` is a variable
because it outlives its section: a worker that finds no command continues without
UNLOCK (`TakeNothing`) and is its holder from then on, through its return. `locker2`
never does, so it needs none. A command without its name is loaded, with a message,
and makes the worker that takes it exit the program, as it holds the lock
(`Take`, to `"failed"`). What the destruction of a locked mutex does is undefined:
`JoinAll` takes both outcomes. The model is of the builds with locks; the build
without any runs one worker, which the instances include in effect (one that runs
while the others wait). Lines are what `sscanf` makes of them: a token and maybe a
name; empty ones are skipped like comments.

`Bst` names a node by its key. The recursions of the code are least sets: `Path(k)` is
the least set of nodes that holds the root and, with a node, the child that the
comparison with k leads to, which is what `search(root, k)` meets; `find_min` is the end
of the least set of left children (`From`). A new node is linked by one store when it is complete.
`remove_item` frees the node first, then takes the smallest node of the right subtree
out (`Cut`), makes it the root of that subtree (`SetRight`) and of the left one
(`SetLeft`), and last lets the parent lead to it (`Relink`). A search in between that
arrives at the freed node is `LOST`: the rest of it is undefined, which `RacyLookup`
and `LookupCrash` of `TecnicoFS` take in full. What remains of the others is what this
module says. Stores become visible in program order (the machine's reordering is
left out), and the allocator does not hand a freed node out while a search is at it.

`Server` is one process: `main`, the thread of `main` inside `treatSignal`, the
sessions. `signal` installs with the semantics of the Makefile's `-std=gnu99`: the
handler stays installed, the signal is blocked while it runs, and an interrupted
`accept` is restarted; the second `signal` call in the handler changes nothing. A
signal that comes during the handler is handled again after it (`pending`). Sessions
block SIGINT (`pthread_sigmask`), so the thread of `main` gets it; the few
instructions of a session before that are left out. `main` is cut at `"accept"` (in
accept), `"check"` (before the test of `flag`), `"prepare"` (up to pthread_create),
`"created"` (before `counter++`), `"install"`, `"print"` and `"freed"` (the directory
freed, the process not gone). What the handler does with memory that it freed in an
earlier run, and what `main` does with the freed `Args`, is undefined: it crashes or
goes unnoticed. `malloc` and `free` inside the handler may find the allocator locked
by the `main` they interrupted (`Allocating`): the process hangs.

In `ClientApi` a request is an op and, for a read, its `len`: `"plain"` calls return the
reply, `"drop"` ones (`tfsClose`, `tfsWrite`) read it and return 0, `"read"` has a second
message, `"bad"` is a request that no format of `treatClient` accepts. The server picks
any answer; which one is right is the matter of `TecnicoFS`. Messages arrive whole and
one at a time: a client has one request under way, so two requests cannot be merged,
and the length (4 bytes) is read apart from the data because the client asks for
4 bytes. `tfsRead` returns the length of a buffer of which only the bytes received are
set and which nothing terminates, so `strlen` may find its end anywhere from what was
sent on, beyond `len - 1` too (`tecnicofs-client-api.c:110-112`; in `ReadData` the value `len` stands
for every length from `len` on). What is sure is that it is not less than what was sent,
and that is what `HonestReturn` says of a read; `client-api-test-read.c:32` asserts that
it is exactly that. A `len` of 0 makes the server copy
a negative number of bytes: it dies. A handler that frees a null `openNode` kills the
server, before the reply or after it (`Fatal`). A write to a connection that is gone is
SIGPIPE and kills the writer. A read at the end of the stream returns what the local
variable held (`GARBAGE`).

In `Sessions` the thread of session i serves client i, the i-th to connect.
Connections wait in the queue of the listening socket until accepted, and are gone with
it (`open`); a client whose thread has returned keeps its connection until the server
closes it or ends, which is what a request of the kind `"bad"` leads to.

## 3. Runs

No state constraint is used: the instances are finite because the requests, names,
commands, tables and signals are. `overlap`, `serial_updates` and `create_race` use
`MCTecnicoFS`, `queue_*` `MCCommandQueue`, `buckets` `MCBuckets`, `batch*` `MCBatch`,
`sessions` `MCSessions`; `tree` is of `Bst` itself.

| Run | Question | Bounds | Outcome |
|---|---|---|---|
| `overlap` | with requests interleaved freely, which numbers off the table reach the directory or a handle (`TypeOK`: none, and only the one past the end), does freed content reach an entry in use (`NoFreedContent`), is the directory lock handed on by every path (`DirectoryLock`), is an owner that was checked still the owner when the i-node is deleted (`StillOwner`), is somebody always answered (`SomeReply`)? | 2 sessions of different users, 2 names and 1 i-node, so that every create reuses the i-node of the last delete under open handles; all seven requests, one permission setting, three modes | holds, 372,410 states |
| `serial_updates` | if requests do not overlap, do directory and i-nodes agree between them (`Consistent`), is no name rebound (`NoOverwrite`), are the effects those of the abstract file system (`ImplementsFileSystem`)? | 2 sessions, 3 names, 2 i-nodes, all requests that change something | holds, 181,116 states |
| `create_race` | the same `NoOverwrite` with overlapping creates | 2 sessions, 1 name | violated |
| `queue_commands` | does the ring hold the next commands in order (`QueueInOrder`), with counters in range (`TypeOK`), is nothing rejected (`NothingRejected`), is the pipeline a `Dispatch` (`ImplementsDispatch`), can the threads all wait for each other (`NobodyStuck`), and does every run complete (`Completes`)? | 3 workers, ring of 2, 4 commands | holds, 15,108 states |
| `queue_renames` | does whoever passed a semaphore find what it counts (`PermitsHold`), with slots parsed again while they are rewritten and workers that exit? | 2 workers, ring of 2, 4 commands, three of them renames, one malformed | holds, 3,040 states |
| `buckets` | is a worker at the trees with the locks of its names and no other (`TypeOK`), is an i-number in one place at most (`OnePlaceEach`), do commands take effect one at a time (`ImplementsDirectory`), may workers wait for locks in a circle (`NoCircle`), does every run complete (`Completes`)? | 3 workers, 3 names in 2 buckets, 7 commands | holds, 252,316 states |
| `queue_last_slot` | the same `NothingRejected` with the poison in the last slot | 2 workers, ring of 2, 1 command | violated |
| `queue_reread` | is a rename applied to its own words (`RenameKeepsWords`)? | 2 workers, ring of 2, 4 commands | violated |
| `batch` | do counter, head and array agree (`TypeOK`), is the lock that is never released kept from nobody who has something to do (`KeptWhenEmpty`), is nobody left behind that lock before two others have returned (`StrandedAfterTwo`), is every command executed once (`EachOnce`), do two workers return (`TwoReturn`)? | 3 workers, array of 4; a plain file, one with a nameless command, one that is too long | holds, 1,884 states |
| `batch_three_workers` | does every worker return (`AllReturn`)? | 3 workers, 1 command | violated |
| `tree` | is the tree the map of its operations (`IsTheMap`), what may a search without the lock miss (`OnlySuccessorMissed`), can the links form a cycle, in the middle of a removal too (`NoCycle`), does the search end (`SearchEnds`)? | 4 names, 2 i-numbers, any sequence of operations | holds, 337,760 states |
| `sessions` | are calls and replies in step (`InStep`), does a call return what was answered, and a read no less than what was sent (`HonestReturn`), does a session leave a client that waits for it (`OnlyBadAbandoned`: only after a request it cannot parse), do a client and its session ever wait for each other (`NoMutualWait`), does a call return at all (`CallReturns`); where is the directory freed under a session (`SafeShutdown`), where does one SIGINT crash the server (`OneSignalIsSafe`), does it end it (`ShutsDown`)? | 2 clients, any number of calls of 5 kinds, 2 SIGINTs | holds, 159,421 states |

Why these bounds. The races of the handlers are between two threads, so two
sessions show them. Two names are what a rename relates. A table of one
i-node makes reuse happen at every create; two let two files exist at once, and with
a third name there is a create that finds the table full while it finds no file of that
name (`main.c:98`). One descriptor makes the table full at the second open. A ring of two is full and empty in
turn and wraps around twice with four commands and the poison; the code's ten
slots (`MAX_COMMANDS`) are a matter of length, which the proofs do not fix. Three
workers stop one after the other, so the poison is put back, put back again and
taken from where it was put.
Three names in two buckets give renames between buckets in both directions and
within one, and seven commands let three of them run at once with a create, a
lookup and a delete of the same names.
Three workers of ex1 are the holder of a lock, one behind it, and one that got away.
Four keys are what the removal of a node needs for its successor to be deeper than its
right child and to have a child itself; two i-numbers tell an old value from a new
one. Two sessions let one be joined while the other runs or is being created; the
second is also the last (`MAX_THREADS`), so the loop ends by itself too. Two signals
are one that waits, or one after the other. A read of two bytes (`len` 3) has answers
from an error to the full length.

The violated runs:

* `create_race` – both clients look the name up, both create an i-node, both
  insert: the second insertion overwrites the i-number of the first. Both were
  told 0.
* `queue_last_slot` – the poison is taken from the last slot: the head wraps to 0
  and `(headQueue - 1) % MAX_COMMANDS` is -1. The next worker looks before the
  ring. With ten slots, that is every input of 9, 19, ... commands and two or
  more workers.
* `queue_reread` – a worker has taken a rename and posted `sem_prod`; the reader
  puts another line into its slot before `sscanf` is called again.
* `batch_three_workers` – three workers pass the test while one command is left. One
  takes it; the next finds nothing, continues without UNLOCK and returns; the third
  waits for the lock for ever and is never joined. `TwoReturn`, in the run `batch`, is
  what remains true: one or two workers always return, and no command is left undone.

Disagreements that the models contain and no run is spent on:

* a write whose file is deleted between `inode_get` and `inode_set` is answered 0, since
  `writeFile` drops the result of `inode_set` (`main.c:285`, `inodes.c:162-163`;
  `WriteSet`);
* two sessions of one user that delete the same file may both pass the owner check; when
  a third user's create takes the i-node in between, the second delete frees it
  (`main.c:131`). The run `overlap` has different users, and `CheckedOwnerStays` has
  that as its assumption (`DistinctUsers`);
* a lookup without the lock may read its i-number from a freed node, and if that is
  `INODE_TABLE_SIZE` the guards let it pass (`inodes.c:92`, `122`, `167`): `OpenGet`,
  `ReadFile`, `WriteGet` and `WriteSet`;
* `tfsRead` may return more than was read (`tecnicofs-client-api.c:112`), where
  `client-api-test-read.c:32` asserts 5; `ReadData`;
* in ex2 a line without its name ends `processInput` before the poison, and the workers
  wait for ever (`main.c:207`; `ReaderReturn` under `Malformed`);
* a SIGINT between the test of `flag` and `counter++` leaves a session that is not
  joined, and one after `MAX_THREADS` connections or an accept error comes too late:
  these are the exceptions that `SafeShutdown` and `OneSignalIsSafe` list;
* a search without the lock may miss the successor of a name that is being removed:
  the exception in `OnlySuccessorMissed`.

Disagreements with the API constants and the API tests that one request shows
are in the model as they are in the code, and have no run of their own: error
replies followed by the free of a null `openNode` (`RespondAndCrash`, `Crash`);
no reply assigned for a denied delete (`DeleteGet`); 0 as the reply of every
successful open, whatever the descriptor (`OpenGet`); `ERROR_FILE_IS_OPEN`
found and overwritten (`OpenCheck`), and looked for only in the files of the
session that deletes (`OpenHere`).

Fairness: `WF_vars(Serve(s))` for every session, that is, the kernel runs every
thread that can run. Clients are under no obligation to send. Nothing is assumed
of `locker`: a POSIX rwlock may starve a waiter, so the liveness property is
`SomeReply` (while requests are handled somebody is answered), not a reply to
each. In `CommandQueue` the reader and every worker are weakly fair: `Completes`
needs no more, because a worker that loses a permit to another does so only as
often as there are commands. `Halted` is the stutter of a dead or finished
program, so that deadlock is checked everywhere else.

In `Batch` main and every worker are weakly fair. A worker that waits for a lock
nobody will release stops for good, which is why these runs do not check deadlock and
`TwoReturn` says who returns. In `Bst` only the steps of the search are fair: the
other thread may stop anywhere, in the middle of a removal too. A tree that is changed
for ever can keep a search going for ever, so `SearchEnds` is about the behaviours in
which the changes end; what it excludes is a cycle among the links (`NoCycle`, which is
proved).

In `Sessions` the threads of the server are weakly fair, `main` and its handler
included, and so are the reads of a client in a call, which have nothing to wait for but
the reply. `accept` on an open socket is not obliged to fail, nor a client to come. What
the clients are obliged to is named: between two calls they unmount in the end
(`SF_vars(Unmount)`, strong because the next call disables it), without which
`endProgram` joins them for ever and `ShutsDown` could not hold. The server may stop
with clients in every state, so this run does not check deadlock.

## 4. Proofs

`TecnicoFSProofs` holds for any number of sessions, names, users, i-nodes and
descriptors, under the assumptions named in `Inodes` and `TecnicoFS` (tables are
not empty, uids are naturals, the sentinels are outside what they are added to).

* `TypeCorrect`, `NoUseAfterFree`. Neither `TypeOK` nor `NoFreedContent` is
  inductive alone: that an i-number stored in the directory is in the table
  depends on what the handler did several steps earlier. `TypeOK` says that a handle
  may hold one number that is not, the one past the end: an open may have read any
  int from a freed node, and that is the one the guard admits (`GuardOnTable`,
  `GuardOffTable`). The inductive invariant is
  `IInv == TypeOK /\ Locals /\ NoFreedContent`, where `Locals` says what each
  handler has established by each label: a request is present while it is
  handled, the i-number a later step uses is in the table, an open has found an
  unused position, a write has found its handle. One lemma per variable says
  which steps change it and that they keep its type; `OthersUntouched` says that
  a step leaves the locals of the other threads alone.
* `LockDiscipline`: `DirectoryLock`, inductive with the types.
* `CheckedOwnerStays`: `StillOwner`, under the assumption `DistinctUsers`. A
  handler that relies on an owner holds no lock; what keeps the i-node its own
  is that a thread frees only i-nodes whose owner it relies on (the same
  invariant, for that thread), and that another thread's owner is another user.
  `inode_create` takes only free entries.

* `SerialConsistent`, `SerialNoOverwrite`, under the assumption `~Overlap`.
  `Consistent` speaks of the server between requests only; in the middle of one,
  a new i-node has no name yet and a name may lead to a freed i-node. `SerialInv`
  says what holds at every step: one thread works at a time, names lead to
  i-nodes in use except the one being deleted (`NamesLead`), i-nodes in use have
  a name except the one being created (`InodesNamed`), no two names lead to one
  i-node (`NoSharing`), nobody has read a freed node, so no thread and no
  handle holds the number past the table (`OnTable`), and what each check of the handler found is still so
  (`StillTrue`: the name is still free, still leads to the i-node that was
  looked up, the i-node is still as created, still freed, still writable). The
  last is where the argument fails when requests overlap: in `create_race` it is
  `NameFree` that breaks. That only one thread works also makes the unlocked
  lookups exact (`LookupAlone`).
* `SerialImplements`: the refinement `ImplementsFileSystem`, under the same
  assumption, from `SerialInv`. One lemma per step that changes the directory or
  the i-nodes: `CreateInsert`, `DeleteInode`, `WriteSet` and `RenameMove` map to
  `Create`, `Delete`, `Write` and `Rename` (`NoSharing` is why no other name is
  affected, `InodesNamed` why the i-node written has a name), `CreateInode` and
  `DeleteRemove` to nothing; all others (`QuietImplements`) to nothing, or to the
  end of a request that changed nothing.

`CommandQueueProofs` holds for any input, any number of workers and any ring,
under `CommandQueueAssumption`.

* `QueueTypes`, `QueuePermits`, `QueueOrder`. The semaphores, the counter and the
  ring change at different times. `Permits` accounts for the difference: every
  slot is free (`sem_prod`), filled (`numberCommands`), or with a thread between
  a semaphore and the ring, and every command in the ring is announced
  (`sem_cons`), about to be announced, or promised to a worker. The threads are
  counted by the cardinality of the sets at certain labels (`Posting`,
  `Holding`). With `Progress` (where the reader is in the input), `HeadBack` (the
  head is -1 only when the poison is alone in the ring) and `Sources` (a rename
  is parsed again from a slot of the ring), this and `QueueInOrder` are
  inductive.
* `PlainAccepted`, `PlainImplements`, under the assumption `PlainInput`: no
  renames, and a number of commands that does not put the poison into the last
  slot. `Plain` says that the head is then always the slot of the next command,
  counted around the ring. Both conditions are needed: `queue_last_slot` drops
  one, `queue_reread` the other.
* `QueueNobodyStuck`: `NobodyStuck`. `Permits` counts what is missing from the
  semaphores, and nothing is when nobody is between a semaphore and the ring: then
  `sem_cons` is `numberCommands` and the two add up to the ring, so they are not both
  zero. What remains is a ring that is empty when the reader is done: `PoisonLeft` says
  that the ring is never empty again once the poison is in it, because whoever takes
  the poison puts it back in the same critical section, except where a worker has read
  before the ring (`queue_last_slot`) and is on its way to exit. No assumption on the
  input is needed but that the reader does not reject it, and one on the workers: there
  is one at least, as `parseArgs` requires (`main.c:74`).

`BucketsProofs` holds for any input, any number of workers, names and buckets, and
any hash into them, under `BucketsAssumption`.

* `BucketTypes`, `BucketNumbers`. The inductive invariant is `IInv == TypeOK /\
  Working /\ Numbers /\ Moving /\ OnePlaceEach`. `TypeOK` says who holds which
  locks; `Working` that what a worker is doing agrees with where it is; `Numbers`
  that no i-number exceeds the counter, which is why a new one is new; `Moving`
  that what a rename looked up is still so when it acts. The last rests on
  `Exclusion`: two workers at the trees need different buckets, hence work on
  different names (`NoNameInCommon`), and no step of one changes the names of the
  other (`NamesKept`). Each step then drops, places, takes or issues one i-number
  at most (`Dropped`, `Placed`, `Taken`, `Issued`).
* `BucketsImplement`: the refinement `ImplementsDirectory`. `SeenValues` says what
  the directory looks like from outside while files are being moved: one worker
  at most moves a file to a name, by `NoNameInCommon`, so the mapping's choice is
  no choice. There is one lemma per action: taking, applying and stopping map to
  the abstract steps, `RenameDelete` to the whole rename, and `LockBucket`,
  `RenameLookups` and `RenameCreate` to nothing.

* `BucketsNoCircle`: `NoCircle`. `Ascending` says that every bucket a worker still needs
  is greater than those it holds. Of a set of workers that wait only for each other,
  take the greatest bucket that one of them waits for: its holder is one of the set,
  and waits for a greater one. That a set of numbers below a bound has a greatest
  is a lemma (`Greatest`).
* `HashIsBucket`: `HashOf` of a character that is not negative is a bucket, so the
  assumption on `hash` is met by the code for such names.

`BatchProofs` holds for any files, workers and array, under `BatchAssumption`.

* `BatchTypes`, `LockKept`, `Executed`. `EachOnce` compares a count of the file with the
  number of i-numbers given out, with workers holding commands in between. The
  inductive invariant accounts for them: `Numbered` (i-numbers given out, plus workers
  about to give one out, are the creates removed so far, by cardinalities), `InHand`
  (what a worker has is a command of the file), `Placed` (a name created and never
  deleted is there, or in a worker's hand, or still in the array). `KeptWhenEmpty` is
  inductive with the types: nothing is ever inserted once the workers run.
* `StrandedLast`: `StrandedAfterTwo`. One of the two that return is the worker that keeps
  the lock; that there is another is `NotAlone`: once no command is left, a worker that is
  at the lock or has kept it is not the only one past it, for another took the last
  command and does not come back to the lock.

`SessionsProofs` holds for any `MAX_THREADS`, `MaxSignals` and requests.

* `ShutdownSafe`, `SignalSafe`. Both are about `Server` alone; `SessionsIsServer` says
  that a behaviour of `Sessions` is one of `Server`, since every step is a step of it or
  leaves it alone. The inductive invariant is `Signals` (how far the signals have come),
  `Handled` (`main` is where the handler interrupted it until the handler ends, and a
  `main` that tests the flag afterwards accepts nobody), `Counted` (a thread is counted,
  but for one just created), `Joined` (those the handler has passed do not run).
* `CallsInStep`, `CallsHonest`. `WireInv` says, of each open connection, how far its
  call is: `Quiet` between two, `Asked` or `Answered` while the client waits, `HalfRead`
  between the length and the data. One lemma per step of a client or of its thread;
  `OthersSame` leaves the other connections alone, `OpenShrinks` says that a connection
  closed stays closed. `CallsHonest` covers the length of a read only when it is an error;
  no theorem bounds the length of a read with data from above, and the code does not.
* `OnlyBadLeft`: `OnlyBadAbandoned`. A thread returns when its client has gone or when it
  cannot parse a request; `AbandonInv` says that in the second case the request was
  `"bad"` and nothing is on its way to the client, so it can only wait or be killed. It
  is inductive with `WireInv` and the `Signals` of the server.

* `CallsNeverStuck`: `NoMutualWait`, from `WireInv`: in each phase of a call one of the
  two sides has something to read or to send.

`BstProofs` holds for any set of names and i-numbers, under `BstAssumption`.

* `TreeIsTheMap`. `IsTheMap` speaks of the tree between operations, and its removal is
  four stores, so the invariant has to say what the tree is like after each: `Shape`.
  `Found` is the core: every name of the map is on its own path, at every store, except
  the node that moves up, from the first store to the last. `OneParent` says which nodes
  may share a child meanwhile, `Linked` that links lead to nodes of the map or to the
  freed one, `Moving` where the node that moves up stands: nothing left of it, and
  everything on the `Spine` it is taken from greater than it. There is no order on
  the trees in the invariant: that they are search trees is `Found`. Neither is there
  an induction over them: `Path` is an intersection of closed sets, so that k stays on
  its path is shown by turning a set closed under the new links into one closed under the
  old (`KeptByCut`, `KeptByUnreached`, `KeptByLeft`, `KeptByMin`).
* `SearchMissesOnlySuccessor`. `Ahead` says that a search that may not answer
  `ABSENT` any more has its name on the way from where it is, which each store keeps by the
  same lemmas; the node that moves up is the exception, and is why `valid` has `ABSENT`
  for it.
* `TreeHasNoCycle`: `NoCycle`, from `Shape`. If a set of nodes has all its
  parents inside, no link enters it from outside, since every node has one parent
  (`ParentsInside`), so no path meets it (`ClosedOff`); but each of its nodes is on its own
  path. Between the first store and the last, where two nodes share a child and one is off
  its path, the node that moves up is added to the set.

Only model-checked: liveness under fairness, which is out of the prover's reach
(`SomeReply`, both `Completes`, `TwoReturn`, `SearchEnds`, `CallReturns`, `ShutsDown`), and
the violations. What these properties have in them that is not a matter of scheduling is
an invariant each, and proved: `DirectoryLock` for `SomeReply`, `NobodyStuck` and
`NoCircle` for the two `Completes`, `StrandedAfterTwo` for `TwoReturn`, `NoCycle` for
`SearchEnds`, `NoMutualWait` for `CallReturns`. Every invariant and every action property
of the passing runs is stated by a theorem, some under an assumption named there; `ShutsDown` has no such core, because the
handler may hang (`Allocating`) and the clients decide when sessions end.

## 5. Not modelled

Every part with state of its own has a module. Of these parts the following is left out:

* in the handlers of ex3, descriptors outside the table of files (undefined behaviour at
  the first access) and contents longer than the buffers;
* relations between names and files while requests of ex3 overlap, such as two renames of
  one file at once (`main.c:257`): the steps are in `TecnicoFS`, but neither code nor docs
  promise anything of the outcome, so there is no property to state. What would extend the
  project is a history of the file to which each name and handle was bound;
* a SIGINT delivered to a session in its first instructions, before `pthread_sigmask`
  (`main.c:320`); errors of `getsockopt`, `calloc` and `signal`, which exit the program,
  are the one failure of `Create`, and `signal` does not fail;
* messages of more than the size of a buffer, and reads that return part of a message;
* in the search tree, stores that become visible out of order, the reuse of a freed node
  by the allocator, `free_tree` and `print_tree`;
* `createSocket`, which is done before the first state of `Server`.

Left out for good: argument parsing, messages and printing, the time
measurement, the Makefiles and scripts.

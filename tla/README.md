# SharedHashFile in TLA+

SharedHashFile is a library with which processes on one machine share a hash
table, queues and a log through files that all of them map into memory. This
directory holds TLA+ models of its core, written from `src/shf.c`,
`src/shf.lock.h`, `src/shf.private.h`, `src/main.shf.monitor.c` and the programs
of `src/test.q.shf.c` and `src/test.9.shf.c`, with TLC configurations and TLAPS
proofs. File names and lines below are those of the repository's `src/`.

## Parts of the system

| part | state | operations | talks to the others through |
|---|---|---|---|
| fair read write lock (`shf.lock.h` 174-302) | one 64 bit word: three ticket bytes, each with a pad byte | lock and unlock as reader and as writer | taken by every other part; lives in shared memory |
| window (`SHF_WIN_MMAP`) | redirects `tabs`, `tabs_used` | split (`shf_tab_part`) | guarded by a read write lock |
| table (`SHF_TAB_MMAP`), a file | rows of refs, data, byte counters | append, delete, copy, grow, shrink | mapped by each process on its own |
| attached process (`SHF`) | `tabs[win][tab]` pointer and size, `count_mmap` | attach, detach, `SHF_GET_TAB_MMAP` | finds out from `tab_size` that a table was grown or replaced |
| key value calls | the thread-local key, UID and value | put, get, atomic add, reference count, update, delete | all of the above |
| table iteration | the caller's window and table number | `shf_tab_copy_iterate` | reader lock of a window, one table at a time |
| queues (`SHF_Q`) | `qids`, `qiids` shared; push and pull lists private | new, get, delete, names; push head, pull tail, both, flush | stored as values of the table, used by address |
| shared log | buffer, `used`, thread ids, `running`, `stopped` | log, print in pieces, append, log thread, shut down | stored as a value, used by address |
| race barrier | one byte | init, start | stored as a value, used by address |
| creation and deletion | directory of files | `shf_attach`, `shf_del`, `shf.monitor` | file system |
| spin lock (compiled out) | owner | lock, try, unlock, forced unlock | alternative to the first part |

What is hard: everything is shared by processes that know of each other only
through memory; a process's mappings go stale whenever another one grows or
replaces a table; a table is replaced (unlinked and rebuilt) in the middle of
puts, splits and also of gets, which hold the lock as reader only; private
queue lists share their links with everybody; tickets are bytes that wrap; a
process that fails an assertion keeps the locks it holds. `PROJECT.json` lists
these hazards one by one with the line where each bites.

What makes each part correct: a writer is alone and whoever asks for the lock
gets it; every process finds every stored record under its key and its UID, and
nothing else, whatever was split, grown or shrunk; a record leaves by a delete
only; mappings never reach past a file and are all undone by a detach; an item
is in one place of the queues and comes out in the order of its batch; two
processes that send each other items never wait for each other; log lines come
out whole, once, in order; a pass over the tables sees every record that stays;
nobody finds a SharedHashFile half made, and it goes when its process does.

## Modules

### ShfRwLock, refined to RwLock

State: the six bytes of the word that are used, `pc[p]` and `ticket[p]` of each
thread. One step is one access to the word: the atomic adds (`AtomicAdd`, with
the carries from byte to byte), the separate stores that clear a pad byte, the
successful end of a spin. The value that a spin reads when it fails changes
nothing and is no step. Memory is sequentially consistent here; the code uses
`__sync` operations, which are full barriers, for all but the clearing stores,
and the model lets those come arbitrarily late. `TicketSize` is the number of
values of a byte, 256 in the code.

`RwLock` is what the callers rely on (`shf.h` 114-118): requests are served in
order, adjacent readers together, writers alone. Its state says who wants and
has what and who asked before whom; the refinement mapping reads that order off
the distances of the tickets from `ticket_active_reader`.

### ShfTable, refined to KvStore

One window. The record `m` holds what the window, the files, the directory and
every process's mappings hold. A call is one step, and what it does is built
from operators named after the code's macros: `GetTab` is `SHF_GET_TAB_MMAP`
with its three parts, `Append_` with `Grow` is `SHF_TAB_APPEND`, `MarkDeleted`,
`RefCopy`, `TabShrink`, `TabPart` and `Redirect` likewise. A file that is
unlinked while mapped lives on as another inode of its table, which is how a
process with an old mapping reads `tab_size` 1. A put that meets a full row
splits the table and lets go of the lock (`pend` keeps the put), so others run
before it tries again; without a table left it ends with the lock taken
(`stuck`). A record is its key, the sum of its lengths and one number for its
value; positions are kept, so that overlap and the byte counters can be checked.
`shf_data_needed_factor` is 1, its default.

`KvStore` is a map from UIDs to records with put, delete and change. The mapping
looks a UID up through the redirects in the current files.

`OverflowOnlyWhenOverloaded` is about a step and not about a state: a put that
meets a row of refs with one redirect splits the table in vain (`Wasted`), the
other process may delete one of those records before the put tries again, and a
window that has lost a table so can overflow later from a row that a split would
have parted. The property says that the split in vain itself, and any overflow
before one, need a row full of refs of one redirect.

### ShfIterate

Adds `shf_tab_copy_iterate` to ShfTable: a process copies one table per call, in
the order of their numbers, and everything else happens between its calls.
`walk[p].due` is history: the UIDs that were in use all through p's pass so far
and that it has not come across. Both table runs are runs of this module; in
`table_maps` nobody iterates.

### ShfCalls

The calls that `shf_find_key_internal` runs under the reader lock, one shared
access at a time: lock, map, look, copy or add, unlock, and the steps of
`shf_tab_shrink` when a get runs it (unlink, create, map again, move ref by ref,
mark the old file). `shf_add_key_val` goes on after the unlock with a put or a
delete. Puts and deletes are alone in the window, so each is one step, with its
own shrink. One table, one row and records of one length are enough here: the
rest of a lookup is ShfTable's. Two history variables, `live` and `sum`, say
what the calls so far amount to.

### ShfFixedTab

The data part of a table of fixed-length records byte by byte, since here the
bytes of deleted records hold the links of the free list: `Del`
(`SHF_TAB_REF_MARK_AS_DELETED`), `PutReuse` and `PutAppend` (`SHF_TAB_APPEND`,
with the shrink at the end of a put), `GetShrinks`. A put may have to append to a
table with garbage in it before it shrinks, so there is room for a fifth more
records than refs (`MaxRecs`).

### ShfQueue, refined to BatchQueue

`qids` are the shared queues, `push[p]` and `pull[p]` the private lists, `qiids`
the one array of links, `own[p]` the items in p's hands. Pushing to and pulling
from a private list is one step, taking the queue lock another, and in
`shf_q_flush` each batch spliced into a queue and the refill of the pull list
are steps of their own, between which other processes push and pull privately.
`Leave` is a process that exits, or never flushes, and whose private lists are
gone (`shf.h` 253-256).

`BatchQueue` has sequences instead of links: a batch reaches the queue in one
piece, a pull list takes from the tail up to its maximum.

### ShfIpc

The queues at work: the two programs of `test.q.shf.c`, A that creates and B
that it starts, with the calls on the queues step by step as in ShfQueue, which
the module extends. It adds `shf_q_new`, `shf_q_get`, `shf_q_del`,
`shf_q_new_name`, `shf_q_get_name`, `shf_race_init` and `shf_race_start`. Before
it starts B, A does what the program of `test.9.shf.c` does (307-394): it makes a
set, deletes it, makes another and moves all the items from queue to queue, with
the assertions of that program about their number and order. The deletion is
there because `shf_q_del` leaves things behind: the key
`__qids_nolock_max`, so that B later works with the first set's limit and A with
the second's; the names and `q_next`; the pointers to the freed lists. `line[p]`
is where a program is, `kv` the keys as the calls see them (a key can have two
records, and a get finds the older), `hq[p]` the rest of p's `SHF_Q`, with the
number of the set each setting was read from. A wait at the race line may end
with the assertion of line 1954 at any time.

### ShfLife

One name in the file system, and the directories it leads to, one after the
other. `shf_attach` is taken apart at each system call that others can come in
between: the open that fails, the making of a temporary directory, the rename,
the second open, the writing of `tabs_used`, the start of the monitor. `rm -rf`
deletes files first and then the directory, if it is still empty. `open()` has
O_CREAT, so in a directory that is just being removed it makes an empty file; a
look at its memory is a SIGBUS. Tables are mapped and made by name, whatever
directory the process attached to. A process may end at any point, is born again
with the same number, and its monitor does not know the difference. The mapped
tables are kept as a set because `shf_detach` asserts that it undoes as many
mappings as were made. `harmed` and `hurried` are history: a directory that got
a file while it was being removed, or a table or `tabs_used` from somebody who
belongs to an earlier one; a directory that was used before its creator had
written `tabs_used`. The properties say that these two, and nothing else, are
behind what goes wrong.

### ShfLog, refined to LogStream

The buffer is an array of bytes, each of which knows its line and its place in
it, so that a byte written twice, lost or overwritten shows. Processes log plain
lines and lines with a prefix (`Log`, `LogAppend`), or print a line in pieces
(`PrintPiece`: `shf_log_fprintf`, `shf_log_fputs` and `shf_log_fputc`); the log thread loops, reads
`used` under the lock, writes any number of bytes at a time or fails, and moves
the rest to the front (`Loop`, `Sample`, `Write`, `WriteBreak`, `WriteDone`,
`Move`); `shf_log_thread_del` clears `running` and waits while the thread writes
what is left (`Close`, `Stop`). What is done under `log->lock` is one step, the
writes and the last read of `used` are not under it. `prefix_len` is kept for
each process because the test for room uses whatever the last prefix left there.
Of the clock only matters if the second changed since the last look.

`LogStream` has the text that was appended, in whole lines, and a file that is
always a beginning of it.

## Runs

Each takes from a second to two minutes or so. In `PROJECT.json` every
property of a passing run has a mutant: a plausible bug in one definition (kept
beside the definition, with "Mutant of" above it) that makes the run fail.

| run | instance | checks |
|---|---|---|
| lock | 3 threads, 3 ticket values, fair | `TypeOK`, `MutualExclusion`, `PadHoldsOneCarry`, `LockInv` (the invariant of the proofs), `ImplementsRwLock`, `NoStarvation` |
| table_maps | 2 processes, 2 tables, 1 row of 1 ref, 2 keys | `MappingsCatchUp`, `LookupsAgree`, `MappedBytesExist`, `DetachUnmapsAll`, `ImplementsKvStore` |
| table_keys | 1 process that also iterates, 3 tables, 1 row of 2 refs, 3 keys | `RefsFollowRedirects`, `DataSound`, `OverflowOnlyWhenOverloaded`, `PassMissesNothing`, `RecordsLeaveByDelete` |
| calls | 1 reader, 1 writer, 2 keys | `GetsFindStored`, `NothingLost`, `NobodyDies`, `DeletesAtZero` |
| queue | 2 processes, 3 items, batches of 2, 2 named queues | `ListsSound`, `NoItemTwice`, `ImplementsBatchQueue` |
| ipc | 2 programs, 5 items, limits of 3 and 2, 12 items to pull each, fair | `IpcTypeOK`, `SameQueues`, `GunAfterAll`, `NobodyFails`, `BothEnd` |
| life | 2 processes, one of which may ask for a monitor, 2 directories, 2 tables, fair monitors | `WholeAtName`, `TablesCounted`, `NoNeedlessEnd`, `DeletedUponExit` |
| fixed | 6 refs, key and value of 8 bytes | `RecordsIntact`, `FreeListSound` |
| log | 2 processes, one of which prints, 3 lines of 1 or 2 bytes, buffer of 3, fair | `BufferHoldsRest`, `DelFlushes`, `TidsUnique`, `ImplementsLogStream`, `AppendsReturn`, `DelReturns` |

The type invariants of the lock and of the queues (in `IpcTypeOK`) are checked
and proved; those of the other modules say what the variables are and hold when they are added
to the configurations, which leave them out for shorter runs.

Three runs show where the code does not do what a comment or document says
(`findings` in `PROJECT.json` has the lines):

| run | what happens |
|---|---|
| calls_two_shrinks | two gets shrink at once and a record is lost |
| calls_two_counters | a reference count is deleted that is not zero any more |
| fixed_short | the link of a short deleted record is written into the next record |

`calls` has one process that reads and shrinks at a time; `calls_two_shrinks`
says that this is not an accident of the instance. With its two gets
`GetsFindStored` fails too: the second one looks for a record in the old table
while the first is moving the refs out of it.

Two properties of the log stop where the code does. `AppendsReturn` says nothing
once the log thread has ended: only its own process then goes back to stdout,
others keep appending to a buffer nobody writes (the repository's `README.md`
147 says that lines after the log output thread go to stdout). And the test for
room counts the prefix a second time (`shf.c` 2361), so a line within a prefix's
length of the buffer size waits for ever; the lines of the run are shorter.

`life` has no rule that nobody ends of an assertion, since the code has none:
a process that attaches between the rename and the writing of `tabs_used`, or
after a creator that died there, uses table 0 of a window that counts no tables,
and asserts when it detaches (`shf.c` 304); of two creators the second asserts
in `rename` (415); an attach that meets a removal gets an empty file. Nor does
the monitor of a process whose number is in use again delete anything.
`NoNeedlessEnd` and `DeletedUponExit` say that there are no other ways.

The lock needs at least as many ticket values as threads, 256 in the code: with
one thread more two of them hold the same ticket and a writer is not alone. Set
`TicketSize = 2` in `MCShfRwLock.cfg` to see it (`ThreadsFitTickets` is false
there).

The models also follow the code in three smaller things that differ from what
its comments say, and that no run is about: `tab_refs_used` is incremented twice
for every ref that a split or shrink copies (`shf.c` 611 and 649;
`shf.private.h` 61 calls it "refs allocated & used"); a get that shrinks moves
records although `shf.h` 126 says "Only table splits cause addresses to change.";
and after a flush that takes part of a queue, the `last` link of the queue's new
tail still leads to an item that left (`shf.c` 1784; the drawing at 1513 has
none).

### Why the bounds are enough

- Lock: as many threads as ticket values is the largest number for which the
  lock works, every ticket wraps many times, and each clear of a pad can be
  overtaken by all other threads. The proofs remove the bound.
- Tables: with one row and one ref the first collision splits, so that two
  processes reach splits, grown files, replaced files and stale mappings of both
  kinds within few puts; pages of 4 and records of 6 make every long put grow
  the file. Two refs per row and three keys, two of which no split can part,
  reach refs that stay and refs that move in one split, a second split of a
  split table, and a window with no table left.
- Calls: two keys in two refs are a record to look for and one to make garbage;
  three long values make additions wrap. More than one reader is the subject of
  the two `calls_*` violations.
- Queue: three items and batches of two leave a queue with part of its items
  after a refill; the third queue stays empty.
- Log: a buffer of three bytes is full after two lines and takes a line while
  another one is half written; after three lines the rest has been moved to the
  front with bytes that came in during the write, and written again. Two process
  numbers and three values of `tid_id` do not wrap: 255 threads are its limit.
  With a bound on the lines nobody can keep the buffer full for ever, so
  `AppendsReturn` does not rule out that endless short lines of others starve a
  long one.
- Ipc: five items and limits of three and two leave odd items in the private
  lists of both programs; each has to pull every item more than twice. Two horses
  and two races are what the programs have.
- Life: two directories are the one before and the one after a deletion, which is
  as far as a stale process or monitor can be behind in any one step; two tables
  are the first one and one made by a split. With one `Deleter` the other process
  can hold on to, or make again, what the monitor deletes.
- Iteration: three tables let a split in the middle of a pass fill a table behind
  the one that was copied last.
- Fixed: six refs are the fewest for which a put may follow a delete without
  shrinking the table at once, so that a deleted record is reused.

`CHECK_DEADLOCK FALSE` is given for ShfLife, where all directories may have been
made and all processes wait to make another, for ShfTable, where a process that runs out of
tables stops everybody, for ShfLog, where all lines may be logged and the log
thread ended, and in runs whose violation is the point.

### Fairness

`lock` assumes that a thread inside a lock function or holding the lock
gets on (weak fairness of `Progress`): nothing in those functions blocks but the
spins. A thread outside need never ask. `ipc` assumes the same of both programs
and of a process inside a queue call, and strong fairness of taking the queue
lock; the queue lock is a ShfRwLock, and its `NoStarvation` is what justifies it.
Nothing is assumed of the six seconds: they may pass at once or never. `life`
assumes that a monitor that has something to do does it, and nothing of the
processes. `log`
assumes that the log thread and waiting calls get on (weak fairness), that the
clock goes on, so that the thread now and then finds a new second, and that
`write()` does not fail for ever (strong fairness of `Sample(TRUE)` and
`Write`).

## Proofs

Eight modules hold theorems, one for each component they are about. They hold for
every value of the constants that satisfies the named `ASSUME`s of the component's
module; where a theorem needs more, the hypothesis is named, and a run shows what
happens without it.

| module | invariant | theorems for properties of the runs | hypothesis |
|---|---|---|---|
| ShfTableProofs | `Inv`, `WInv` | `MappingsCatchUp`, `LookupsAgree`, `MappedBytesExist`, `DetachUnmapsAll`, `RefsFollowRedirects`, `DataSound`, `PassMissesNothing`, `RecordsLeaveByDelete`, `OverflowOnlyWhenOverloaded`, `ImplementsKvStore` | |
| ShfRwLockProofs | `LockInv` | `TypeOK`, `MutualExclusion`, `PadHoldsOneCarry`, `ImplementsRwLock` | `ThreadsFitTickets` |
| ShfQueueProofs | `QueueInv` | `ListsSound`, `NoItemTwice`, `ImplementsBatchQueue` | |
| ShfCallsProofs | `CallsInv`, `ZeroInv` | `GetsFindStored`, `NothingLost`, `NobodyDies`, `DeletesAtZero` | `GetsAlone`, and `CountsAlone` for `DeletesAtZero` only |
| ShfFixedTabProofs | `FixedInv` | `RecordsIntact`, `FreeListSound` | `LinkFits` |
| ShfLogProofs | `LogInv`, `TidInv` | `BufferHoldsRest`, `DelFlushes`, `ImplementsLogStream`, `TidsUnique` | `TidsFit`, for `TidsUnique` only |
| ShfLifeProofs | `LifeInv` | `WholeAtName`, `TablesCounted`, `NoNeedlessEnd` | |
| ShfIpcProofs | `SetInv`, `RaceInv`, `PlayInv`, `SoundInv` | `SameQueues`, `GunAfterAll`, `NobodyFails`, `IpcTypeOK` | |

The hypotheses:

- `ThreadsFitTickets`: no more threads than ticket values, 256 in the code. With
  one more the lock fails.
- `GetsAlone`: if a process makes get calls, nobody else makes calls under the
  reader lock. A get may run `shf_tab_shrink`, and `calls_two_shrinks` is what two
  of them do. Puts, deletes, atomic adds and reference counts are not restricted:
  without gets the theorems are about any number of processes and any calls.
- `CountsAlone`: a key that one process counts with `shf_add_key_val` is put,
  counted and deleted by no other. `shf_add_key_val` gives up the reader lock
  between the count and the delete that a zero leads to, and `calls_two_counters`
  is what a second process does there.
- `LinkFits`: a fixed-length record has room for two lengths of `U32` bytes, or
  for none. The lengths between are those of `fixed_short`, where the link of the
  free list ends in the next record.
- `TidsFit`: fewer threads than `tid_id` has values, since it is one byte and
  numbers are never given back.

None of the properties is inductive as it stands. What the invariants add:

- Lock: nothing in mutual exclusion says that two threads cannot hold the same
  ticket, or that `ticket_active_writer` waits for the readers. `LockInv` adds
  that the tickets from `ticket_active_reader` up to `ticket_next` are held, one
  each, by the threads that wait or write (`TicketWindow`, `TicketsInWindow`,
  `TicketsDistinct`); that `ticket_active_writer` trails `ticket_active_reader` by
  the number of readers that are in; that a holder has the active ticket
  (`HolderIsFirst`); and that a pad byte holds a carry only while more threads are
  still to clear it than the ticket has moved on since (`PadsBounded`), which is
  why a late clear is in time.
- Tables: `Inv` has a part for each thing a call relies on. Every file is sound by
  itself (`FileOK`: the refs of its rows, the bytes of its records, its counters,
  its size); a mapping never reaches past its inode, and one of an unlinked inode
  finds `tab_size` 1 there (`MapAt`), which is how the next call notices;
  `count_mmap` is the window and the tables mapped (`CountAt`); redirects lead to
  tables in use and nobody maps a table that is not (`TabsOK`); every record is in
  the table its redirect leads to and in no other (`Homes`). A shrink or split is a
  fold over the refs of a table that creates, maps and grows files on its way: one
  lemma says what the copy of one ref keeps, another carries it over the fold. What
  a whole call does is then one of four things, to one record (`Gains`, `Alters`,
  `Loses`) or to none (`Moved`), and the refinement, `RecordsLeaveByDelete` and the
  walks follow from that. `WInv` adds for a pass that what is due is in the tables
  still to come (`WalkAt`): a split moves records to a table of a higher number
  only. For `OverflowOnlyWhenOverloaded`: while no table is without a redirect the
  redirects are a function onto the tables used; when there are as many tables as
  redirects it is one to one, and a full row holds refs of one redirect only.
- Queues: `QueueInv` says that there is a sequence for each list, shared or
  private, that the links lead through from tail to head, and that no item is in
  two of them or in a process's hands as well (`Good`). `StepSound` shows once
  that every step moves items between these sequences as BatchQueue does. The walk
  along the links that the refinement mapping uses is a recursive function, and is
  shown to be that sequence because a function with its equation is unique.
- Calls: `CallsInv` says that the records of a row are spread over the current
  file and the one that is being shrunk, each in exactly one of the two (`Rep`);
  that a mapping of any other file can be told by its `tab_size` of 1 (`Maps`); and
  that the records agree with the history (`Tallied`: number and sum for each
  key, modulo 2^64). That some inode is always free for a new file is a count of
  the mappings (`FreshIs`). `ZeroInv` follows one count: from the search on, the
  record found stays the first of its key in whichever file it is, and one that
  was counted down to zero keeps the zero, so that the delete, which searches
  again after the lock was free, finds that record.
- Fixed-length tables: `FixedInv` says that the data is a row of places of equal
  size, each with a live record or on the free list, which visits every deleted
  place once (`Chain`), and that the header counts them. The bytes of two places
  are disjoint by arithmetic; the shrink is a renumbering of the live records by
  their rank.
- Log: `LogInv` says, for every point of the log thread, which bytes of the
  buffer are already in the file and how many it has counted. Appends only add at
  the end; the move to the front drops what is written. The refinement follows
  from it: every step adds a whole line to the text, or a piece of the rest to the
  file, or neither.
- Life: `LifeInv` says that a directory is whole and its creator's own until the
  rename, that a directory nobody harmed has one creator, that what is mapped is
  counted unless somebody hurried, and that the tables counted exist.
- Ipc: `SetInv` says at each line of either program what the queue keys hold and
  which set each setting was read from. `RaceInv` bounds the count of a race line
  by the number of programs that are past it. `PlayInv` carries the invariant of the
  queues through the two programs: it holds of the empty lists before
  `shf_q_new` has run and again after each `shf_q_new` and `shf_q_get`, and
  every step of a program between them is a step of ShfQueue. That gives
  `ListsSound` and `NoItemTwice` of the queues for the programs as well
  (`IpcQueues`). For the assertions of the tests, each queue, with what is
  pulled and not yet handled at one end and what is pushed and not yet flushed at
  the other, is read as one sequence (`Whole`). In each round of A alone the two
  queues of the round and the hand have all `q_items` items, the third queue
  is empty, and the stamps are numbered in the order the items stand (`FillInv`),
  so that a round that ends has had every item, in order. `SoundInv` adds what a
  program has prepared at each line, from which its types follow.

The operators that fold over a set or along links are recursive, and the
induction theorems of the library cannot be used. The proofs argue by the least
counterexample instead: the natural numbers and the finite sets are well founded,
and from the least length or smallest subset for which an equation fails follows
that it fails for a smaller one (`LeastOf`, `LeastSet`, `SumStep` in
ShfCallsProofs, and their like in the other modules).

Only model-checked:

- liveness: `NoStarvation`, `AppendsReturn`, `DelReturns`, `DeletedUponExit`,
  `BothEnd`;
- the type invariant of ShfTable, whose bound on `tab_refs_used` no other proof
  needs.

## Not modelled

The program `shf.log`, which only copies lines from its input to a file; the spin
lock that is compiled out; settings and statistics counters
(`shf_debug_get_garbage` follows pointers of tables that the process may not have
mapped; it is a debugging aid); how `shf_backticks` collects the output of a
command; the hash function, the C++ wrapper, whose methods each forward to one C
function, the test support, and the test programs other than the two of
`test.q.shf.c` and the queues of `test.9.shf.c`. `shf_add_uid_val`, which is `shf_add_key_val` without the put.

In what is modelled: the truncation that `shf_tab_create` does to a file another
process has just created and grown (ShfCalls has no file sizes); a creator's
temporary directory that is left by a process with the same number; more than one
window (windows share nothing but the directory); `is_lockable` 0; system calls
that fail, except `write()` of the log and the `open()` and `rename()` of
`shf_attach`; the eight bytes that the atomic increment of the one-byte race line
touches; and the weaker orders of memory accesses that a compiler or processor
could produce.

## Plan

1. Done: the modules and runs above; proofs of the lock, queues, calls, tables and
   their iteration, fixed-length tables, log, life, and the two programs with their
   queue sets.
2. Left: the liveness properties, which the prover cannot state; the split of a
   full fixed-length table at byte level.

# A verification development for three data-structure programs and their checkers

The repository holds three independent C programs, each with its own tests, and two checkers
written in Python:

| Program | Directory | What it is |
|---|---|---|
| Distributed database | `Distributed Database/skel` | a load balancer with a consistent-hashing ring over servers that keep documents, an LRU cache and a queue of postponed edits |
| Segregated free lists | `Segregated Free Lists` | a simulated heap: free blocks in lists by size, allocated blocks in one list, reads and writes across blocks |
| Facebook clone backend | `Facebook Clone Backend` | a graph of friends, posts with trees of reposts, likes, and feeds computed from both |
| cpplint | `Distributed Database/cpplint.py` | the style checker of the database: it takes comments and strings out of C++ files, keeps a stack of blocks while it goes through the lines, and reports errors past filters and `NOLINT` marks |
| Checker of the heap | `Segregated Free Lists/check_utils` | builds the heap, runs its tests, and computes a grade with the list of deductions |

They share no code. All are single-threaded and read commands or files; what makes
them hard is not parallelism but state kept twice (list and hash table, list and counter), work
that is acknowledged now and done later, requests that are handled in several steps with other
state read on the way, and long sequences of legal commands that end in a state nobody tested.

## 1. Inventory

### 1.1 Distributed database

| Part | Source | State | Operations |
|---|---|---|---|
| LRU cache | `lru_cache.c`, hit handling in `server.c:118-157` | hash table of documents, list of use, `size`, `cache_capacity` | get, put (evicts when full), remove, reorder on a hit |
| Database of a server | `database.c` | hash table of documents | get, insert at the head of a bucket, overwrite |
| Task queue | `task_queue.c` | list of postponed EDITs | append, take the oldest |
| Server | `server.c` | the three above | `server_handle_request`: EDIT is queued; GET, or a request without a document, executes the queue and then reads |
| Load balancer | `load_balancer.c`, `list.c` | array of servers, `server_tags` sorted by hash, `number_of_servers` | add server, remove server, forward a request |
| Main | `main.c` | the input | one request after the other |

Interactions: main calls the load balancer; the load balancer calls the server a document's hash
selects, and, when a server joins or leaves, first calls the server that gives up documents with a
request without a document, so that its queue is executed, then moves entries between databases
and drops them from the giving server's cache. All calls are synchronous; the state a handler has
read may change in the flush it then calls (the ring already has the new tag, the queue is
executed by a server about to give its documents away).

Correctness: the servers together are a map of documents (a GET answers the last acknowledged
EDIT); the cache is coherent with the database, holds at most its capacity, evicts the least
recently used document; the ring is sorted and has one tag per server; no acknowledged EDIT is
lost; queued EDITs of one document are executed in order.

### 1.2 Segregated free lists

| Part | Source | State | Operations |
|---|---|---|---|
| Free lists | `main.c:80-135` | an array of lists sorted by block size, each with a count and blocks sorted by address | insert a block, add a list (doubling `capacity`), sort |
| Arena | `main.c:137-166` | list of allocated blocks sorted by address, with payloads | insert, unlink |
| Heap commands | `main.c:168-545` | counters of memory, blocks and calls | create, `MALLOC` (first fit over the sorted lists, which is best fit; splits), `FREE`, dump, destroy |
| Reads and writes | `main.c:644-800` | payloads | a walk over adjacent blocks; a fault destroys the heap and ends the program |

Hard: the unlinking branches trust the counters (`number_of_blocks == 1`, `total_mallocs == 1`)
instead of the links; the split may add a list to the array being scanned; blocks of size 0; the
read and write walks, which stop before the last block and use address 0 as "not found".
Correctness: free and allocated blocks always tile the area of the heap; every counter equals what
it counts; a `MALLOC` takes a smallest sufficient block, the lowest such one; a read returns what
the last writes put there.

### 1.3 Facebook clone backend

| Part | Source | State | Operations |
|---|---|---|---|
| Users | `users.c` | table of names | name to identifier and back |
| Friends | `friends.c`, `graph.c` | adjacency lists with a size | add, remove, distance (BFS), suggestions, common friends, most popular friend |
| Posts | `posts.c`, `tree.c` | array of posts, each with a tree of reposts; matrix of likes | create, repost, lowest common repost, like, delete, count likes, reposts of a post |
| Feed | `feed.c` | none of its own | latest posts of friends, profile, friends who reposted |

Interactions: `social_media.c` hands every line to the handlers it is compiled with, one of which
knows the command (the programs `friends` and `posts` have one each, `feed` has all three); the feed reads the friends' lists, the posts and the trees.

Hard: likes are kept in a matrix indexed by user and post and shared by a post and its reposts;
deleting a repost unlinks by hand and takes its siblings along; the size of an adjacency list is
changed apart from the list; identifiers are consumed by failed reposts; the arrays of the
breadth-first search have one element fewer than there are users.
Correctness: friendship is symmetric with sizes equal to the lists; a distance is the length of a
shortest path; every repost is in exactly one tree under its parent; the likes shown of a post or
repost are those given to it and not taken back; a feed is the newest posts of friends.

### 1.4 cpplint

| Part | Source | State | Operations |
|---|---|---|---|
| Settings | `cpplint.py:850-922`, `6061-6131`, `5870-5948` | filters, line length, verbosity, counting, extensions: all global | options of the command line, `CPPLINT.cfg` of every directory above the file, backup and restore of the filters |
| Suppressions | `571-642` | for each category the lines with a `NOLINT` mark, global | add the marks of a line, reset, look up |
| Text | `1261-1489` | the lines raw, without strings and comments, and with both elided | comments over several lines, raw strings, collapsed strings |
| Expressions | `1492-1726` | none | the other end of a bracket, forward and backward, with guesses about `<` |
| Nesting | `2109-2680`, `5642-5701` | stack of blocks, stack of conditionals with saved copies of the first | update by one line, `#if`, `#else`, `#endif` |
| Functions and includes | `685-847`, `1006-1063`, `2949-3017`, `4363-4521`, `5340-5521` | function at hand and its lines; lists of headers, section and last header | begin and end of a function, order and repetition of includes, missing includes |
| Lines | `5704-5868` | the file at hand | the checks of one line in their order, those of a whole file before and after |
| Main | `5951-6149` | counters of errors, exit status | one file after the other |

Interactions: a check reports through `Error`, which asks the suppressions and filters *at that
moment*; a check of one line may look lines ahead and read their marks; what is set for one file
is found by the next unless it is taken back. Hard: steps of preparing the text that do not know
of each other; guesses taken back; copies of a stack at conditionals; global state between files;
reports at lines further down, before the mark that excuses them.
Correctness: what checks see of a line is its code; both searches agree; the branches of a
conditional leave one stack; an error is printed exactly when nothing in its own file, its
configurations and the command line excuses it.

### 1.5 Checker of the heap

| Part | Source | State | Operations |
|---|---|---|---|
| Configuration | `parser.py` | the fields and tasks of `tasks/config.json` | defaults, points of tests without their own, `--task` |
| Stages | `checks.py` | `grade`, `grade_vmr` (the list of deductions), the grade of every task and test, `.check.grade`, `grade.vmr` | dependencies, build, tests (run, check, run under valgrind), style, readme, clean, print |
| Grader | `grader.py` | the points of a test | write all or none of them to `.check.grade` and end |

Hard: any stage may fail and end the run; grade and deductions are changed by separate calls;
a test is paid before its last stage. Correctness: a test is paid if and only if all its stages
passed; the deductions explain the grade; a program that passes nothing gets nothing.

### 1.6 Not program logic

`checkpatch.pl`, `check.sh` and `install.sh`, Docker files, tests' inputs and expected outputs, and
generated outputs. They are tooling or data and are not modelled; expected outputs serve as the
statement of what a program should answer.

## 2. Modules

```
Distributed database
  Replies            responses of the database
  LruCache           the cache's operations                         (operators)
  DocumentStore      abstract specification: a map of documents     (machine)
  ServerOps          what a server's handlers compute               (operators, EXTENDS LruCache, Replies)
  Server             one server serving requests                    (machine, implements DocumentStore)
  ServerRecency      Server with a history of uses                  (machine, EXTENDS Server)
  LoadBalancer       ring, servers, joins, leaves, input            (machine, EXTENDS ServerOps,
                                                                     implements DocumentStore)
  MCLoadBalancer     hash values for model checking
  ServerOpsProofs    what each handler's operators preserve         (proofs)
  ServerProofs       theorems about Server and ServerRecency        (proofs)
  LoadBalancerProofs ring, caches and sizes of LoadBalancer, where edits wait and in which
                     order, and what holds while servers only join  (proofs)
Segregated free lists
  Allocator          abstract specification: disjoint blocks        (machine)
  SegregatedHeap     the heap with its lists, counters and walks    (machine, implements Allocator)
  MCSegregatedHeap   messages for model checking
  SegregatedHeapProofs  theorems about SegregatedHeap               (proofs)
Facebook clone backend
  Users              users and the process                          (state shared by the next two)
  Friends            the network and its searches                   (machine, EXTENDS Users)
  Posts              posts, trees of reposts, likes                 (operations, EXTENDS Users)
  SocialMedia        both, and the feed                             (machine, EXTENDS Friends, Posts)
  LikeHistory        SocialMedia with a history of the likes given  (machine, EXTENDS SocialMedia)
  MCFriends, MCSocialMedia   pairs of users for model checking
  SocialMediaProofs  theorems about Friends, Posts, SocialMedia and LikeHistory (proofs)
cpplint
  LintText           lines, comments, strings, raw strings          (operators)
  LintExpressions    both searches for the end of an expression     (operators, EXTENDS LintText)
  LintNesting        stack of blocks and of conditionals            (operators, EXTENDS LintExpressions)
  LintChecks         checks that look at several lines, functions   (operators, EXTENDS LintNesting)
  LintIncludes       order, repetition and need of headers          (operators, EXTENDS LintChecks)
  LintSettings       filters, options, configurations, NOLINT       (operators)
  Cpplint            the run over files and lines                   (machine, EXTENDS the two above)
  MCCpplint          files, configurations and command lines
  CpplintProofs      theorems about Cpplint                         (proofs)
Checker of the heap
  Checker            configuration, stages, tests, grade            (machine)
  MCChecker          configurations for model checking
  CheckerProofs      theorems about Checker                         (proofs)
Shared
  Sublists           part of a list, used by LoadBalancer, Friends, Posts and SocialMedia (operators)
  SequenceLemmas     lemmas on sequences, sublists, least elements, sums and folds (proofs)
```

Operators whose comment begins with "Faulty variant" are not part of any specification. Each is a
plausible mistake in the definition of the same parameters that follows it. Put in the place of
that definition it makes a named property fail, which shows that the property depends on it.

### 2.1 Distributed database

| Specification | Code |
|---|---|
| `LruCache` record: `bucket`, `list`, `size`, `capacity` | `lru_cache_t`: hash table, list of use, `size`, `cache_capacity` |
| `Admit`, `LruCachePut`, `FindEvictedKey`, `Touch` | `lru_cache_put` with its eviction, and the relinking of a hit in `server.c:118-157` |
| `db[d]`, a sequence of texts | the entries of `d` in its bucket, first found first; more than one after moves |
| `queue` | `task_queue` |
| `EditDocument`, `EditReply` | `server_edit_document` |
| `GetDocument`, `GetReply` | `server_get_document` |
| `Edit`, `EditDoc` | `server_handle_request` with an EDIT, reached through `loader_forward_request` in the second |
| `BeginGet`, `GetDoc`, then `ExecuteTask` for each task, then `FinishGet` | `server_handle_request` with a GET: the loop over the queue, then the read |
| `AddServer`, `ExecuteTask`, `FinishAdd` | `loader_add_server`: new tag, flush of the source, copying of entries and dropping them from the source's cache |
| `RemoveServer`, `ExecuteTask`, `FinishRemove` | `loader_remove_server`: counter, flush, tag, copying of entries, freeing |
| `Die` | a cache of size 0 (`hash % 0`), a move beyond `entries_ready_for_moving`, the ring after its only tag was freed |
| `tags` | the list `server_tags`, as the sequence of identifiers |
| `served`, `Ready` | the loop of `main.c` over its input |

A text is data: in `LoadBalancer` the text of an EDIT is the number of its request, so a greater
text is a later one and "the latest acknowledged EDIT" is a maximum. Hashes are constants. Log
lines are left out; responses are the values of `reply` and `taskReply`. The unsigned cache size is
kept `% UintModulus`.

### 2.2 Segregated free lists

| Specification | Code |
|---|---|
| `heap.lists` | `main_heap`'s array of lists, each with size, count and blocks in address order |
| `heap.capacity`, `totalFreeMemory`, `totalBlocks`, ... | the counters of `HeapStructure` |
| `arena` | `heap_arena`: allocated blocks with payloads, and its counters |
| `CreateHeap`, `DestroyHeap` | `INIT_HEAP`, `DESTROY_HEAP` |
| `BlockSize`, `InitialList`, `InitialHeap` | `create_heap`: sizes that double from list to list, blocks, counters |
| `Malloc` = `FirstFit`, `Without`, `Rest`, `Cut`, `AddFreeBlock` | `handle_malloc`: scan, unlinking by counter, split, a new list and the sort |
| `Free` | `handle_free` |
| `LeftBound`, `RightBound`, `TooShort`, `Faults` | the bounds and the tests shared by reads and writes |
| `Write`, `Read`, `Fault`, `Crash` | `WRITE`, `READ`, their reported segmentation fault, and the walk that leaves the list and dereferences NULL |

The exchange sort of the array of lists is modelled by its result (`Sorted`: a list goes behind as
many as are `Smaller`), which is unique because sizes are distinct (`ListsInOrder`). `WRITE` ignores its byte count and takes the length of the string,
and so does `Write`. `DUMP_MEMORY` changes nothing; what it prints are the counters that
`CountersMatch` is about. Commands before `INIT_HEAP`, or other than it after `DESTROY_HEAP`, use
NULL or freed memory and are not among the inputs.

### 2.3 Facebook clone backend

| Specification | Code |
|---|---|
| `friendsOf`, `friendsNumber` | the adjacency lists of `graph.c`, and the size kept beside each |
| `AddConnection`, `RemoveConnection` | `add`, `remove` |
| `BeginSearch`, `Explore`, `EndSearch` | `compute_distance`: the reset, one turn of the loop over the queue, the printed answer |
| `leftover` | the element of the last user, which lies behind both arrays: see 5 |
| `Suggestions`, `CommonFriends`, `Popular` | `suggestions`, `common`, `popular`, as what they print |
| `postList`, `reposts`, `children`, `liked`, `pendingPostId` | the array of posts, the data and the lists of the tree nodes, the matrix of likes, the next identifier |
| `CreatePost`, `CreateRepost`, `Like`, `CommonRepost`, `DeleteRepost`, `DeletePost` | `create`, `repost`, `like`, `common-repost`, `delete` |
| `Preorder` | the walks of `tree.c`, and `get-reposts` |
| `LikesShown` | `get-likes`, what it prints of a post or repost |
| `likesOf`, `named` | history variables of `LikeHistory`: who likes a post or repost, by the likes in the input, and who ever liked which of a post and its reposts |
| `Feed`, `UserProfile`, `FriendsReposts` | `feed`, `view-profile`, `friends-repost` |
| `PopularOfNobody`, `DeletePost`, `FriendsRepostsOfNothing` | the three commands that dereference NULL, after which nothing runs |

A deleted repost takes its siblings and all that is below them along, because the unlinking
empties its parent's list; the nodes are out of every tree from then on. Sizes of the lists of
children are never read and are left out. `friends` prints a counter, `ratio` and
`common-groups` change nothing (`common-groups` is empty in the code). The input is valid in the
sense of the program's README: it befriends users who are not friends and parts users who are; it
may name posts and reposts that do not exist, but no post as a repost of itself.

### 2.4 cpplint

| Specification | Code |
|---|---|
| `disk`, `command` | the files and `CPPLINT.cfg` files, the arguments |
| a line: `toks`, `nolint`, `about`, `indent`, `width`, `cr`, `bad`, `tight`, `faults` | a line of text: its words and signs; its `NOLINT` mark and category; what checks of one line measure; whether its semicolon follows without a blank; what is reported at the line for spacing and wording |
| `ParseArguments`, `Configure` | `ParseArguments`; `ProcessFile` up to the opening, with `ProcessConfigOverrides` |
| `OpenFile` | the file is read, markers are put around it, suppressions reset, comments removed, `CleansedLines` |
| `ProcessLine` | `ProcessLine`: nesting, `NOLINT`, namespace, function length, strings, style, semicolons, empty bodies, class, language, faults |
| `FinishFile`, `Finish` | the checks at the end of a file, restored filters; the exit status |
| `Report`, `Errors` | `Error`, once and for all that a check finds |
| `st`, `suppress`, `count` | `_cpplint_state` and the other global settings, `_error_suppressions`, the counters |
| `reports` | every call of `Error` with what became of it, a history variable |
| `RemoveMultiLineComments`, `CleansedLines`, `CollapseStrings` | functions of those names |
| `CloseExpression`, `ReverseCloseExpression`, `EndStep` | functions of those names, `FindEndOfExpressionInLine` |
| `Update`, `UpdatePreprocessor` | `NestingState.Update`, `UpdatePreprocessor` |
| `CheckTrailingSemicolon`, `TrailingSemicolon` | the look-ahead of `CheckTrailingSemicolon`/`CheckBraces` and the marks it reads first |
| `CheckEmptyBlockBody` | the function of that name, which follows the head of a loop or condition to its last line and reports there, and reads no marks |
| `CheckForFunctionLengths`, `CheckLanguage`, `CheckForIncludeWhatYouUse` | functions of those names |

A line is a sequence of tokens: words, signs, and `q` (a quote), `bq` (a backslash and a quote),
`R(` and `)q` (the ends of a raw string). The index of a line is the program's plus one, because
the program puts a marker line before the first; a marker is put behind the last as well. Of the
checks of spacing, casts and wording, all of which report at the line at hand, only their place in the
order, their category and their confidence are modelled: what they find is the `faults` of a line, an
input. The checks that report at another line are `CheckTrailingSemicolon`, `CheckEmptyBlockBody` and
those at the beginning and end of a file, of a class and of a namespace; all of these are modelled but
for header guards, which are not called.

### 2.5 Checker of the heap

| Specification | Code |
|---|---|
| `GetConfig` | `get_config`: `parse_config`, `apply_args`, `get_task`, `get_test` with its assertion |
| `stage`, `After` | the loop of `checker_run` over its checks |
| `CheckDeps`, `MakeBuild`, `CheckStyle`, `CheckReadme`, `MakeClean`, `PrintGradeVmr` | the checks of those names |
| `StartTest`, `RunTest`, `GradeTest`, `EndTest`, `EndTask`, `EndTasks` | the loops of `run_tasks` and `run_task` |
| `tests[i][n]`: `grade`, `code`, `passed` | `test.grade`, the code of the last stage; `passed` is history |
| `Graders`, `CheckTest` | the two ways out of `grader.py`, and what `check_test` makes of its file |
| `grade`, `gradeVmr`, `vmrFile` | `config.grade`, `config.grade_vmr`, the file `grade.vmr` |
| `"crashed"` | the assertion on a test's points; `None <= 0` in `check_readme` |

Compiler, program, valgrind and style script answer anything. Points are multiples of `1/One` of a
point, so that the style grade, a proportion, is a whole number.

## 3. Runs

Each configuration is named after its run's module. Bounds are the constants of the `.cfg`.

| Run | Question | Bounds, and why they are enough |
|---|---|---|
| `Server.cfg` | One server implements the map of documents; cache consistent, coherent, least recently used evicted; every request answered | 3 documents in a cache of 2, so that evictions, hits at head and tail and edits of evicted documents happen; 2 texts; queue of 2 (`MaxQueue`) so that order within a flush matters; counter modulo 16 |
| `LoadBalancerGrow.cfg` | While servers join behind the head of the ring, the servers together implement the map; the input is served | 2 documents, 3 servers, 7 requests: two joins that move documents with edits between them and reads after |
| `LoadBalancerElastic.cfg` | What survives joins and leaves anywhere on the ring, of known, unknown and last servers | as above with leaves, stray leaves, joins as head, cache sizes 0 and 1, 8 requests: join, edits, leave, join again; a cache of size 0 traps, and so does the ring after its only tag was freed |
| `SegregatedHeap.cfg` | Blocks tile the heap, counters and orders hold, best fit, reads answer writes, implements `Allocator` | 2 lists of 4 bytes (2 blocks of 2 bytes, one of 4), `MALLOC` of 0, 1 and 3 bytes, 4 of them: exact fits, splits that add lists and double the array, empty blocks, exhaustion; messages of 1 to 3 characters cross block ends |
| `Friends.cfg` | The network stays mutual, searches end and answer | 4 users, all pairs: the last user, a path through him, one around him; searches from the first and the last user |
| `SocialMedia.cfg` | Trees, feeds and friends in step | 3 users, 2 who post, 4 identifiers: siblings and grandchildren to lose; unsigned counters modulo 3 wrap; feeds shorter and as long as the posts |
| `LikeHistory.cfg` | Likes shown are those given, where nobody likes two of a post and its reposts | 2 users who like, 3 identifiers, all reposts and deletions: likes of one user for a post beside those of the other for its repost, taken back and given again, and for posts whose likes were forgotten with a deleted repost |
| `Checker.cfg` | Grade and deductions agree, whatever the tools answer | 5 configurations with 1 or 2 tasks and up to 3 tests: valgrind asked for by the task or by a test, fields left out, a distribution that gives too much away; with and without `--task` and the online judge |
| `Lint.cfg`, one file | Its code, its expressions, its blocks, its includes | all lines of up to 4 marks or 4 signs, pairs of shorter ones, all files of 3 of the lines in `TextLines`, `SignLines`, `BlockLines`, all branches of nested conditionals over 5 bodies, all files of 5 include lines, all of 4 of them with inline assembly and a comment whose quotes hide an include: every step of the preparation meets every mark of every other |
| `Lint.cfg`, several files | Settings and marks | 4 files in 2 directories, one of an unknown kind, one missing; a first file of up to 3 lines with marks, or with a head of a loop or condition and 3 lines that end it, have its body or a mark; a second one with its own; 32 sets of configurations and 6 command lines, and 7 that end the program |
| `LoadBalancerLost.cfg`, `LoadBalancerOverflow.cfg`, `LintConfig.cfg` | three disagreements with the expected outputs and the documentation, section 5 | small enough for a short trace |

`MaximumDatabaseEntries` (1000 in the code), `FirstSize` (8), `MaxPosts` (200) and `UintModulus`
(2^32) are smaller in the runs; nothing in the code depends on their values other than as limits.
`Friends.cfg` asks distances from two of four users only; by symmetry the others add nothing but
the same search from the middle.

Deadlock is checked for the server, which always takes another request. The other runs set
`CHECK_DEADLOCK FALSE`: the inputs of the load balancer and of the checkers end, and each of the
other programs can end its process by a fault.

### 3.1 Fairness

All programs have one thread. Nothing makes a client send a command, so no command is fair;
what has been begun goes on, because it is a loop of the only thread:

- `Server`: `WF(ExecuteTask)` and `WF(FinishGet)`, the two parts of a GET that has been read;
- `LoadBalancer`: `WF(Next)`: `main` reads its input to the end;
- `Friends`: `WF(Explore \/ EndSearch)`: the loop of the search.

The checkers state no liveness: their loops are over finite lists, and every step uses one element.

### 3.2 What the properties say

- The refinements `StoreSpec` (server, load balancer) are the strongest: a GET answers the last
  acknowledged EDIT although edits wait in queues, texts sit in caches, and documents change
  servers. For the load balancer this holds only while no server joins as the head of the ring and
  none leaves; with those, `NoEditForgotten` remains: no text that is the latest is dropped by all
  servers at once, though a GET may not find it.
- `TasksAtDestination` and `EditsInOrder` are what makes queues and moves fit together.
- `CachesConsistent` and `EvictsOnlyWhenFull` are what is left of the cache's invariants once
  documents move; `CacheConsistent` and `CachedWhileRoom` (a theorem) hold on a server alone.
- `RingSorted` holds whatever leaves; `TasksAtDestination`, `EditsInOrder` and `NoEditForgotten` are
  about inputs that remove only servers that exist and never the last one: `CounterInStep` is
  their condition. Each type invariant is a conjunct of the first property of its module.
- `BlocksTileMemory`, `CountersMatch` and `ListsInOrder` hold the heap together: the unlinking
  trusts the counters, best fit trusts the order, `FREE` trusts that sizes are distinct.
- `TakesBestFit` compares the array of lists with the set of all free blocks.
- `ReadsBackWritten` states what `READ` and `WRITE` share with each other, gaps and bounds included.
  Whole messages are promised only where no block of 0 bytes follows: with blocks (address, size) (1, 3),
  (4, 1), (4, 0), (5, 1) a `WRITE` of 3 bytes at 3 stores two and reports nothing.
- `DistanceOfOthers` bounds what the missing element can do: every user but the last gets the
  distance in the whole graph or in the graph without the last user.
- `FriendListsAnswered`, `CommonRepostIsLowest` and `FeedsAgree` compare an algorithm of the code
  with its definition, in every state that can be reached.
- `TreesInOrder` relates posts, reposts and their lists after any sequence of commands.
- `LikesCounted` compares every counter with the likes in the input, although the program keeps no more
  than one mark of a user for a post and all its reposts, and a deleted repost takes its counter along and leaves
  the mark. It is about the posts of which no user has liked two, the post and a repost or two reposts: for
  the others it is false, see 5. Counters are compared up to their width.
- `ElidedIsCode` compares the program's passes over the text, each blind to the others, with one
  reading by the rules of the language (`Reading`), for every text without a complaint. `Readable`
  names what the program is known not to read: it is the condition, not a weakening for convenience.
- `CloseAndReverseAgree` relates two algorithms. Expressions that have `>=` or `operator<` and the like on their
  lines (`ReadInTwoWays`) are excluded, which the two do read differently: from the first `<` of `< < >= >` the search
  forwards comes to the last `>`, and from there the search backwards to the second `<`.
- `ElseLeavesNoTrace` replays the first branches alone and expects the same stack of blocks. It is about texts
  with nothing but comments behind an `#endif`: braces there would count for the line of the `#endif` and
  belong to no branch.
- `RepeatedIncludeReported` is what is left of the lists of headers around conditionals: a header
  first included outside of all conditionals is never missed. What is an include or a conditional is told by the
  code of a line, as the program does, and the name is read from its text: told by the text, the property is false,
  because a quote in a comment may hide an include from the program. An open block of inline assembly keeps a
  line from all checks (`cpplint.py:5730`), so texts with the word `asm` are excepted, and so is an `#else`
  without an `#if`.
- `ReportedUnlessExcused` defines what should be printed from the input alone, and compares it
  with every decision the program took with the state it had at that moment. Empty bodies found on
  a line further down are the exception, because that line's marks are not read first (see 5): what no
  mark excuses is printed, and what is printed is not excused by the marks up to the line at hand.
- `FiltersAsGiven`: the four ways out of a file all take its filters back.
- `EarnedByAllStages`, `VmrExplainsGrade` and `NoTestsNoGrade` tie the grade to what happened, not
  to the calls that changed it.

## 4. Proofs

Every theorem holds for every value of the constants that satisfies the assumptions named here.

| Module | Theorem | States |
|---|---|---|
| `ServerProofs` | `TypeCorrect` | `Spec => []TypeOK`: the unsigned size never wraps on a server alone |
| | `CacheStaysConsistent` | `Spec => []CacheConsistent` |
| | `CacheStaysCoherent` | `Spec => []CacheCoherent` |
| | `EditsAnsweredAsEdits` | `Spec => [](CachedWhileRoom /\ EditAnsweredAsEdit)` |
| | `ImplementsStore` | `Spec => StoreSpec`, the refinement of `DocumentStore` |
| | `CacheIsLeastRecentlyUsed` | `RSpec => []CacheHoldsMostRecent` |
| `LoadBalancerProofs` | `StructureInvariant` | `Spec => []Structure`: types, ring and well-formed caches, the invariant the next ones rest on |
| | `RingStaysSorted` | `Spec => []RingSorted` |
| | `CachesStayConsistent` | `Spec => []CachesConsistent` |
| | `EvictsOnlyFromFullCaches` | `Spec => []EvictsOnlyWhenFull`, when `CounterHasRoom` |
| | `OrderlyInvariant` | `Spec => [](Structure /\ Orderly)`, for the next three |
| | `TasksWaitAtDestination` | `Spec => []TasksAtDestination` |
| | `EditsStayInOrder` | `Spec => []EditsInOrder` |
| | `NoEditIsForgotten` | `Spec => NoEditForgotten`, an action property |
| | `OneEntryPerDocumentWithoutLeaves` | `Spec => []OneEntryPerDocument`, when `NoLeaves` |
| | `CachesCoherentWithoutLeaves` | `Spec => []CachesCoherent`, when `NoLeaves` |
| | `GrowingRingImplementsStore` | `Spec => StoreSpec`, the refinement of `DocumentStore`, when `JoinsBehind` |
| `CheckerProofs` | `EarnedOnlyByAllStages` | `Spec => []EarnedByAllStages` |
| | `NoGradeWithoutTests` | `Spec => []NoTestsNoGrade` |
| | `VmrListsDeductions` | `Spec => []VmrExplainsGrade`, when `PointsAddUp` |
| `SocialMediaProofs` | `FriendshipStaysMutual` | `FriendsSpec => []FriendshipMutual` |
| | `DistancesAreShortest` | `FriendsSpec => []DistanceOfOthers` |
| | `FriendListsAlwaysAnswered` | `FriendsSpec => []FriendListsAnswered` |
| | `TreesStayInOrder` | `Spec => []TreesInOrder` |
| | `CommonRepostAlwaysLowest` | `Spec => []CommonRepostIsLowest` |
| | `FeedsAlwaysAgree` | `Spec => []FeedsAgree` |
| | `LikesAlwaysCounted` | `HistorySpec => []LikesCounted` |
| `SegregatedHeapProofs` | `HeapInvariant` | `Spec => []HeapInv`, the invariant of the next ones |
| | `CountersStayRight` | `Spec => []CountersMatch` |
| | `ListsStayInOrder` | `Spec => []ListsInOrder` |
| | `BlocksKeepTiling` | `Spec => []BlocksTileMemory` |
| | `MallocIsBestFit` | `Spec => TakesBestFit`, an action property |
| | `HeapImplementsAllocator` | `Spec => AllocatorSpec`, the refinement of `Allocator` |
| | `WritesAreReadBack` | `Spec => []ReadsBackWritten` |
| `CpplintProofs` | `FiltersAlwaysAsGiven` | `Spec => []FiltersAsGiven` |
| | `ReportedAlwaysUnlessExcused` | `Spec => []ReportedUnlessExcused` |
| | `RepeatedIncludesAlwaysReported` | `Spec => []RepeatedIncludeReported` |
| | `ElseNeverLeavesATrace` | `Spec => []ElseLeavesNoTrace` |

### 4.1 Assumptions

- `NullAssumption`, `NoneAssumption`, `NoHeapAssumption`: the values that stand for NULL are none of the things they
  stand in for.
- `UintAssumption`, `ServerAssumption`, `LoadBalancerAssumption`: the modulus of an unsigned int is
  a positive number; the capacity of a lone server is at least 1 and below it; hashes and
  bounds are numbers, and no two servers have the same hash.
- `UsersAssumption`: there are at most `UintModulus` users. `users_number` is an unsigned short,
  the sizes of lists are unsigned ints, so the program cannot hold more.
- `HeapAssumption`: what `INIT_HEAP` and the other commands are given are natural numbers, the
  smallest blocks have at least one byte (8 in the code), and a byte that was never written can be told
  from a character.
- `FriendsAssumption`, `PostsAssumption`: who is befriended, asks and likes is a user, nobody befriends
  himself, and the values that stand for "no repost", NULL and an unreached distance are none of the things
  they stand in for.
- `SocialMediaAssumption`: the array of posts is no longer than `Unseen`, the 10000000 that `feed.c` begins a
  feed with (it has 200 elements).
- `ConfigsAssumption`, `OneAssumption`: configurations have the form a JSON file of the checker has.
- `InputsAssumption` of `Cpplint`: options and lines of configurations have values of the kind their names call
  for, a filter is a sign, which may be missing, and a prefix. The program gets them from strings by splitting
  and `int`, which give nothing else or stop. The lines of a file have a mark of the kinds that `NOLINT` and
  `NOLINTNEXTLINE` make, and what is wrong with a line alone has categories of the program.
- `CategoriesAssumption`: the categories that the modelled checks report are among those that a `NOLINT` may name
  (`_ERROR_CATEGORIES`, `cpplint.py:193`), which is what makes a mark for one of them well-formed.
  `NeedsAssumption`: the table of headers for names of the library is finite.

Some theorems have a hypothesis besides, which no code checks:

- `NoLeaves`: the input has joins and no leaves. `CachesCoherent` and `OneEntryPerDocument` are not true with
  leaves, see 5.
- `JoinsBehind`: besides, no server joins as the head of the ring once there are documents. With one, `StoreSpec`
  is not true (run `LoadBalancerLost`); the hypothesis is what run `LoadBalancerGrow` has as its input.
- `CounterHasRoom`: a cache size plus the entries all joins of the input can move stays below the
  modulus. A join lowers the unsigned `size` of a cache for every entry it moves, cached or not
  (`load_balancer.c:145`), and a size that wrapped below zero would be over the capacity and evict
  from a cache that is not full. With 2^32 and moves of up to 1000 entries, an input must have more
  than four million requests to leave that room. Runs `LoadBalancerGrow` and `LoadBalancerElastic`
  satisfy it.
- `PointsAddUp`: the numbers of a configuration are numbers, points are given to tests the task
  has, and a task that gives points to all of its tests gives no more than it has. `MCChecker`
  assumes the same of its configurations, and TLC evaluates it.

### 4.2 Arguments

`Server`. None of the properties is inductive as it stands. Coherence needs the list of use to name
exactly the cached documents, without repetition, or the eviction of the last element would leave a
stale text; consistency needs the size to be the list's length and at most the capacity, or a put
into a full cache would not evict; and the answer to an edit depends on every stored document being
cached while there is room, because only then does a miss with room mean a new document. The
inductive invariant `Inv` is the conjunction of these: types, a well-formed cache, the capacity,
coherence, cached-while-room, the types of the replies and `EditAnsweredAsEdit`. `ServerOpsProofs`
proves for every operator (`Admit`, `Touch`, `EditDocument`, `GetDocument`, `ExecuteOldest`) what
it preserves; `ServerProofs` combines them action by action. For the refinement, `Acknowledged(d)`
maps a document to the text of its last queued EDIT, or else to its database text; `ExecuteTask`
leaves it unchanged because it executes the oldest task, `Edit` changes it to the edit's text.

Recency. `HistoryInv` says more than the property: the list of use is, element by element, the
beginning of the history of uses, and the history is longer only when the cache is full
(`Remembers`). A hit moves the same element to the front of both, a miss puts one in front of both
and drops the last of the list alone.

`LoadBalancer`, structure. `Structure` joins the types with a ring that is strictly ascending, has
exactly the servers of the array, and servers whose caches name exactly the documents of their
lists. The tag of a new server is inserted before the first greater one, and a lost tag leaves
the rest ascending. `CachesConsistent` follows because a move drops an entry from table and list
together. The size is another matter: `SizesExplained` says of each cache that its counter, modulo
`UintModulus`, is the length of its list less at most `k` (`Debt`), with `k` at most
`MaximumDatabaseEntries` for each request that is finished; every put pays for what it adds, every
move raises the debt by what it took from the counter and not from the list.

`LoadBalancer`, order. `CountedTags` (the counter is never ahead of the ring) makes a counter out of
step stay so, and with it the condition of the properties is one about the past. While the counter
is in step, `EditsPlaced` says that the edits of a document wait at one server only, the one that a
GET would reach or the one being flushed for a move; `TextsServed` that texts are numbers of requests
that were read; `Ordered` that queues increase and that what waits is later than what is stored
anywhere. The two moments that need care are the join, whose new tag makes the flushed server no
longer the one a GET reaches, and the leave, whose tag is taken only after the flush. `NoEditForgotten`
follows from these, action by action.

`LoadBalancer`, joins only. `Growing`: while a server joins it is untouched, and the request is at the server that
owned its part of the ring; a GET is at the server that owns its document; and in every server a cached text is
that of the database, with one entry for each document. A move then gives entries to an empty database. For the
refinement, the text of a document is what its owner has queued last or else stores. `Behind` adds
that a server that joins is not the head, unless there is no document: then whatever the new tag takes from its
neighbour is moved, and for no document does the text that a GET would find change with `AddServer`, `ExecuteTask` and
`FinishAdd`, which implement stuttering steps of `DocumentStore`.

`Checker`. `CheckerInv` says how far the results have grown at every stage: every task before the
one at hand has results for all its tests or was skipped, and every result agrees with the stages
the test passed. `SkipsInv` adds when the grade can differ from 0 although nothing is earned.
`BalanceInv` says that before the end, the grade is what could be earned of the points so far plus
the sum of the deductions listed; every place that changes the grade must also list the change,
and the ways out that do not write `grade.vmr` are the exceptions it names. Sums over tasks and
tests are handled by the lemmas on `SumOver` in `SequenceLemmas`.

`Friends`. `FriendsInv` adds to the property that no list names a user twice, himself or a stranger
(`Mutual`), and the types of a search under way (`Searching`): a list without repetitions of other
users is shorter than the number of users, so the size beside it, kept modulo `UintModulus`, is its length
and never wraps.

`Friends`, searches. `SearchInv` says that a search goes over all users or overlooks the last one (the element behind
the arrays may say that he was visited), and where it stands (`Breadth`): who was seen has the level of the
first walk to him as distance, the queue is in the order of distances, which differ by one at most, who has left
the queue has only friends who were seen, and the level of the queue's first user was seen as a whole. When the queue is
empty, the users seen are closed under friendship. The lists of
friends that the other commands print (suggestions, common friends, the most popular) are folds; each turn is
shown to keep what has been collected right, once and in the printed order.

`Posts`. `PostsInv`: posts stand in the order of their identifiers, a repost hangs below exactly one node, which has
a lower identifier, and lists of children ascend. So trees have no cycles, and a proof about a tree goes
down by identifiers. `common-repost` answers after one walk from the root, and the proof follows the walk to
the first node below which the two reposts part. Each turn of a feed (`FeedsAgree`) shows the greatest
identifier below the last one shown, so that after `i` turns these are the `i` newest posts there are to show.

`LikeHistory`. `HistoryInv` joins `PostsInv` and the property with `LikesRecorded`: who likes one of a post and its
reposts has named it, who has a mark is among those who named one, and as long as a user has named a single one, he has
a mark exactly if he likes that one. That decides what the next `like` does: with a mark it
takes back, without one it gives, and in both cases the counter moves with the set of those who like. The other commands
are `Quiet`: they leave marks and history alone, and add only posts and reposts with a counter of 0 that nobody
has named, because identifiers are not used again.

`Cpplint`. `SettingsInv`: between two files the filters are those the command line gave, and from the
configuration of a file to its end the backup is. No line of a configuration changes the backup or the verbosity,
however far up it stands and however the reading ends; the turns of the folds over options, lines and
directories are named (`OptionsTurns`, `ConfigTurns`, `WayUp`) and followed one by one.

`Cpplint`, reports. `FilterInv` says what the filters of a file are while it is checked: the default, those of the command
line and those of its own directories, the outermost first, however the fold over directories collected them; and
`HiddenIs` that the fold over the filters decides as the last one that fits. `ReportsInv` is about the marks: there is
a set of lines, those before the line at hand among them, such that exactly their marks are in force. An error
is judged right although other marks have not been read, because no check reports an error at a line that such a
mark could excuse: `ErrorsBut(es, U)` says that no error is at a line of `U` or the one behind it, and every check of a line
satisfies it for the lines further down, but for errors of empty bodies (`ErrorsAhead`). That needs of every block on the stack only where it began, and that no
conditional puts another one there (`Nesting`, `UpdateKeeps`). Two checks look further. The one for
the semicolon behind a block reads the marks of the semicolon's line and of the line before it first, and they join the
set; the one for empty bodies (`EmptyBodyErrors`) reads none, and its errors are judged by a set that has
the lines up to the one at hand, which is all that the property says of them. That there is a line before it holds because the first line, a marker, has no brace, and remains so through
all passes over the text (`TextType`, `NoBraceFirst`). At the end of a file all marks have been read, and at
its opening none, which is why nothing found then can be excused.

`Cpplint`, repeated includes. The lists of headers are only ever lengthened, one more at each `#if`, and an `#else` or
`#elif` empties the last. `RepeatsInv` says, for a text without inline assembly, that no block
nor any saved stack of blocks has an assembly state (`CalmNesting`), so every line reaches the check of its
language (`LineLooked`); and that an include outside of all conditionals is in one of the first `b` lists, where `b` is
the number of lists while no conditional is open and smaller otherwise (`Remembered`). The bound is what
keeps it: an emptied list is the last one, and there is an open conditional, because an `#else` has
its `#if` (`RememberMore`). A header that is in a list is found again, whichever list it is in (`KnownIncluded`), and
its report is in the list of reports, which only grows (`Grown`). The conditionals that are open come from a recursive
function; that it exists, and takes one step per line, is proved as for the other loops (`OpenExists`, `OpenIs`).

`Cpplint`, conditionals. Two stacks of blocks are `Alike` when their blocks agree in what the lines to come read or
count: kind, name, start, whether the brace was seen, and open parentheses; the access level and the rest may differ. A line does the
same to alike stacks (`AlikeLine`, from one lemma for each of its steps: `AlikeParens`, `AlikeHeads`, `AlikeAccess`,
`AlikeBraces`), and an `#endif` followed by words alone leaves a stack alike (`EndifKeeps`). `Traced` relates
the state to the stack of the first branches. There is a checkpoint for each open conditional, and both say whether it has come
to an alternative. If none has, the stack is alike to that of the first branches; otherwise the outermost
one that has keeps the latter in its `saved`, and what the lines of the alternative do to the stack in use is forgotten
at its `#endif`. Each directive is one lemma (`TracedMore`, `TracedOther`, `TracedLess`), and the stack of the first branches takes one
step per line (`StackOfIs`).

`SegregatedHeap`. No property is inductive alone: the tiling survives an unlinking only when the counter
that decides how to unlink is the length of the list, and a block is added to one list only because no
two have the same size. `HeapInv` joins them as `HeapOK`: lists in order with right counters
(`Tidy`), an arena in order, `Counts` and `Tiles`. Lists of lists are awkward to count over, so the
proof sees the free lists as a multiset: `Adds(M, L, b)` says that `M` has the blocks of `L` and
`b`, put into a list or made one, and a measure of blocks is `Additive` when an inserted block adds
its own. The number of blocks, their sizes and, for each byte, how many cover it are such
measures, so one lemma (`AddsWeight`) gives what `MALLOC` and `FREE` do to each: a `MALLOC`
takes away block `b` and adds its rest, and the byte counts of `b` are those of the allocated part
and the rest. `Counts` has one clause more than the property, that free memory is at least that of the
free blocks: the remainders of lists whose size does not divide `MaximumSize` are counted as
free and belong to no block, and without the clause `totalFreeMemory` might fall below zero. `INIT_HEAP`
is the longest part: the blocks of a list lie in the memory of the list, those of two lists apart, and
they are as many as the counters say.

`TakesBestFit` and the refinement follow from `HeapInv` and what a `MALLOC` or `FREE` does
(`Allocated`, `Freed`). `Allocator`'s `Malloc` needs disjoint blocks, which is the tiling read the
other way: two allocated blocks with a common byte would count it twice. Its `Write` needs that no byte
below the address changes (`BelowUnchanged`). The walk goes by the order of the list and not by
addresses; were the byte in another block than the first, that block would be behind it in the arena,
at no lower address, and so share the byte with it. A `FREE` implements a stuttering step when a
block of 0 bytes at its address is there twice.

`ReadsBackWritten` is about walks over two heaps, before and after a `WRITE`. A `WRITE` moves no block, so
both walks are the same (`WalkUnmoved`), and each place of an answer is that of a byte the walk meets
(`BytesReadFinds`: the places of successive blocks touch, so none between 0 and the end is left out). For the
whole message, every byte up to the one in question is held by a block, because a reach that ended before
it would have too few bytes (`ReachCovers`); with no empty block and no common bytes, a gap between two
neighbours of the list would leave the byte behind the first of them to nobody (`HeldIsAdjacent`); and
over adjacent blocks places are distances from the address (`PlaceOfAdjacent`). Without its condition on
blocks of 0 bytes the property is false: TLC finds the `WRITE` of 3.2 in a heap with one list and one block
of 8 bytes, where a 0-byte block can stand between two adjacent ones. With it, TLC finds no violation there.

`SequenceLemmas` holds what the others need of sequences, least elements, sublists and sums. Where a
fact needs induction (`Keep`, `SumOver`), the proof takes a least counterexample (`LeastExists`)
and contradicts it, because the library's rules of induction take an operator as a parameter, which the
provers cannot instantiate.

### 4.3 Only model-checked

- `Cpplint`: `ElidedIsCode` and `CloseAndReverseAgree`. They compare two readings of a
  text, each with a state of its own, and need a relation of the two states for every kind of token.
- All liveness (`InputServed`, `RequestAnswered`, `SearchEnds`) and ENABLED, which are out of the prover's reach.

## 5. Where the code and its documents disagree

Shown by the three violation runs. Each also shows in the output of the program: the first two
where it leaves the expected outputs quoted here.

| Run | Code | Document |
|---|---|---|
| `LoadBalancerLost` | `load_balancer.c:139`: a server that joins as the head of the ring does not take the documents beyond the last tag, though requests for them go to it | `ref/test18.ref:15097` expects the text, the program answers (null) |
| `LoadBalancerOverflow` | `load_balancer.c:141`: sources keep copies, which multiply until a move overruns its array of 1000 | `ref/test19.ref:131302`, the first response that is missing |
| `LintConfig` | `cpplint.py:5925`: going up from the file, every `CPPLINT.cfg` assigns the line length, so the outermost decides | `cpplint.py:177`: "unless overridden by a nested configuration file" |

Disagreements that need no run:

- Database. `server.c:91`: after a join a document can be stored and not cached in a cache with
  room; an edit of it is answered by its text, where `ref/test17.ref:1159` expects "has been
  overridden". `load_balancer.c:145`: a join lowers the cache size for entries that were not cached,
  and the cache then exceeds its capacity (`lru_cache.h:24`; `ref/test17.ref:1973` expects an
  eviction). `CachesCoherent` therefore holds while servers join, and not once they leave.
  `load_balancer.h:43-45` describes replica labels and `enable_vnodes`, which the code never reads;
  the value `lru_cache_put` is documented to return is inverted; `main.c:104` accepts a cache size
  of 0.
- Heap. `tip_reconstituire` is stored (`main.c:177`) and never read, so no fragments are joined and
  tests 30 to 34 fail.
- Facebook clone. `friends.c:27`: the arrays of the search are sized, and reset, by the number of
  the last user; a user nobody is connected to can be at distance 0, against `README.md:96`. When the
  last user is left out for that reason, the distances of the others that lead through him are too
  great, or are not found, against `README.md:84` and 96. `posts.c:155`: a deleted repost takes its
  siblings along, where `README.md:303` deletes only what depends on it. `posts.c:49-56`: a user has one
  mark for a post and all its reposts, so his first like of a repost after one of the post is taken for one
  taken back, and lowers the repost's counter, from 0 to its greatest value; by `README.md:269-270` a like is
  taken back by a second like of that same post or repost. It takes four commands: `create`, `repost`, a like of
  each by one user. `LikedApart` excepts this case from `LikesCounted`, and TLC finds these commands without it.
  `common-groups` is empty, so feed tests 06 to 09 fail.
- cpplint. `cpplint.py:3963`, 3966, 4035: `CheckEmptyBlockBody` reports at the last line of a head while
  the first one is at hand, before the `NOLINT` of the last line has been read, so it does not suppress
  what `cpplint.py:69-71` says it does: `while (a` and, on the next line, `b);  // NOLINT` is reported.
  `LooksAhead` excepts this case from `ReportedUnlessExcused`, and TLC finds such a file without it. A filter without a sign in the options, the form its help shows at 91-92 and 96-98, is
  an error, and in a `CPPLINT.cfg` ends the program. Line length, headers and root of one file's
  configuration stay for the next. The filters of one `CPPLINT.cfg` are applied from the last line
  to the first. The include lists are never popped, and `#else` empties the innermost. `}` pops a
  class head whose body has not begun, and class-typed arguments of a function leave such heads
  behind. Errors found before the first line (copyright, an open comment) cannot be excused by
  `NOLINT`. A malformed mark that the look-ahead reads is reported once more. A mark in a comment
  over several lines is lost. The marker lines are too long for a line length below 53.
  `type::max(` counts as a use of `<algorithm>` although the comment at 5324 says it does not match.
  The call of `CheckForHeaderGuard` is commented out.
- Checker of the heap. The line of a failed `make clean` deducts nothing, and neither it nor the
  -100 of a failed build is ever written, because the loop stops before `print_grade_vmr`: an old
  `grade.vmr` stays. `parser.py:124` names two fields that do not exist, so the default penalty of 5
  is never given, and a configuration without `penalty_readme` ends in a `TypeError`. A fine for
  warnings makes the grade of a failing program other than 0, and the stages that pay for style and
  readme are not skipped. `tests_points` is summed before `--task` takes tasks away.

## 6. How the models were compared with the programs

The definitions were also written as small interpreters and run against the compiled programs. For
the database the outputs are identical on tests 0, 1, 4, 9, 11, 13 and 15 to 18, and tests 19 and 20
die in the compiled program at the request at which the model dies (1284 and 1143 entries moved).
For the heap 6000 random scripts, and for the Facebook clone 4500 random scripts for its three
programs, agree in every printed line, the crashes and the stale distances included. An
address sanitizer reports the accesses behind the arrays of the search.
For cpplint the definitions were written as an interpreter over rendered files and compared with
`cpplint.py` on thousands of random files, configurations and command lines: the reports with
line, category and confidence, the exit status and the counts agree.

## 7. Not modelled

- Hash functions: pure arithmetic; the models take hashes as constants. `atoi` of a hash above
  `INT_MAX` is a property of one call, not of the system's state.
- Links of the doubly linked lists (`list.c` of the database and of the Facebook clone): modelled as
  sequences, with the insertion and removal the code does; the links themselves are planned.
- A request for a document before any server has joined, which dereferences NULL
  (`load_balancer.c:326`, 354): no test has one, and `EditDoc` and `GetDoc` are about rings with a tag.
- Adding a server whose identifier is in use: no test does, and its state would be replaced.
- `ratio`: reads counters as bytes, lowest first, which only matters from 256 likes on.
- cpplint: checks of spacing, casts, references, wording and language features, which keep no state, report
  at the line at hand and are inputs here; header guards, which are not called, and `--root`, which only they
  read; the wording of messages. A check that is in `faults` reports whatever its line is,
  so nothing is said of whether its pattern is right.
- Checker of the heap: points written with 6 digits (`grader.py:55`), which are exact here; a task
  with 0 tests, at which `parser.py:71` stops; the log of `utils.py`, the sounds, the copying of a test's files; a grader
  that does not end (`check_test` has no timeout).
- Parsing, printing and freeing at exit; `checkpatch.pl`, the scripts around the programs, tests and generated outputs.

## 8. Plan

In this order:

1. The rest of `Cpplint`: the properties of 4.3.
2. A module of the doubly linked lists as nodes and links, implementing the sequences the other
   modules use, with the hand-written relinking of a cache hit (`server.c:118-157`), the sorted
   insertion of a tag and the removal by key that leaves the head dangling (`list.c:140`).

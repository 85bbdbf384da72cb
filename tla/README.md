# agent-contracts in TLA+

`agent-contracts` is a Rust workspace of the parts an AI agent is put together
from: a session store on JSONL files, an IPC channel between two processes, a
client of MCP tool servers, the providers of several LLM services, compaction
of histories, configuration, and the traits and types they share.  The
application that uses them is not in the repository.

This directory models its parts: those that run concurrently or survive a
crash, and those that turn one thing into another on its way between user,
tools and servers.  It checks the models with TLC, and proves the central
results with TLAPS.
Paths below are relative to `src/crates/`.

    tlc -workers 2 -config StoreOutbox.cfg MCSessionStore   # one run
    tlapm SessionStoreProofs.tla                            # one proof module

## 1. Inventory

| Component | Code | State | Operations | Modelled by |
|---|---|---|---|---|
| session store: log and replay | `agent-store/src/session_store.rs` `load`, `list`, `read_meta`; `agent-contract/src/session.rs` | the lines of one log | fold of the lines into messages, model projection, totals; two passes for durable operations | `SessionLog`, `SessionReplay` |
| session store: file operations | `session_store.rs` `create` … `atomic_write` | `<id>.jsonl`, `.jsonl.tmp`, `.jsonl.gz`, append locks | create, append, append_batch, two durable operations, recover, delete, archive, atomic writes | `SessionStore`, `DurableOutbox` |
| session store: append locks | `session_store.rs` 37-56 | process-wide table of `Weak<Mutex>` | lookup with sweep, lock, unlock, drop | `AppendLocks` |
| IPC client and connection | `agent-ipc/src/client.rs`, `server.rs`, `protocol.rs` | `next_id`, `pending`, the write half, the socket, one task per connection | call, recv_loop, handle_connection | `IpcChannel`, `RemoteCalls` |
| MCP server over stdio | `agent-mcp/src/transport.rs`, `server.rs` | `next_id`, locks of stdin and stdout, `connected`, `tools`, the child | connect, refresh_tools, call_tool, health_check | `McpStdio`, `RemoteCalls` |
| MCP configuration | `agent-mcp/src/config.rs` | none | parsing | not modelled: no state |
| tool hosts | `agent-contract/src/tool_host.rs`, `agent-mcp/src/host.rs`, `error.rs` | the servers' lists of tools, which change | list, call, call_batch | `ToolHosts` |
| compaction | `agent-compaction` | none; messages in, messages out | three strategies, the manager | `Compaction` |
| messages and tool pairing | `agent-contract/src/message.rs`, `agent-llm` (`messages_to_openai`, `message_to_items`, …) | the history an application keeps | conversion to and from three APIs, repair of histories before they are sent | `Messages`, `ChatWire`, `ResponsesWire`, `MessagesWire`, `Conversation` |
| provider streams | `agent-llm` (`openai.rs`, `responses.rs`, `anthropic.rs`) | parser state, watchdog thread, its flag and channel | polls of a stream, frames to events | `SseParsers`, `ProviderTurn` |
| provider retries | `agent-llm` `send_with_retry`, `thread_sleep`, `read_error_body` | attempt, the timer's thread, its waker and channel | retry, back off, give up | `ProviderTurn` |
| request building and dialects | `agent-llm` (`build_body`, `dialect.rs`, `create_provider`, usage) | none | thinking, effort, temperature, hosted tools, cache marks, counted tokens | `Dialects`, `Requests` |
| configuration | `agent-config` | none | load, defaults, environment, bounds | `Settings` |
| errors and recovery | `agent-error` | none | mapping, `strategy_for`, `is_recoverable` | the mapping, in `ToolHosts` |
| application shell | `agent-tauri` | configuration, tool host, a broadcast channel | initialise | `Application` |
| mocks, tests, examples, docs | | | | not modelled |

How they interact.  The application calls everything; the crates hardly call
each other.  What they share is a file (several `SessionStore` handles, or two
tasks with one), a socket (tasks of one `IpcClient` and the task that serves
them), the two pipes of a child process (tasks with one `McpServer`), or the
waker slot and the channel between the task of a provider call and its timer
threads.  The
registry of append locks is the one piece of global memory.

What is hard in this code, and where it is (the full list with lines and the
properties aimed at each is under "hazards" in `PROJECT.json`):

* *Appends that meet.*  An append awaits between looking for a duplicate,
  opening, writing and flushing.  One lock per path must hold across all of
  it, although locks are dropped when nobody has them and the table that finds
  them is swept.
* *Crashes in the middle of a write.*  A torn last line must be cut off by the
  next durable append, and nothing else with it.  `recover`, plain appends and
  atomic writes each meet the torn line, or the leftover of an interrupted
  call, in their own way.
* *Retries.*  A caller that lost its answer stages the same message again,
  while the first attempt may be on file, half on file, or about to be.
* *Late and missing answers.*  A timer fires while the answer is on its way; a
  caller is dropped in the middle of a frame; another task reads one's answer;
  the server or the child dies with calls in every stage.
* *Threads that wake a task.*  The providers write their timers by hand: a
  thread sleeps, leaves a message and calls a waker, while the task may be
  polled at any moment.
* *Ends that coincide.*  A streamed turn has an end of its own, the stream has
  one, the connection may break and the watchdog may fire, in any order.
* *Histories that are broken.*  A turn is interrupted between calls and
  results, a result is lost, compaction cuts anywhere, another provider goes
  on.  Nothing is stored at the servers, so each request is rebuilt from the
  whole history, and each server refuses another kind of break.
* *Choices that outlive what they were made for.*  The same thinking, effort
  and tools go to eleven kinds of providers, each with words of its own.
* *Lists that change.*  A tool is looked up in one list and called after a
  refresh has replaced it.
* *Sources that overlap.*  File, defaults and environment make one
  configuration, and are checked once.

What makes each component correct:

* *log*: what `load` gives is the history that was written: each message once,
  in order, cut where a snapshot cuts it; the projection is that of the last
  compaction plus what followed; totals count every line.
* *file*: every line of the file parses; an acknowledged record stays; a
  durable operation is on file once, whatever is retried, and not after its
  cancellation; calls return.
* *locks*: two appends to one path exclude each other; the table stays small;
  a waiter is served.
* *channels*: a request is executed at most once; a call that returns a value
  returns its own; nobody's bytes get into somebody else's request; calls
  return.
* *provider calls*: a request is repeated only when it may be; a turn's tool
  calls are all given, once, before its stop; a cut turn does not look
  complete; every wait ends.
* *conversation*: every request pairs calls with results, and reasoning with
  what it led to, as its server wants; it gives back what the server said; it
  begins with the request before it; compaction keeps order and the newest
  message.
* *requests*: no server gets a word it refuses; one model is asked for the
  same over each of its APIs, and its tokens are counted alike.
* *tool hosts*: a call reaches one host at most, the one it belongs to.
* *configuration*: what is loaded can be worked with.

## 2. Modules

Every module names the code it is about; `PROJECT.json` maps each definition
to its lines.  Operators introduced by a comment `Mutant:` are deliberate
wrong variants of the definition after them.  No specification uses them; they
record which mistakes in the code the properties notice.

### SessionLog: lines, files and `load`

The operators the store is made of, without state.  A line is the record it
parses to, or what is wrong with it (`Garbage`, `BadUtf8`, `Blank`); a file is
its terminated lines and a tail of at most one unterminated piece.  A piece
remembers the record it begins, and how it reads: as no JSON, as bytes that
are not UTF-8 (cut inside a character), or as the whole record when only the
newline is missing.  All records have the same length, so that offsets are
line numbers; this is the one place where bytes are abstracted, and no code
compares lengths of different records.  `Replay` is `load`: a first pass for
the cancelled operations, a fold (`FoldLeft`) for the rest.  `SetLen`,
`Overwrite`, `AppendLines` and `CompleteTail` are what system calls do to a
file that may have changed since it was looked at.  Totals are `u32`:
`% WordSize`.

### SessionReplay: does `load` return what was written?

The application as a state machine that appends whole lines: messages, staged
messages accepted or declined by the running model, snapshots of its working
set, projections, usage and tool lines, and restarts from `load`.  The
properties say what `load` should give in terms of the whole log (the last
snapshot, the first stage record of an operation, …), not of a fold.

### AppendLocks: the registry

`append_lock_for` is one step, `Lookup`, because a `std::sync::Mutex` covers
it: sweep if the table is full, upgrade the `Weak` or allocate.  A lock is
alive while some task has an `Arc` of it; an address can be allocated again
when no `Arc` and no `Weak` keeps it.  `Lock`, `Unlock` and `DropArc` are the
life of the guard and of the `Arc`.

### SessionStore and DurableOutbox: the file of one session

One action per system call; any task may run in between.  The file system has
inodes: a task writes to the file it opened, even when another one has been
renamed over its name or the name is gone.  Writing a record is `WritePiece`
(some of it) and `WriteRest`, or `WriteRest` alone, with `WriteLine` for the
lines of a batch, so a crash, an I/O error (`Abort`) or a dropped future
(`Drop`) can come after any part of it.  `tokio::fs` gives a write to a pool
of threads: the bytes of a dropped append may still land (`LateWrite`), after
its lock is free.  `append_once` is `Scan`, `Repair` and the common write
path; a read of it that fails counts as an empty file (`ReadFails`), as in the
code, and `unread` remembers for which operation; `blind` remembers that a
plain append began behind a torn line, which it does not look for.  `recover`,
`archive` and `atomic_write` take no lock, as in the code.
`SessionStore` takes over from `AppendLocks` that there is one lock per
spelling of the path, and keeps `holder` per spelling.

`DurableOutbox` is what the two durable operations promise, without files:
each operation goes from none to staged to cancelled, once; an answer tells
the truth.  An operation may come into doubt (`Doubt`), and then nothing is
promised for it.  `ImplementsOutbox` maps its state to what the complete lines
of the file say of an operation, and to `unsure` if a call for it could not
read the file.

### IpcChannel and RemoteCalls: one connection

`call` in its steps (register the sender, take the write half, write a frame
in two parts, wait), `recv_loop`, and `handle_connection`, which serves one
request after the other.  Kinds of requests stand for the paths of the
server: a value, an error, a value too large for a frame, an unknown method,
a wrong version, a request too large.  A cut frame takes its missing bytes
from the next one.

`RemoteCalls` is what a caller may count on: executed at most once, own value
or failure; a failed call may be executed later.

### McpStdio: tasks and a child process

`StdioTransport::request` (id, lock of stdin, line, lock of stdout, lines until
the one with the id), `McpServer` on top of it, and a child that answers in any
order, may print other lines and may exit.  A caller may be dropped at any
await: a line it wrote stays cut, and of a line it was reading the part read is
gone.  The child also makes requests of its own, with the ids in `ChildIds`;
`ReadLine` takes any line with the id it wants, as `request` does, so such a
line ends a call with `Ok(Null)`.  It implements the same `RemoteCalls` as the
IPC channel does, where `Misread` allows this for the ids in `Unsure`: none for
the IPC channel, `ChildIds` here.

### SseParsers and ProviderTurn: one streamed turn

`SseParsers` has the three parsers as functions from a parser state and a
frame to the next state and the events given: `ParseOpenAiSse` with
`ParseOneOpenAi` and `FinishOpenAiTurn`, `ParseResponsesSse` with the final
frame's leftover calls, `ParseOneSse` with the stop that waits for
`message_stop`.  A frame is one complete event; how its bytes come in pieces
is left out.  A turn may be cut short: `Short` is what `length`,
`response.incomplete` and `max_tokens` are told as, but for
`ResponseStopReason`, which looks at the calls first.  A usage counts the start
of a turn (`message_start`), the turn so far, or all of it, and comes when the
parser gives it: with every Chat frame that has one, with the last frame of
Responses, with `message_start` and each `message_delta` of Messages.

`ProviderTurn` is the call around them.  Its control is that of the
hand-written futures: a poll happens only if the waker was called (`woken`),
puts its waker in the slot (`Register`) and then looks (`CheckSleep`,
`ReadStalled`, `ReadFrame`, …); the thread of `thread_sleep` takes two steps
(`TimerWakes`, `TimerSends`), and so does the watchdog (`DogFires`,
`DogWakes`).  Any thread may run between the two halves of a poll.
`read_error_body` polls the body before its timer, and a timer that is dropped
keeps its thread, which wakes the task later for nothing (`StrayWakes`).
`AfterError` is the rest of the retry loop, and `WithoutOptions` the second
call of `send_with_retry` for servers that refuse `stream_options`.  What the
server may send is `ChatFrames`, `ResponsesFrames` and `MessagesFrames`: what
the API says, with the liberties the comments of the parsers speak of.

### Messages, ChatWire, ResponsesWire, MessagesWire: what goes over the wire

`Messages` has the content blocks, with words for texts, and the token
estimate.  The three wire modules translate the adapters function by function:
how messages become a request (`ChatMessages`, `ResponsesInput`,
`AnthropicMessages`), what is repaired on the way (`SanitizeToolPairing` puts
a placeholder after a turn whose call has no result and drops results without
a call; `SanitizeInputItems` drops outputs without a call and reasoning
without a product), which keys must be there (`KeyEmission`), and how a
response becomes a message.

### Compaction and Conversation

`Compaction` has the three strategies and the manager as functions.
`Conversation` is the loop around all of these: the user says something, a
request is built and sent, an answer comes or not, its calls are run,
cancelled, lost or left open, and in between the application compacts, loads
an attachment or goes on with another provider.  `history` is what was said,
`prompt` what compaction left of it, and `said` what the server really said,
so that the properties can compare the two ends of the conversions.  An
answer is a sequence of pieces (text, reasoning, a silent reasoning, a call, a
call whose arguments were cut off, a hosted item, a failed one), which each
API puts into its own shape.

### ToolHosts, Settings, Dialects, Requests and Application

`ToolHosts` has a call in its steps: the look at each host's list in turn, the
call of the one that was found, the answer.  `Connect` and `RefreshTools` may
come between any two of them.  `Settings` has `load`, the defaults,
`apply_env` and `validate`.  `Requests` has `create_provider` and the rest of
`build_body` beside the messages, over `Dialects`.  `Application` composes
them as `agent-tauri` and a product on it do: it loads a configuration, makes
a host of the servers named there, creates providers, and asks them with
whatever the user chose earlier, perhaps for another one.  A session of the
model either calls tools or sends requests; the two share nothing but the
configuration, and their states would only multiply.

## 3. Runs

| Run | Question | Bounds | Distinct states |
|---|---|---|---|
| `Replay` | Is what `load` gives the history that was written? | 2 operations, 2 messages, 6 lines, 1 restart | 143,080 |
| `StoreOutbox` | Do two tasks that append, stage and cancel implement the outbox? | 2 tasks, 2 operations, batches of 1 and 2, 4 calls, 1 crash, 1 I/O error | 314,813 |
| `StoreAll` | Which promises survive everything at once? | 2 tasks, 2 spellings, all 7 kinds of calls, 4 calls, 1 error, 1 dropped append | 492,367 |
| `StoreAlone` | Do `recover` and atomic writes survive a crash at any point? | 1 task, 5 calls, batches of 2, 1 crash, 1 error | 614,743 |
| `Locks` | Does the registry keep its locks apart? | 3 tasks, 4 paths, 4 locks, threshold 2 | 95,824 |
| `Ipc` | At most once, own answers, and every call returns? | 2 callers, 3 calls, 3 kinds, 1 drop, 1 stop | 179,088 |
| `Mcp` | The same with a child that answers in any order | 2 tasks, 3 requests, 1 drop, stray line or request of the child's with id 2, exit | 276,614 |
| `Provider` | When is a request repeated, does the reader get away, and what is the consumer told? | 3 APIs, 2 tool calls, 1 retry, streams of 5 frames, of 1 after a repeated request, 1 on its way | 1,185,773 |
| `Conversation` | Is each request accepted, complete, and a continuation? | 6 providers, 4 answers, 3 strategies, 5 messages, 2 disturbances | 196,839 |
| `App` | Are choices, names and sources kept apart and put together rightly? | 16 files, 4 environments, 25 wishes, 14 vendors, 2 servers, batches of 1 and 2, 2 answers | 124,841 |

and two runs that end in a counterexample (section 5): `StoreRecoverCrash` and
`ProviderStuck`.

Why the bounds are enough to be worth running:

* `Replay`: six lines hold a staged message, a snapshot that contains it, its
  cancellation or retry, a projection and a message after it, in every order.
  `WordSize` is 2, so totals wrap.  `SnapshotWhilePending` is FALSE; see
  section 6 for what happens otherwise.
* `StoreOutbox`: after `create`, whose `Meta` line goes the same way, three calls
  are two tasks that stage the same operation at once and a retry after the
  crash or error, or a staging with a cancellation before, after or beside it,
  or a batch of two lines that is cut, one that continues it, and a staging.
  Both a crash and an error can happen, each in the middle of any step.  These
  calls neither delete nor rename a file, so one inode is all they use.
* `StoreAll`: four inodes, so that a file can be deleted, written again,
  replaced by a rename and written late at the same time.
* `StoreAlone`: batches of two lines, so that a crash falls between complete
  lines as well as inside one, and `recover` meets no, one and several lines.
* `Locks`: four paths against a threshold of two, so that sweeps happen while
  locks are held, waited for and just dropped, and four addresses for three
  tasks, so that one is used again.
* `Ipc`, `Mcp`: three calls between two tasks, so that a late answer finds
  its caller in the next call; two frames or lines of room, so that a write
  can block; one fault, at any step.  The child's own id is the second call's,
  so that there is an earlier and a later call which it must leave alone.
* `Provider`: with one retry a request fails finally, is repeated, and is
  repeated without `stream_options`.  Five frames announce and complete a call,
  add another in the final frame and repeat one, or count the tokens at the
  start, in between and with the end; the turn is complete or cut
  short, and the end of the connection, broken or not, may follow at any point
  and queue behind a frame, which is what the watchdog races with.  A stream
  does not depend on which request began it: `MaxFrames` allows the long ones to
  the first, and one frame to those after it.
* `Conversation`: five messages are a turn with two calls, its results (all,
  some or none), and a second turn, which is where a repair, a compaction or a
  change of provider shows.  Two kinds of disturbances, so that each pair of
  them meets.  The strategies are short (`SlidingWindow(2, 1)`, `LlmSummary(3)`,
  `Smart(3, 1)`) so that they cut within five messages; the numbers of
  `NewManager` would not.
* `App`: a good configuration and others that differ from it in one thing
  each; a provider of each of the eleven variants, with DeepSeek's V4 on all
  three APIs and its alias; servers `a` and `b` with tools `t` and `b__t`, so
  that `a__b__t` can be read in two ways and the application's own `b__t`
  looks like a server's; every thinking with every effort that some server
  refuses; two answers, so that tokens are added, over one API or two.

Deadlock is not checked where calls and faults are bounded and the system
stops when they are used up; `Locks` and `App` have no such bound and are
checked for deadlock.

Fairness.  A task that can go on does (tokio polls it: `WF`).  A task that
waits for a `tokio::sync::Mutex` gets it, because that mutex serves its
waiters in order: `SF` of the step that takes the lock.  Handlers of the IPC
server end and timers fire; the code starts a timer for every IPC call.  A
child process that is there answers, in `Mcp`.  `McpStdio` gives each task
one `SF` condition for all of its steps, which also says that a writer whose
pipe has room again and again gets to write.  A provider's task that was woken
is polled, and its
threads run (`WF`); its server need not answer or go on.  Nothing is assumed of the
application, of crashes, errors, drops, failed reads, of the server stopping or
of the child exiting or printing: those may happen or not.

## 4. Proofs

TLC looks at the instances above; TLAPS proves for every value of the
constants (of which the assumptions `NamesAssumption`, `RecordsAssumption`
and the like, stated next to the constants, are all that is known):

* `LocksTypeCorrect` and `LocksExclude` (`AppendLocksProofs`): for any number
  of tasks, paths and locks and any threshold, no two tasks append to one path
  at a time.  `OneAppender` is not inductive: nothing in it says that two
  tasks on one path have the *same* lock.  `LockInv` adds `Registered` (the
  lock a task has an `Arc` of is the one the registry has for its path) and
  `OwnsIts` (an appending task is the owner of that lock).  The step that
  matters is `Lookup`: the sweep keeps every entry that is alive
  (`SweptKeepsAlive`), and a fresh lock is the lock of nobody else.
* `RegistryStaysSmall` (`AppendLocksProofs`): the registry has no more entries
  than the threshold, or than there are tasks, if the tasks are finitely many
  (`TasksAssumption`).  Not inductive alone: a sweep could leave two entries
  that share a lock, and so more entries than tasks that use one.  `SizeInv`
  adds `Apart` (no two paths have the same lock); after a sweep every entry is
  then the path of a task, and the entries are the image of a set of tasks.
* `StoreTypeCorrect` (`SessionStoreProofs`): files stay lines with at most one
  torn piece, in every run of every set of calls, with any number of crashes,
  errors and drops.  It rests on lemmas about the file operators, which come
  first in the module, and on `HasRest`: a task that has still to write has
  something to write.
* `StagesOnce`: at most one record of a staged message and none after its
  cancellation, for any number of tasks, calls, crashes and I/O errors, unless
  a call for it could not read the file, under
  `LockedCallsOnly`: the application uses appends, stagings and cancellations,
  through one spelling of the path, and drops none of them.  Each of these
  conditions is needed (section 6).  The inductive invariant `OutboxInv` says
  which task is in the critical section (`Phase`), and of that task what it
  knows of the file: the lines it read are what is there, and the operation it
  is about to write is not on file yet, or its log could not be read
  (`TaskInv`).
* `LinesStay`: a complete line stays that line, at that place, under
  `LockedCallsOnly`.  From the same invariant: who writes has the file open
  that has the name, and a repair cuts at the end of the lines it read, which
  are those of the file.
* `FileIsAnOutbox`, `AnsweredIsOnFile`, `LinesParse`: under the same
  `LockedCallsOnly`, plain appends included, the file refines `DurableOutbox`,
  every staging and cancellation answered Ok is on file from then on (but for
  operations in doubt), and no line is garbage unless a plain append
  was the first to follow a torn line, or a read failed.  `DurableInv` adds to `OutboxInv` what the
  holder of the lock knows of the *end* of the file (`Writer`): no torn tail
  when it begins to write, if it has repaired it or no plain append met one
  (`Sound`), its own piece as the tail when a write was cut, its record on file
  when it flushes; and that what was answered is on file (`AckedIsBacked`).  `DurableStep` shows that a step does one of a few things
  to the lines and the answers (`OutboxStep`): nothing, an answer the file
  bears out, one durable record more, lines that say nothing of an operation
  whose log was read, a read that fails, or the first line of a session;
  `OutboxStepMaps` that each of them is a step of `DurableOutbox` or none.
* `RequestsWarranted` (`ProviderTurnProofs`): what `RequestsAreWarranted` says
  of every step, for any number of retries and any server.  `RetryInv` ties
  the code's counter to the requests really made, one behind while the call
  sleeps; `EveryStepIsOne` reduces the actions to six kinds of steps.

* `IpcAtMostOnce` and `McpAtMostOnce` (`IpcChannelProofs`,
  `McpStdioProofs`): both channels refine `RemoteCalls`, for any number of
  callers and calls, whatever is dropped, late, cut or damaged: a call is
  executed at most once, and one that returns was executed and returns its own
  value, over MCP unless the child uses its id for a request of its own.  The
  invariants (`CallsInv` in each module) say that a call is in one
  place at a time: with a caller that has not sent it, on the pipe, or with
  the server; that an id stands for one call, because ids are only counted up;
  and that an answer on its way is to a call that was executed.  `McpStdio`
  needs finitely many tasks (`TaskAssumption`), because its bound on ids
  leaves some for the tasks that are connecting.  `IpcTypes` and `McpTypes`
  are the type invariants.
* `IpcWholeFrames` and `McpWholeLines`: no caller's bytes end up inside
  another one's frame or line, as long as nobody is dropped in the middle of a
  write.  `FramesInv` and `LinesInv` add that nothing is left on the pipe to a
  peer that is gone (and, for the child, that who writes has the lock).
* `CallsFindTheirHost` (`ApplicationProofs`): a tool call reaches one host at
  most, the first in order that listed it when it was asked, and there under
  the name it has there.  `HostsInv` says which calls of a batch have reached
  a host (those with a result, and the one that was sent), and that the host
  being asked is the first that listed the name.  It needs `ServersArePlain`:
  a server's name is not empty and has no `__`, so that a prefixed name splits
  back into the two it was made of.  `SessionCallsFindTheirHost` lifts it to
  the application: no step of the session but those of the hosts
  touches their state (`SessionInv`).
* `TheTranscriptIsHistory`, `TheProjectionIsCurrent`, `TheTotalsCountEveryLine`
  (`SessionReplayProofs`), for logs of any length and any number of restarts:
  what `load` computes in one pass is what the whole log tells.  `load` is a
  fold, and what a fold gives is shown by induction over the lines
  (`ReplayByLine`): the induction theorems of the
  library cannot be used, as they take an operator, but that `<` is
  well-founded on `Nat` can, and a least line at which the fold goes wrong
  (`LeastNumber`, `InductionOnNat`) is as good.
* `TheWorkIsRecoverable`, `StagedMessagesAreMaterialized` and
  `ShownMessagesStayShown` need `~SnapshotWhilePending`: no snapshot is saved
  while a staged message is open (section 6 says what happens otherwise; the
  run has that value).  `RecoverInv` says which messages a load shows, line by
  line.
* `LoadedSessionsAreListed` and `OperationsAreShownOnce`: through every
  interleaving of all seven calls, with crashes, errors and drops, under
  `PlainContents`: what the application hands to `write_session_atomic` is a
  log, and no plain append carries the content of a durable operation.  Both
  are the application's to keep; the store does not look at contents.
  `LogsInv` says that every file, also a temporary or unlinked one, is a log.
* `RewritesAreWhole` and `RecoverCutsTheTornTail` under `OneTask` (any number
  of crashes and errors; for `recover` no dropped append either, `MaxDrops =
  0`): `recover` and atomic writes take no lock, and section 6 has what becomes
  of them beside a second task, and what is left of a dropped append may still
  be written after a `recover`.  `StoreAlone` has these values.
* `CallsComeBeforeTheStop`, `NothingIsGivenTwice`, `StopsTellTheTruth`
  (`ProviderTurnProofs`), for all three parsers and without conditions: any
  calls, any number of frames on their way, any server, any end of the
  connection.  The parser does not see the server, only frames that were sent
  earlier, so `StreamInv` has a path of the server's states (`Keeps`): one for
  each frame that is on its way, each told by that frame (`Tells`), the
  last being what the server has said by now; and the parser matches the
  *first* of them (`Match`).  `Delivered` says what was given at any time
  (`Tidy`: no call and no count of the start or the total twice, no call after
  a stop that is no failure), that with such a stop the calls are those of the
  turn (`CallsOf`) and the reason is the one it should be (`ReasonOf`; for a
  Responses turn that was cut short these are the closed calls, and ToolUse if
  there was any call), and `InOrder` that Chat's calls, which are given together at the end, come in
  the order of their index.
* `TheThreadIsKept` (`ConversationProofs`), for all providers, answers,
  strategies and lengths.  The invariant `ConvInv` says what the messages of a
  conversation are at any time.  `History`: each message of the history is one
  of the user, one with results that follow the calls of the message before it,
  one for one, or an answer; `GoodAnswer` is what every adapter makes of every
  response (`ChatGood`, `ResponsesGood`, `AnthropicGood`): calls with numbers
  of their own, and a reasoning before them if there is any.  `Thread`: the
  prompt is the history at increasing places, and notes between them; it ends
  where the history ends; and a message with results that is kept right after
  its calls has still nothing between it and them.  `Whole`: it has not lost
  them.  `SlidingKept`, `SummaryKept` and `SmartKept` say which messages a
  strategy keeps (`Kept`), `ThreadCompacted` that what is kept of a thread is
  one; only a summary keeps it whole (`Tied`), as it moves its split.  Below
  that are lemmas about the operators of `Messages`: what `SelectAt` picks
  (`PickedPlaces`), where `FlattenSeq` puts its parts (`FlattenLaid`), and what
  `FilterMap` finds (`SomesPlaces`).
* `RequestsPaired` (`ConversationProofs`): `RequestsArePaired`, which speaks of
  Chat and Responses, from the same invariant, which also says that what was sent is made of the prompt.  Over
  Responses: what `SanitizeInputItems` leaves of a sequence of items has every
  output after its call and every reasoning before its product
  (`OutputsPicked`, `ReasoningPicked`); in the items of one message a call has
  its reasoning before it (`Segment`), and dropping keeps it that way; and an
  output is there once because calls have numbers of their own in an answer, and
  answers numbers of their own in a conversation (`ResultsOnce`).  Over Chat a
  history with nothing open passes `SanitizeToolPairing` unchanged
  (`HealthyParts`); otherwise `RepairedIs` says what becomes of each message,
  and either way a turn has its results right after it (`Followed`) or
  placeholders for those that are not there (`AllSentAt`), and every other
  result is gone.  `ChatLaid` carries this from messages to what they give on
  the wire, where one message may give several, and `TurnIsAnswered` and
  `ToolPlace` read the two halves of `ChatIsPaired` off it; `TurnKeys` has the
  key of each turn.
* `PromptGrows` (`ConversationProofs`): `PromptOnlyGrows`, with `AskedInv`
  beside `ConvInv`: unless it was reset, `sent` is what its provider makes of
  the prompt up to some message of the user, and nothing there is an
  attachment that loading could still change.  What remains is that each
  conversion is monotone for such a beginning (`RequestPre`).  Over Chat,
  whether a call has its result is seen in the message after it, which a
  beginning that ends with the user has too (`ThreadPre`, `PartsPre`), and every
  tool message has the name of its call in both requests (`ChatNamed`).  Over
  Responses an output is kept for what comes before it, and of the reasonings
  only the last of all may still be dropped (`SanitizedPre`, by `PickedPre`:
  of a longer sequence more is picked).
* `WhatLoadsIsUsable`, `VocabularyIsKept`, `TheWiresAgree`
  (`ApplicationProofs`), for any files, environments, choices and counts.
  `AskInv` says that a provider in use is what `create_provider` makes of a
  checked configuration, that the last request is what it makes of the user's
  choices, and that served and counted tokens are the same.  The rest is about
  operators: that weights which sum up to 100 share the rolls (`RollsAreShared`),
  what each variant becomes (`DialectProviders`, `PlainProviders`,
  `DeepSeekProviders`), and what each parser and each body makes of a count or
  a choice (`UsageIsCounted`, `ChatTranslates`, `ResponsesTranslates`,
  `MessagesTranslates`, `V4Reasons`).  `VocabularyIsKept` needs
  `KindsAreTheirs`: no provider of Ark is configured with the kind of Kimi's
  plan (section 6).  `App` evaluates that condition for its files.

The assumptions of `Application` about its constants are the types of the code
(`ProviderConfig`, `SubagentProviderSlot`, `InferenceOptions`).  Those of
`Conversation` ask two things beyond types.  A strategy keeps at least one
recent message (`keep_recent`, which `strategies.rs` does not check: with 0 the
newest message would not be promised).  And a server that thinks in an answer
does so, in the same way, before it calls tools (`AnswersAssumption`): of an
answer that calls first and thinks later DeepSeek over Responses would get a
call without a reasoning before it (section 6).  Every condition that a theorem
names (`LockedCallsOnly`, `PlainContents`, `OneTask`, ...) is a property of the
calls the application makes, and true of the constants of the run that checks
the same property.

Only model-checked:

* Liveness: TLAPS has no rules for `SF` and `ENABLED` that the installed
  provers can use.
* `SaidIsReplayed` of `Conversation`.  It compares what a server said, piece by
  piece, with what `parse` and `build_body` make of it together.  For every
  set of answers it is not even true: two texts next to one another become one
  block (`message_to_items`, `AddAssistantBlock`) and go back as one
  message over Responses.  The answers of the runs have no such pair.

## 5. Where the code and what is said of it disagree

* `StoreRecoverCrash`: `recover` writes the log with `fs::write`, which
  truncates it first: a crash in between loses acknowledged records.
  `atomic_write` is next to it and not used.
* `ProviderStuck`: the thread of `thread_sleep` wakes the task and then sends
  the message.  A poll in between finds nothing and waits for a wake-up that
  was the last one: the backoff never ends, nor does the time limit of
  `read_error_body` if the body never comes.  `watch_sse_idle` does it in the
  other order, and `StreamEnds` holds.

## 6. What holds only within the bounds of the runs

### Promises that fail outside the runs

Each of these was tried, and TLC finds a counterexample (the last two can be
read off the definitions).  Where a name stands after a dash, the module states
the promise under that name beside its other properties, and no run asks for
it:

* That a plain append leaves valid JSONL, whatever happens -
  `BatchesAreValidJsonl` (`SessionStore`).  The comment above `append_batch`
  (`session_store.rs` 91-94) says that writing each batch with one `write_all`
  "prevents a body/newline split from producing invalid JSONL".  After a crash
  inside that write the next plain append continues the torn line, and `load`
  refuses the file.  The durable operations cut the tail off first:
  `EveryLineParses` says that, while reads do not fail, nothing but such an
  append spoils a line.
* That a staging answered Ok is on file - `StagedIsDurable` (`SessionStore`).
  `append_once` takes a failed read for an empty file (`unwrap_or_default`,
  166).  A torn tail is then not cut, the record is glued to it, and the call
  answers Ok: what was "durably staged" (17) is on no line.  The same failure
  lets a message be staged twice, or after its cancellation.  `OneStageRecord`,
  `AckedIsStored` and the refinement except the operations whose log could not
  be read (`unread`) for that reason.
* That a call of `McpStdio` which returns Ok was executed - `OkIsAnAnswer`.
  `request` takes any line with its id (`transport.rs` 192-203).  A request of
  the server's own with that id (both sides count from 1) returns `Ok(Null)`
  for a call that was not executed, although `request` "waits for the
  corresponding response" (41).  `RemoteCalls` excepts the ids the child uses.
* That a turn cut short after a call is told as one - `ShortIsTold`
  (`ProviderTurn`).  `response_stop_reason` says ToolUse of a Responses turn
  that had a call before it looks at the status (`responses.rs` 876-895); the
  name of its test (2068) says a length limit maps to `MaxTokens`, as it does
  over Chat.
* That a stream gives its usage before its end - `UsageBeforeStop`
  (`ProviderTurn`), V-PROV-01 (`docs/14-common-quality-gates.html` 33).  Over
  Chat the frame with the counts comes after the one with the `finish_reason`,
  and each gives its event at once (`openai.rs` 1480-1503).
* That a result comes right after its call - `CallsAreFollowed`
  (`Conversation`), V-MSG-02 (the same page, 31).  A sliding window that keeps the
  first two messages, as the manager's does (`manager.rs` 20), keeps a call
  and drops its result (`strategies.rs` 71), and the adapter for Messages sends
  that; over Responses such a call goes out without an output as well.  Only
  Chat's adapter repairs it.
* That every call of `McpStdio` returns: the task that reads the child's stdout
  throws away lines with other ids (`transport.rs` 193); the task such a line
  belongs to waits for it without a limit, with the lock.
  `docs/14-common-quality-gates.html` 52 wants limits that can be configured.
* `OneStageRecord` with two spellings of the path, or with one dropped append
  (`MaxDrops = 1`).  `OperationShownOnce` still holds: `load` hides the
  duplicate (`StoreAll`).
* `AckedIsStored` with `recover` or `archive` next to appends of another task:
  neither takes the lock, so a record written between its read and its write,
  or between its copy and its unlink, is gone.
* `RewriteIsWhole` with two tasks: all writers of a session share one
  temporary file.
* `StagedIsMaterialized` with `SnapshotWhilePending`: a snapshot saved while a
  staged message is neither accepted nor declined drops it from later loads.
* `NothingTwice` without its exception for Messages: that parser does not
  remember that it has told a stop, and a connection that breaks after the
  end of a turn gives a second, abnormal one.
* `CallsBeforeStop` without its exception for Responses turns that were cut
  short: a call that was announced and not closed is not given, and the stop
  says ToolUse.
* `VocabularyKept` with a provider of Ark (`ArkChat`, `ArkAnthropic`) whose
  kind is `kimi_coding`: it gets Kimi's dialect, which asks for no usage over
  Chat and nests an effort over Messages.  The comments at `ProviderConfig`
  name the kinds that are meant (`agent-llm/src/lib.rs` 71, 79); nothing checks
  them.
* A cancellation that is repeated is written again: the id it looks for,
  `cancel:<id>`, is one that no record carries.  The state of the operation is
  not harmed.
* `recover` with a last line cut inside a multi-byte character: the file is not
  UTF-8, and `recover` refuses the file it is there to repair, as `load` does.
* A stream that is closed, not broken, before its turn ends gives no stop at
  all, in any API.

### What the conversions lose

Read off the definitions of the wire modules; the properties are stated so
that they hold beside these:

* Over Responses nothing stands in for a result that never came (the server
  refuses the request), and over Messages nothing is repaired at all:
  `RequestsArePaired` asks for the one half over Responses and for nothing
  over Messages.
* A temperature goes out with thinking switched on to every server but Kimi's
  and Ark's Messages, and DeepSeek's Chat (`anthropic.rs` 173, `responses.rs`
  247): `VocabularyKept` asks for no more than that.
* Usages overlap: over Messages the output tokens of `message_start` are in the
  total of `message_delta` again; over Chat a server that counts in every frame
  gives a usage each time (`null` as zeros).  A consumer that adds them up
  counts twice.
* Over Chat the text of a turn that calls tools, and the text of a message
  that also has results, is not sent; over Responses the text beside results
  and binary files of other types are not.
* `complete` over Chat does not read `reasoning_content`, so what Kimi is given
  back of its reasoning comes from streams only.
* Arguments that were cut off become `null`, and go back as that.
* Results that come after other messages are not moved next to their call.
* A DeepSeek turn over Responses that calls first and reasons afterwards loses
  the reasoning.
* `smart` puts its note last, as a message of the assistant.  With a long loop
  of tool calls, `sliding_window(2, 10)` drops the user's latest message, which
  V-COMP-01 (`docs/14-common-quality-gates.html` 45) wants kept.
* `max_tokens * 80` (`strategies.rs` 61) overflows `u32` from 53,687,092 tokens
  on; no model has that many.
* DeepSeek's alias `deepseek-chat` counts as V4 over Chat and Messages and not
  over Responses, where thinking that was switched off is not sent
  (`responses.rs` 166-169): `SameOnEveryWire` asks for the same reasoning for
  models that are called V4.

### What else the code does that a reader may not expect

* Without a file `load` fails: the defaults have no provider, and the
  environment adds none.
* `validate` looks for the image provider by its trimmed name, and for the
  default provider by the name as it is.
* `load_default` reads the table `servers` of an MCP file; its comment says
  `mcp_servers`.
* `AppState::init` makes the MCP host and connects no server.
* A server whose name contains `__` can list tools, and a call of them goes to
  another server or is refused (the assumption `ServersArePlain`).
* `McpNotConnected` is also the answer when the child closed its output after
  the request was written (`transport.rs` 172, 186): the tool may have run.
* `strategy_for` wants `McpServerNotFound` answered by reconnecting, and
  `is_recoverable` says it is not recoverable.

## 7. Not modelled

* Power loss: nothing in the code calls fsync, so only a crash of the process
  is; what a process wrote survives it.
* Several sessions at once: the files are independent, and `AppendLocks` has
  several paths.  Two processes: the lock is one of a process; the code makes
  no promise there.
* `connect`, `bind` and `serve` of the IPC crate (retries of a connection, the
  socket file), notifications (the client sends none), and the branch of
  `call` for a closed channel (client.rs 141-144), which needs the sender to
  be dropped while the caller waits: `recv_loop` leaves `pending` as it is.
* `HttpTransport`: independent requests with a timer each.  `spawn`, and the
  decoding of MCP results.
* How long a provider waits (`backoff_delay`, `Retry-After`); text, reasoning,
  argument deltas and hosted tools in a stream; `complete`, which is
  `send_with_retry` and one parse; Responses servers that complete a call they
  never announced, and servers that give `finish_reason` twice: the parsers
  would call such a turn one without tools, or end it twice; a last frame of
  Responses without its `response`, which ends the turn as one without tools;
  a call over Responses whose last item was cut off, which such a turn may give
  with empty arguments.
* Of the configuration: fields that nothing reads, `agent_prompts.rs` (reading
  of prompt files).  Of the errors: `strategy_for` and `is_recoverable`, which
  nothing in the repository calls.  Of the requests: addresses (`url.rs`),
  schemas of tools, the text a summary is made from, verbosity, limits on
  output tokens.  Of the shell: the broadcast of events, which has no receiver
  in the repository.
* `list_tools` reads the servers one after the other; in `ToolHosts` it is one
  step, as no call depends on two servers' lists.
* `McpServer.connected` is never reset in the code, nor in the model; no
  property asks for it.

## 8. Plan

Done: `SessionLog` and `SessionReplay`, `AppendLocks`, `DurableOutbox` and
`SessionStore`, `RemoteCalls` with `IpcChannel` and `McpStdio`, `SseParsers`
and `ProviderTurn`; `Messages` with the wires, `Compaction` and
`Conversation`; `ToolHosts`, `Settings`, `Dialects`, `Requests` and
`Application`.

Theorems to follow: `SaidIsReplayed`, with a reference in which texts next to
one another are one.  Models to follow: what section 7 names.

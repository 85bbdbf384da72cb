---------------------------- MODULE SessionStore ----------------------------
(***************************************************************************)
(* The log file of one session and the tasks of one process that use it    *)
(* through SessionStore (crates/agent-store/src/session_store.rs).  Every  *)
(* await point is a place where another task may run, and every file       *)
(* system call is one step.  The file system has inodes, so a task writes  *)
(* to the file it opened even when another one is renamed over its name;   *)
(* what a process wrote survives its crash, its locks and tasks do not.    *)
(*                                                                         *)
(* load, list and read_meta change nothing and are operators of            *)
(* SessionLog, evaluated on the file of every state.                       *)
(***************************************************************************)
EXTENDS SessionLog

CONSTANTS Tasks,       \* tasks of the process that hold a SessionStore
          Keys,        \* spellings of the file's path
          KeyOf,       \* the spelling each task's base_dir gives
          Inodes,      \* files the file system may hold at once
          Calls,       \* the operations the application uses
          Rewrites,    \* whole logs given to write_session_atomic
          MaxBatch,    \* bound on the events of one append_batch
          MaxCalls,    \* bound on the calls of a behaviour
          MaxCrashes,  \* bound on crashes of the process
          MaxAborts,   \* bound on I/O errors in appends
          MaxDrops,    \* bound on appends whose future is dropped
          NoTask, NoFile

AllCalls == {"append", "stage", "cancel", "recover", "delete", "archive", "rewrite"}

ASSUME CallsAssumption   == Calls \subseteq AllCalls
ASSUME KeysAssumption    == KeyOf \in [Tasks -> Keys]
ASSUME NamesAssumption   == NoTask \notin Tasks /\ NoFile \notin Inodes
ASSUME BoundsAssumption  == /\ MaxCalls \in Nat /\ MaxBatch \in Nat
                            /\ MaxCrashes \in Nat /\ MaxAborts \in Nat
                            /\ MaxDrops \in Nat
ASSUME RecordsAssumption == /\ Operations \subseteq Messages
                            /\ (1 .. MaxCalls) \X (1 .. MaxBatch) \subseteq Messages
                            /\ Rewrites \subseteq Seq(LogRecord)
(* No client uses an operation id of the form "cancel:...".                *)
ASSUME CancelKeyAssumption == \A op \in Operations : <<"cancel", op>> \notin Operations

VARIABLES
  files,    \* content of every inode
  path,     \* inode of <id>.jsonl
  tmp,      \* inode of <id>.jsonl.tmp
  archived, \* content of <id>.jsonl.gz, an Option
  known,    \* has the id been returned by create, or can list find it?
  holder,   \* per spelling, the task that holds the append lock
  pc,       \* where each task is
  job,      \* the call it is in: its records, and the rest to be written
  read,     \* the bytes it has read
  fd,       \* the file it has open
  late,     \* writes the blocking pool still has to do for dropped appends
  acked,    \* records whose append returned Ok (history)
  unread,   \* operations one of whose calls could not read the file (history)
  blind,    \* has a plain append been made behind a torn line? (history)
  calls, crashes, aborts, drops

disk  == <<files, path, tmp, archived, known>>
local == <<pc, job, read, fd>>
spent == <<calls, crashes, aborts, drops, unread, blind>>
vars  == <<disk, holder, local, late, acked, spent>>

Job   == [call : AllCalls \cup {"none", "create"},
          records : Seq(LogRecord), rest : Seq(LogRecord)]
NoJob == [call |-> "none", records |-> <<>>, rest |-> <<>>]

(* Where a task holds the append lock.                                     *)
Critical == {"scan", "repair", "open", "write", "cut", "flush"}
Places   == {"idle", "wait", "recover", "truncate", "restore", "copy", "unlink",
             "tmpopen", "tmpwrite", "rename"} \cup Critical

Content(inode) == IF inode = NoFile THEN EmptyFile ELSE files[inode]
File == Content(path)

Init == /\ files = [i \in Inodes |-> EmptyFile]
        /\ path = NoFile /\ tmp = NoFile /\ archived = None /\ known = FALSE
        /\ holder = [k \in Keys |-> NoTask]
        /\ pc = [t \in Tasks |-> "idle"]
        /\ job = [t \in Tasks |-> NoJob]
        /\ read = [t \in Tasks |-> EmptyFile]
        /\ fd = [t \in Tasks |-> NoFile]
        /\ late = {} /\ acked = {} /\ unread = {} /\ blind = FALSE
        /\ calls = 0 /\ crashes = 0 /\ aborts = 0 /\ drops = 0

-----------------------------------------------------------------------------
(* Calls begin and end. *)

Begin(t, call, at, records) ==
  /\ pc[t] = "idle" /\ calls < MaxCalls
  /\ calls' = calls + 1
  /\ pc' = [pc EXCEPT ![t] = at]
  /\ job' = [job EXCEPT ![t] = [call |-> call, records |-> records, rest |-> records]]
  /\ UNCHANGED <<disk, holder, read, fd, late, acked, crashes, aborts, drops, unread, blind>>

End(t) == /\ pc' = [pc EXCEPT ![t] = "idle"]
          /\ job' = [job EXCEPT ![t] = NoJob]
          /\ read' = [read EXCEPT ![t] = EmptyFile]
          /\ fd' = [fd EXCEPT ![t] = NoFile]

Goto(t, at) == pc' = [pc EXCEPT ![t] = at]

(* The guard of the append lock is dropped; when the call returns Ok its   *)
(* records count as stored.                                                *)
Release(t) == holder' = [holder EXCEPT ![KeyOf[t]] = NoTask]

Ack(t) == acked' = acked \cup ToSet(job[t].records)

(* create: the first line of a session whose id nobody has yet.            *)
CallCreate(t) == /\ ~ known
                 /\ \A u \in Tasks : pc[u] = "idle"
                 /\ Begin(t, "create", "tmpopen", <<Meta>>)

CallAppend(t) ==
  /\ known /\ "append" \in Calls
  /\ \E n \in 1 .. MaxBatch :
       Begin(t, "append", "wait", [i \in 1 .. n |-> Message(<<calls + 1, i>>)])

(* append_durable_user_message and cancel_durable_user_message, first try  *)
(* or retry.                                                               *)
CallStage(t) == /\ known /\ "stage" \in Calls
                /\ \E op \in Operations : Begin(t, "stage", "wait", <<Stage(op, op)>>)

CallCancel(t) == /\ known /\ "cancel" \in Calls
                 /\ \E op \in Operations : Begin(t, "cancel", "wait", <<Cancel(op)>>)

CallRecover(t) == known /\ "recover" \in Calls /\ Begin(t, "recover", "recover", <<>>)

CallArchive(t) == known /\ "archive" \in Calls /\ Begin(t, "archive", "copy", <<>>)

(* write_session_atomic: create's own write goes the same way.             *)
CallRewrite(t) == /\ known /\ "rewrite" \in Calls
                  /\ \E body \in Rewrites : Begin(t, "rewrite", "tmpopen", body)

-----------------------------------------------------------------------------
(* append_batch and append_once, under the append lock. *)

(* Mutant: the lock is not waited for.                                     *)
AcquireAnyway(t) ==
  /\ pc[t] = "wait"
  /\ holder' = [holder EXCEPT ![KeyOf[t]] = t]
  /\ Goto(t, IF job[t].call = "append" THEN "open" ELSE "scan")
  /\ UNCHANGED <<disk, job, read, fd, late, acked, spent>>

Acquire(t) ==
  /\ pc[t] = "wait" /\ holder[KeyOf[t]] = NoTask
  /\ holder' = [holder EXCEPT ![KeyOf[t]] = t]
  /\ Goto(t, IF job[t].call = "append" THEN "open" ELSE "scan")
  /\ UNCHANGED <<disk, job, read, fd, late, acked, spent>>

(* The id an append_once looks for; that of a cancellation is one no       *)
(* record carries.                                                         *)
DedupKey(t) == LET op == job[t].records[1].op
               IN IF job[t].call = "cancel" THEN <<"cancel", op>> ELSE op

(* Mutant: the file is not searched for the record.                        *)
OpenAlways(t, seen) ==
  /\ Goto(t, "open")
  /\ read' = [read EXCEPT ![t] = seen]
  /\ UNCHANGED <<holder, job, fd, acked>>

(* The record is on file already: Ok.  Otherwise it is to be appended.     *)
FoundOrOpen(t, seen) ==
  IF HasDurableId(seen.lines, DedupKey(t))
  THEN End(t) /\ Release(t) /\ Ack(t)
  ELSE /\ Goto(t, "open")
       /\ read' = [read EXCEPT ![t] = seen]
       /\ UNCHANGED <<holder, job, fd, acked>>

(* fs::read, empty if there is no file.                                    *)
Scan(t) ==
  /\ pc[t] = "scan"
  /\ IF File.tail = <<>>
     THEN FoundOrOpen(t, File)
     ELSE /\ Goto(t, "repair")
          /\ read' = [read EXCEPT ![t] = File]
          /\ UNCHANGED <<holder, job, fd, acked>>
  /\ UNCHANGED <<disk, late, spent>>

(* fs::read fails, and unwrap_or_default takes that for an empty file:     *)
(* nothing is found, a torn tail is left where it is, and the record is    *)
(* appended.                                                               *)
ReadFails(t) ==
  /\ pc[t] = "scan" /\ aborts < MaxAborts
  /\ aborts' = aborts + 1
  /\ unread' = unread \cup {job[t].records[1].op}
  /\ Goto(t, "open")
  /\ read' = [read EXCEPT ![t] = EmptyFile]
  /\ UNCHANGED <<disk, holder, job, fd, late, acked, calls, crashes, drops, blind>>

(* Mutant: the last complete line is cut off with the torn one.            *)
RepairShort(t) ==
  /\ pc[t] = "repair" /\ path # NoFile
  /\ files' = [files EXCEPT ![path] =
                 SetLen(@, IF read[t].lines = <<>> THEN 0 ELSE Len(read[t].lines) - 1)]
  /\ FoundOrOpen(t, [read[t] EXCEPT !.tail = <<>>])
  /\ UNCHANGED <<path, tmp, archived, known, late, spent>>

(* set_len to the last newline of what was read; open without create fails *)
(* if the file is gone.                                                    *)
Repair(t) ==
  /\ pc[t] = "repair"
  /\ IF path = NoFile
     THEN End(t) /\ Release(t) /\ UNCHANGED <<files, acked>>
     ELSE /\ files' = [files EXCEPT ![path] = SetLen(@, Len(read[t].lines))]
          /\ FoundOrOpen(t, [read[t] EXCEPT !.tail = <<>>])
  /\ UNCHANGED <<path, tmp, archived, known, late, spent>>

(* An inode for a name that is opened with create: the one it has, or one  *)
(* nobody uses.                                                            *)
Opens(name) == IF name # NoFile THEN {name}
               ELSE Inodes \ ({path, tmp} \cup {fd[t] : t \in Tasks}
                              \cup {write.file : write \in late})

OpenAppend(t) ==
  /\ pc[t] = "open"
  /\ \E i \in Opens(path) :
       /\ path' = i
       /\ fd' = [fd EXCEPT ![t] = i]
       /\ files' = IF path = NoFile THEN [files EXCEPT ![i] = EmptyFile] ELSE files
  /\ Goto(t, "write")
  /\ blind' = (blind \/ (job[t].call = "append" /\ File.tail # <<>>))
  /\ UNCHANGED <<tmp, archived, known, holder, job, read, late, acked,
                 calls, crashes, aborts, drops, unread>>

(* A part of the bytes reaches the file: a whole line of a batch, or a     *)
(* piece of a record.  (A piece glued to a torn tail leaves a torn tail    *)
(* and is no step.)                                                        *)
WriteLine(t) ==
  /\ pc[t] = "write" /\ Len(job[t].rest) > 1
  /\ files' = [files EXCEPT ![fd[t]] = AppendLines(@, <<Head(job[t].rest)>>)]
  /\ job' = [job EXCEPT ![t].rest = Tail(@)]
  /\ UNCHANGED <<path, tmp, archived, known, holder, pc, read, fd, late, acked, spent>>

WritePiece(t) ==
  /\ pc[t] = "write" /\ files[fd[t]].tail = <<>>
  /\ \E piece \in Fragments(Head(job[t].rest)) :
       files' = [files EXCEPT ![fd[t]] = [lines |-> @.lines, tail |-> <<piece>>]]
  /\ Goto(t, "cut")
  /\ UNCHANGED <<path, tmp, archived, known, holder, job, read, fd, late, acked, spent>>

(* What is left of the bytes reaches the file.                             *)
WriteRest(t) ==
  /\ pc[t] \in {"write", "cut"}
  /\ files' = [files EXCEPT ![fd[t]] =
       IF pc[t] = "write" THEN AppendLines(@, job[t].rest)
       ELSE AppendLines(CompleteTail(@, Head(job[t].rest)), Tail(job[t].rest))]
  /\ Goto(t, "flush")
  /\ UNCHANGED <<path, tmp, archived, known, holder, job, read, fd, late, acked, spent>>

Flush(t) ==
  /\ pc[t] = "flush"
  /\ End(t) /\ Release(t) /\ Ack(t)
  /\ UNCHANGED <<disk, late, spent>>

(* Mutants: the error is swallowed and the append answers Ok, or the lock  *)
(* stays taken.                                                            *)
AbortAnswersOk(t) ==
  /\ pc[t] \in Critical \ {"scan"} /\ aborts < MaxAborts
  /\ aborts' = aborts + 1
  /\ End(t) /\ Release(t) /\ Ack(t)
  /\ UNCHANGED <<disk, late, calls, crashes, drops, unread, blind>>

AbortKeepsLock(t) ==
  /\ pc[t] \in Critical \ {"scan"} /\ aborts < MaxAborts
  /\ aborts' = aborts + 1
  /\ End(t)
  /\ UNCHANGED <<disk, holder, late, acked, calls, crashes, drops, unread, blind>>

(* Any other I/O call fails, after some of the bytes when it is the write, *)
(* and the append returns the error.  The guard is dropped.                *)
Abort(t) ==
  /\ pc[t] \in Critical \ {"scan"} /\ aborts < MaxAborts
  /\ aborts' = aborts + 1
  /\ End(t) /\ Release(t)
  /\ UNCHANGED <<disk, late, acked, calls, crashes, drops, unread, blind>>

(* The future of an append is dropped while its write is in the hands of   *)
(* tokio's blocking pool: the guard is dropped at once, and the bytes      *)
(* reach the file when the pool gets to them.                              *)
Drop(t) ==
  /\ pc[t] = "write" /\ drops < MaxDrops
  /\ drops' = drops + 1
  /\ late' = late \cup {[file |-> fd[t], records |-> job[t].rest, nr |-> drops]}
  /\ End(t) /\ Release(t)
  /\ UNCHANGED <<disk, acked, calls, crashes, aborts, unread, blind>>

LateWrite ==
  \E write \in late :
    /\ files' = [files EXCEPT ![write.file] = AppendLines(@, write.records)]
    /\ late' = late \ {write}
    /\ UNCHANGED <<path, tmp, archived, known, holder, local, acked, spent>>

-----------------------------------------------------------------------------
(* recover, delete, archive and write_session_atomic, which take no lock. *)

(* A file that is absent or not UTF-8 is refused; one that ends with a     *)
(* newline is only loaded.                                                 *)
RecoverRead(t) ==
  /\ pc[t] = "recover"
  /\ IF path = NoFile \/ EndsWithNewline(File) \/ LoadError(File) = "SessionNotFound"
     THEN End(t)
     ELSE /\ Goto(t, "truncate")
          /\ read' = [read EXCEPT ![t] = File]
          /\ UNCHANGED <<job, fd>>
  /\ UNCHANGED <<disk, holder, late, acked, spent>>

(* fs::write: open with create and truncate, then write from offset 0.     *)
RecoverTruncate(t) ==
  /\ pc[t] = "truncate"
  /\ \E i \in Opens(path) : /\ path' = i
                            /\ fd' = [fd EXCEPT ![t] = i]
                            /\ files' = [files EXCEPT ![i] = EmptyFile]
  /\ Goto(t, "restore")
  /\ UNCHANGED <<tmp, archived, known, holder, job, read, late, acked, spent>>

RecoverWrite(t) ==
  /\ pc[t] = "restore"
  /\ files' = [files EXCEPT ![fd[t]] = Overwrite(@, Recovered(read[t]))]
  /\ End(t)
  /\ UNCHANGED <<path, tmp, archived, known, holder, late, acked, spent>>

Delete(t) ==
  /\ known /\ "delete" \in Calls
  /\ pc[t] = "idle" /\ calls < MaxCalls
  /\ calls' = calls + 1
  /\ path' = NoFile
  /\ UNCHANGED <<files, tmp, archived, known, holder, local, late, acked,
                 crashes, aborts, drops, unread, blind>>

(* archive: the file is read to its end into <id>.jsonl.gz, which is       *)
(* created or truncated; then the name is removed.                         *)
ArchiveCopy(t) ==
  /\ pc[t] = "copy"
  /\ IF path = NoFile
     THEN End(t) /\ UNCHANGED archived
     ELSE /\ archived' = {File}
          /\ Goto(t, "unlink")
          /\ UNCHANGED <<job, read, fd>>
  /\ UNCHANGED <<files, path, tmp, known, holder, late, acked, spent>>

ArchiveRemove(t) ==
  /\ pc[t] = "unlink"
  /\ path' = NoFile
  /\ End(t)
  /\ UNCHANGED <<files, tmp, archived, known, holder, late, acked, spent>>

(* Mutant: the temporary file is opened without truncating it.             *)
TmpOpenKeeps(t) ==
  /\ pc[t] = "tmpopen"
  /\ \E i \in Opens(tmp) :
       /\ tmp' = i
       /\ fd' = [fd EXCEPT ![t] = i]
       /\ files' = IF tmp = NoFile THEN [files EXCEPT ![i] = EmptyFile] ELSE files
  /\ Goto(t, "tmpwrite")
  /\ UNCHANGED <<path, archived, known, holder, job, read, late, acked, spent>>

(* atomic_write: fs::write of the temporary file, whose name is that of    *)
(* every writer, then rename, which fails if another one renamed it first. *)
TmpOpen(t) ==
  /\ pc[t] = "tmpopen"
  /\ \E i \in Opens(tmp) : /\ tmp' = i
                           /\ fd' = [fd EXCEPT ![t] = i]
                           /\ files' = [files EXCEPT ![i] = EmptyFile]
  /\ Goto(t, "tmpwrite")
  /\ UNCHANGED <<path, archived, known, holder, job, read, late, acked, spent>>

TmpWrite(t) ==
  /\ pc[t] = "tmpwrite"
  /\ files' = [files EXCEPT ![fd[t]] = Overwrite(@, job[t].records)]
  /\ Goto(t, "rename")
  /\ fd' = [fd EXCEPT ![t] = NoFile]
  /\ UNCHANGED <<path, tmp, archived, known, holder, job, read, late, acked, spent>>

Rename(t) ==
  /\ pc[t] = "rename"
  /\ IF tmp = NoFile THEN UNCHANGED <<path, known>> ELSE path' = tmp /\ known' = TRUE
  /\ tmp' = NoFile
  /\ End(t)
  /\ UNCHANGED <<files, archived, holder, late, acked, spent>>

-----------------------------------------------------------------------------
(* The process is killed, and started again.                               *)
Crash ==
  /\ crashes < MaxCrashes
  /\ crashes' = crashes + 1
  /\ holder' = [k \in Keys |-> NoTask]
  /\ pc' = [t \in Tasks |-> "idle"]
  /\ job' = [t \in Tasks |-> NoJob]
  /\ read' = [t \in Tasks |-> EmptyFile]
  /\ fd' = [t \in Tasks |-> NoFile]
  /\ late' = {}
  /\ UNCHANGED <<disk, acked, calls, aborts, drops, unread, blind>>

Call(t) == \/ CallCreate(t) \/ CallAppend(t) \/ CallStage(t) \/ CallCancel(t)
           \/ CallRecover(t) \/ CallArchive(t) \/ CallRewrite(t)

LockedStep(t) == \/ Scan(t) \/ Repair(t) \/ OpenAppend(t)
                 \/ WriteLine(t) \/ WritePiece(t) \/ WriteRest(t) \/ Flush(t)

UnlockedStep(t) == \/ RecoverRead(t) \/ RecoverTruncate(t) \/ RecoverWrite(t)
                   \/ ArchiveCopy(t) \/ ArchiveRemove(t)
                   \/ TmpOpen(t) \/ TmpWrite(t) \/ Rename(t)

Next == \/ \E t \in Tasks : \/ Call(t) \/ Delete(t)
                            \/ Acquire(t) \/ LockedStep(t) \/ ReadFails(t) \/ Abort(t) \/ Drop(t)
                            \/ UnlockedStep(t)
        \/ LateWrite \/ Crash

Spec == Init /\ [][Next]_vars

(* The runtime polls every task that can go on, and tokio's Mutex serves   *)
(* its waiters in the order they came, so no waiter is passed over for     *)
(* ever.                                                                   *)
Fairness == \A t \in Tasks : /\ SF_vars(Acquire(t))
                             /\ WF_vars(LockedStep(t))
                             /\ WF_vars(UnlockedStep(t))

FairSpec == Spec /\ Fairness

-----------------------------------------------------------------------------
(* Properties *)

(* Every variable has its type: files are lines that parse or do not, with *)
(* a torn tail at most.                                                    *)
TypeOK ==
  /\ files \in [Inodes -> FileContent]
  /\ path \in Inodes \cup {NoFile} /\ tmp \in Inodes \cup {NoFile}
  /\ archived \in SUBSET FileContent /\ known \in BOOLEAN
  /\ holder \in [Keys -> Tasks \cup {NoTask}]
  /\ pc \in [Tasks -> Places]
  /\ job \in [Tasks -> Job]
  /\ read \in [Tasks -> FileContent]
  /\ fd \in [Tasks -> Inodes \cup {NoFile}]
  /\ late \subseteq [file : Inodes \cup {NoFile}, records : Seq(LogRecord), nr : Nat]
  /\ acked \subseteq LogRecord /\ unread \subseteq Operations /\ blind \in BOOLEAN
  /\ calls \in 0 .. MaxCalls /\ crashes \in 0 .. MaxCrashes
  /\ aborts \in 0 .. MaxAborts /\ drops \in 0 .. MaxDrops

(* Whatever tasks append, stage and cancel at the same time, no line of    *)
(* the file is two records run together or a record cut in two             *)
(* (session_store.rs:89-94: records do not interleave).  What a crash or   *)
(* an I/O error cut is repaired by append_once (168-181) before anything   *)
(* follows it, unless append_batch, which does not look, comes first, or   *)
(* the append_once cannot read the file.                                   *)
Repaired == ~ blind /\ unread = {}

EveryLineParses ==
  Repaired => \A i \in 1 .. Len(File.lines) : File.lines[i] \notin {Garbage, BadUtf8}

(* What the comment above append_batch says (session_store.rs:91-94):      *)
(* writing each batch with one write_all prevents a body/newline split     *)
(* from producing invalid JSONL.  No run asks for it: it fails when a      *)
(* plain append continues the line a crash has torn (README, section 6).   *)
BatchesAreValidJsonl ==
  \A i \in 1 .. Len(File.lines) : File.lines[i] \notin {Garbage, BadUtf8}

(* However often a message is staged again, after a crash or a lost        *)
(* answer, and from however many tasks at once, the file has one record of *)
(* it, and none once it was cancelled (append_once, 157-207), unless one   *)
(* of these calls could not read the file (166).                           *)
StagedOnce(lines) ==
  \A i, j \in 1 .. Len(lines) :
    /\ i < j /\ lines[j].kind = "stage" /\ lines[i].kind \in {"stage", "cancel"}
    /\ lines[j].op \notin unread
    => lines[i].op # lines[j].op

OneStageRecord == StagedOnce(File.lines)

(* A durable record whose append returned Ok is in the file, in the        *)
(* archive or in the hands of a recover about to write it back, through    *)
(* crashes, errors and other appends; except where a call of its operation *)
(* could not read the file, and so may have written behind a torn line.  A *)
(* staged message whose retry found it cancelled has only the cancellation *)
(* on file.                                                                *)
Stored(r, lines) == IF r.kind = "stage" THEN HasDurableId(lines, r.op)
                    ELSE \E i \in 1 .. Len(lines) : lines[i] = r

AckedIsStored ==
  \A r \in acked :
    r.kind \in {"stage", "cancel"} /\ r.op \notin unread
    => \/ Stored(r, File.lines)
       \/ \E copy \in archived : Stored(r, copy.lines)
       \/ \E t \in Tasks : pc[t] = "restore" /\ Stored(r, read[t].lines)

(* What the comment at the name of the event says (session_store.rs:17):   *)
(* a user message is durably staged, and then handed to the runtime.  Once *)
(* its staging was answered Ok it is on file.  No run asks for it: it      *)
(* fails when the read of append_once does (README, section 6).            *)
StagedIsDurable ==
  \A r \in acked : r.kind = "stage" => HasDurableId(File.lines, r.op)

(* Appends, repairs of a torn tail and crashes keep every complete line    *)
(* where it is.                                                            *)
AppendOnly == [][IsPrefix(File.lines, File'.lines)]_vars

(* The store implements the outbox it promises: the state of an operation  *)
(* is what the complete lines of the file say of it, at every step of      *)
(* every task and across crashes and retries, and in doubt for good once a *)
(* call for it could not read the file.                                    *)
Outbox == INSTANCE DurableOutbox WITH
  state    <- [op \in Operations |-> IF op \in unread THEN "unsure"
                                     ELSE IF CancelledIn(File.lines, op) THEN "cancelled"
                                     ELSE IF StagedIn(File.lines, op) THEN "staged"
                                     ELSE "none"],
  promised <- {op \in Operations : \E m \in Messages : Stage(op, m) \in acked},
  declined <- {op \in Operations : Cancel(op) \in acked}

ImplementsOutbox == Outbox!Spec

(* Every call comes back: no lock stays taken after an append that failed  *)
(* or was dropped, and no task waits for ever for one.                     *)
EveryCallReturns == \A t \in Tasks : pc[t] # "idle" ~> pc[t] = "idle"

(* Whatever else races, load shows a staged message once at most           *)
(* (session_store.rs:264).                                                 *)
OperationShownOnce ==
  LET shown == Replay(Text(File)).messages
  IN \A i, j \in 1 .. Len(shown) :
       i < j /\ shown[i] \in Operations => shown[i] # shown[j]

(* recover (session_store.rs:334-355) keeps every complete line, and what  *)
(* it leaves loads if those lines were good.                               *)
TornTailIsCut ==
  [][\A t \in Tasks :
       RecoverWrite(t) /\ Loads([read[t] EXCEPT !.tail = <<>>])
       => Loads(File') /\ IsPrefix(read[t].lines, File'.lines)]_vars

(* Whatever interrupts write_session_atomic, and whatever an interrupted   *)
(* one left behind, the file it changes becomes one whole log in one step  *)
(* (session_store.rs:385-387: never mixed content).                        *)
RewriteIsWhole ==
  [][\A t \in Tasks :
       pc[t] \in {"tmpopen", "tmpwrite", "rename"} /\ pc'[t] # pc[t] /\ File' # File
       => \/ File'.tail = <<>> /\ File'.lines \in Rewrites \cup {<<Meta>>}
          \/ Crash]_vars

(* A session that load accepts is one that list shows, although list looks *)
(* at the first line only and load takes a Meta from any of them           *)
(* (session_store.rs:233, 312-323).                                        *)
LoadedIsListed == Loads(File) => Listed(File)
=============================================================================

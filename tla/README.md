# heartbeat-rs, specified and verified

TLA+ modules of the message path of heartbeat-rs (`heartbeat-stop`, its `recover` subcommand and
the artifacts they share) and of `heartbeat-launch`, model-checked with TLC on small instances and
proved with TLAPS for every value of the constants. Source references are `file:line` under
`src/src/` unless another directory is named; "the README" of the program is `src/README.md`.

## 1. The system

A *producer* appends lines to `inbox.jsonl`. A *launcher* script runs cycles: `heartbeat-stop
recover`, perhaps a truncation of the inbox, then a Claude Code *session*, often under
`heartbeat-launch`. Each time the agent ends a turn Claude Code runs the *stop hook*
(`heartbeat-stop`), a fresh process that knows nothing but the files. It acknowledges what the
agent replied to, takes the next entry, and prints a decision: block the stop with the entry as the
next prompt, an idle tick, or approve.

| part | state | operations | talks to the others by |
|---|---|---|---|
| inbox reader (`inbox.rs`) | `inbox.jsonl`, `.inbox-offset` | `read_next_entry`, `acknowledge`, `read_offset`, `write_offset` | files |
| in-flight artifact (`in_flight.rs`) | `.in-flight` | `write_to`, `read_from`, `is_stale` | files |
| stop hook (`hook.rs`) | `.responded`; otherwise none between invocations | `run`, `serialize` | files, stdout |
| orphan recovery (`recover.rs`) | `.dead-letter.jsonl` | `recover` with retry, deadletter, drop | files, exit code |
| heartbeat-stop CLI (`main.rs`) | signal file | the two arms, fail-open, `--signal-file` | files, stdout |
| PTY run loop (`pty.rs`) | child, deadline, `exit_sent` | `run`, `spawn_pty_child` | signals, signal file, shared timestamp |
| output forwarding (`pty.rs`) | reader thread, `last_output`, `stop`, the PTY master | `spawn_basic_reader`, `join_reader` | terminal, stdout, shared timestamp |
| idle watchdog (`pty.rs`) | `retry_count`, `last_keepalive` | `tick_idle`, `send_keepalive`, `is_unrecovered_keepalive` | the terminal |
| launch CLI (`launch.rs`) | none | options, exit codes | exit code |
| launcher, producer, Claude Code | the cycle, the turn | external | all of the above |

What is hard here:

* a *crash* of the session, the hook or the launcher between any two file operations, and the
  classification of what it leaves as live or stale at the next `recover`;
* a *loss of power* between any two system calls of a write through tmp, fsync and rename;
* *ignored errors*: every `remove_file` is `let _ =`; `.responded` is looked for with `Path::exists`,
  which takes an error for the file's absence (`hook.rs:81`); any other error of the hook approves
  the stop (`main.rs:170-177`);
* a *producer that writes while the hook scans*, in pieces, and bytes that are not UTF-8;
* *retries*: an orphan that is offered again, a keepalive that gives a session another turn;
* in `heartbeat-launch`, the *races* of child exit, deadline, exit signal, idle tick, output and the
  echo of the keepalive, and a signal file that outlives a launch;
* in its reader thread, the end of the child against the *draining* of its output, with another
  process that keeps the terminal open and a consumer of stdout that closes it.

What makes each part correct:

* reader and hook: the cursor never passes an entry that was not settled, never stops inside one,
  never goes back; an entry that is being worked on is on disk and flagged;
* recovery: what is left is always exactly live or stale, an acknowledged entry is never
  dead-lettered, and after success the next session starts clean;
* the files: no loss of power leaves an artifact that an operator must mend, or lets the cursor pass
  what is recorded nowhere;
* the whole path: nothing is lost, order is kept, deadletter and drop deliver at most once
  unless a look at `.responded` fails, retry repeats only the orphan and only after a fault, and the
  inbox is drained when the faults stop;
* run loop and watchdog: a session is ended only on its own signal or after due patience, its end
  is reported truthfully, and a hung or approved session does end;
* output forwarding: what the child wrote before it ended is forwarded and counts as life.

## 2. The modules

| module | models | extends |
|---|---|---|
| `Inbox` | the file as bytes; how one line is cut out of it | |
| `HeartbeatDir` | the artifacts, the writes on them, the faults | `Inbox` |
| `StopHook` | `hook::run` and its CLI arm, one action per file operation | `HeartbeatDir` |
| `Recover` | `recover::recover`, one action per file operation | `HeartbeatDir` |
| `Heartbeat` | launcher, producer and session around them; the properties | `StopHook`, `Recover` |
| `Delivery` | the abstract queue that the message path implements | |
| `HeartbeatInv` | the inductive invariants and the deployment contract | `Heartbeat` |
| `HeartbeatProofs` | the theorems about artifacts and processes, the refinement | `HeartbeatInv`, TLAPS |
| `HistoryProofs` | the theorems about what was delivered, and how often | `HeartbeatProofs` |
| `FileSystem` | external: directory, system calls and what a loss of power leaves of them | |
| `ArtifactFiles` | the artifacts of hook and recovery at the grain of system calls; power loss | `FileSystem` |
| `ArtifactFilesInv`, `ArtifactFilesProofs` | its inductive invariant, its theorems | `ArtifactFiles` |
| `AtomicArtifacts` | artifacts that change at once and whole, which `ArtifactFiles` implements | |
| `IdleWatchdog` | `IdleState`, `tick_idle` and the two judgements of output | |
| `PtyRun` | `pty::run` with child, reader thread, signal file and exit codes | `IdleWatchdog` |
| `Supervision` | the abstract promise about exit codes (README:102) that `PtyRun` implements | |
| `PtyRunInv`, `PtyRunProofs` | its inductive invariant, its theorems | `PtyRun` |
| `PtyOutput` | the reader thread, `join_reader`, the terminal, the consumer of stdout | |
| `PtyOutputProofs` | the theorems about PtyOutput | `PtyOutput`, TLAPS |
| `MCHeartbeat`, `MCPtyRun` | the constants of the runs | the Inv modules |

### Correspondence

*Bytes.* The inbox is a sequence of bytes; a byte is the newline, another character that `trim`
removes, an invalid one, or any other. `LineEnds` is the end of the line at the cursor in the
snapshot of the file's length (`inbox.rs:57-110`), `IsTrim` and `FromUtf8Lossy` the text of the
entry. `decode_line`, `entry_id` and `delivered_at` are functions of the text and of the clock and
are left out of the record; equality of `raw_line` stands for equality of `entry_id`.

*Steps.* A hook stands at a label (`hpc`), as does a recovery (`rpc`); each label is one file
operation, so that crashes, appends and kills fall between any two of them. A write through tmp,
fsync and rename is one step: that this is right is what `ArtifactFiles` checks. The labels and the
code:

| `StopHook` | code | `Recover` | code |
|---|---|---|---|
| CheckResponded | `hook.rs:75-81` | ReadOrphan, AfterRead | `recover.rs:113-123` |
| ReadInFlight | `hook.rs:92-114` | Classify, Stale | `recover.rs:125-140` |
| AckAdvance, AckCursor | `inbox.rs:145-160` | DeadLetterAppend | `recover.rs:166-211` |
| AckUnlink | `inbox.rs:160-164` | MoveCursor, RecoveredCursor | `recover.rs:140-155, 213-226` |
| ClearResponded | `hook.rs:119-120` | UnlinkOrphan | `recover.rs:131, 157, 216, 227` |
| Snapshot, Scan* | `inbox.rs:57-130` | UnlinkFlag | `recover.rs:118-121, 132` |
| WriteInFlight, TouchResponded | `hook.rs:123-130` | RecoverFails | `main.rs:146-149` |
| Emit, FailOpen | `main.rs:170-211` | | |

*Faults.* `FaultKinds` says which may strike and `MaxFaults` how often: `io` (a call whose error is
propagated), `unlink` (a `remove_file` whose error is dropped), `stat` (a look at `.responded` that
fails and is taken for its absence), `stdout`, `kill` (the hook's timeout) and `crash` (of the
session with its hook, or of the launcher with its recovery). `Launchers` says whether the launcher
truncates the inbox after `recover`; the truncation and the reset of `.inbox-offset` are two
commands of its shell (`TruncateInbox`, `ResetCursor`), and it may die between them.

*Files.* `ArtifactFiles` runs the same operations as sequences of calls: `todo` holds the calls that
the running operation has yet to make, `MakeCall` makes one. Entries are numbered, entry *e* from
cursor *e* - 1 to cursor *e*, since where a line starts is `Inbox`'s subject. A process sees the last
directory of `journal`; its first is safe on disk, and a loss of power may bring any of them back,
with the bytes of any unsynced file empty or cut (`Torn`). `write_offset` (`inbox.rs:215-228`),
`write_to` (`in_flight.rs:70-89`) and the dead-letter append (`recover.rs:197-211`) are one
`WriteAtomically`; `error` is the variant of `HeartbeatError` an operation ended with. Assumed of the
file system: calls on the directory reach the disk in order, and an fsync carries those before it
along, as on a journalled one; the producer's lines are durable before they are read. Blank lines,
the launcher's truncation and failing `remove_file`s are left to `Heartbeat`.

*Time in `PtyRun`* is a count of seconds. The clock moves only while the loop sleeps; between two
checks of the loop the child may exit, the reader thread may stamp output or stop for good, and a
hook of the child may touch the signal file. The poll interval is below the clock's resolution, so
any number of iterations fit in a second. The labels of `lpc` follow `pty.rs:495-689`: spawn, clean
(509-550), poll (552-556), deadline (557-588), signal (590-609), grace (610-638), tick (640-648),
escGap (the pause of `send_keepalive`), sleep, idleKill (646-665), join (107-148), exit
(`launch.rs:162-246`). `Relaunch` starts `heartbeat-launch` again at any moment, also after its
crash: only the signal file is left of the launch before. Two ghosts watch the watchdog:
`lastInjected` remembers the last keepalive although the code forgets it, and `calmSince` the
activity after which the retry counter last started from 0. `KeepsPromise` maps all this to
`Supervision`: a child, its code, what may give it up, and the exit code. `PromiseNext` there is
README:102 with all its clauses; `Overruled` is the one step the program takes beside it (section 6),
and `KeepsPromise` allows that step and no other.

*Output.* `PtyOutput` counts output in chunks. The labels of the reader thread are check (275-277),
read (278-279), stamp (280-284) and forward (285-291); `EINTR` goes back to check (292), the end of
file and any other error end the thread (279, 293), and so does a broken stdout, at once or some
reads later since the error of `flush` is dropped (287-290). A read may be interrupted or fail at any
moment. The main thread polls,
drains (`join_reader`, 119-148: until the reader has finished or two seconds have passed) and judges
(673-689). `holders` are the processes that have the terminal open: the child and what it forked.

## 3. The runs

| run | what it asks | bounds | states |
|---|---|---|---|
| `retry_faults` | retry in drain mode; io, crash, kill, stdout and stat faults; refinement of `Delivery` | 2 lines of 3 kinds, torn writes, 2 faults | 104 000 |
| `settle_keepalive` | deadletter and drop in persist mode, keepalives, launchers that append or truncate | 3 lines of 2 kinds, torn, 2 faults | 179 000 |
| `drains` | what holds beyond the contract, and liveness: all policies; io, crash, kill, unlink and stat faults | 2 lines of 2 kinds, torn, 2 faults | 80 000 |
| `power_loss` | every write call by call, with power loss, crashes and I/O errors; refinement of `AtomicArtifacts` | 3 entries, 3 faults | 185 000 |
| `launch_safety` | two launches in a row, four command lines, early hooks; refinement of `Supervision` but for `Overruled` | clock to 8 | 467 000 |
| `launch_ends` | liveness of `heartbeat-launch` against an echoing child; no signal is lost | clock to 12 | 34 000 |
| `output_drains` | reader thread, `join_reader`, a grandchild and a closing consumer; safety and liveness | 4 chunks, buffer of 2 | 2 600 |
| `recover_unlink_ignored`, `truncate_erases_queue`, `flag_is_not_a_reply`, `entry_id_collision`, `signal_versus_idle` | what the documents say and the code does not do; see section 6 | | violated |

Why the bounds are enough. Every step of the message path looks at one orphan, one line and one
cursor, so a second line is what a wrong cursor damages, and a third what a second damage needs; two
faults are a crash and a fault of the recovery from it. The lines are a word, a word with blanks and
an invalid byte, and an empty line; torn writes cut each at every place. In `PtyRun` the constants
are scaled down (grace 2, gaps 1) but keep their relations: command lines with the idle timeout at
and above the grace window, with and without retries, with a deadline that falls between keepalives,
and with only the exit signal. The clock's bound lets every retry of every command line run out; a
second launch is what a stale signal file needs. In `power_loss` three entries are one that is
settled, one that is delivered and one behind it, and three faults a failure, the loss of power that
turns it into damage and one during the recovery from that. In `output_drains` a buffer of two makes
writers wait and reads partial. All bounds (`MaxLines`, `MaxFaults`, `MaxLaunches`, `MaxTime`,
`MaxChunks`) are constants, and the theorems hold for every value of them.

The `PtyRun` and `PtyOutput` runs set `CHECK_DEADLOCK FALSE`: the program ends.

### Properties

Message path (`Heartbeat.tla`): `NoSilentLoss`, `OrphanClassified`, `RecoverLeavesClean`,
`FlagHasOrphan`, `TurnIsRecorded`, `AtMostOnceDelivery`, `RedeliverOnlyOrphan`,
`RedeliveryNeedsFault`, `AckOnlyAnswered`; as action properties `CursorNeverRetreats`,
`DeadLetterOnlyUnacknowledged`; as refinement `ImplementsDelivery`; as liveness `EventuallyDrained`.

Files (`ArtifactFiles.tla`): `NoOperatorNeeded`, `NothingSkipped`, `OnlyLatestComesBack`; as action
property `DeadLettersKept`; as refinement `ImplementsAtomic`.

`heartbeat-launch` (`PtyRun.tla`): `SignalIsOwn`, `SignalNotLost`, `ZeroIsTrusted`, `PatientKill`; as
refinement, with one named deviation, `KeepsPromise`; as liveness `SessionEnds`,
`ApprovedSessionEnds`.

Output (`PtyOutput.tla`): `OutputComplete`, `TrailingOutputCounts`; as liveness `OutputIsSeen`,
`RunEnds`. Each is stated in words above its definition.

The invariants that the proofs of the message path and of the files rest on are checked as
invariants of runs too, so that TLC and the prover speak of the same formulas: `IInv` and `OnceInv`
(`settle_keepalive`), `CoreInv` (`drains`), `HistoryInv` (`retry_faults`), `FilesInv`
(`power_loss`).

### Fairness

`Heartbeat`: a process that is alive takes its next step (weak fairness of the hook and of the
recovery), an agent ends its turn and a session that nobody prompts is closed, the launcher's timer
starts the next cycle, a producer finishes a write it began. Faults, new lines and keepalives owe
nothing. `drains` has no keepalives, since a session that is prompted forever never ends.

`PtyRun`: the loop runs (weak), the clock runs though the loop sleeps only now and then (strong: the
clock's step is disabled each time the loop wakes), and a process that was sent SIGKILL dies. A child
owes nothing else: it may run on, ignore SIGTERM and stay silent. `SessionEnds` is stated of a child
that only echoes, since one that writes now and then is never given up without `--timeout`.

`PtyOutput`: both threads run and the main thread sees the child's exit (weak), reads are not
interrupted for ever (strong fairness of `Read` and `ReadEnds`, since each `EINTR` disables them for
a moment), and the consumer of stdout reads or closes (weak fairness of `Forward`). Writers, exits,
kills, read errors and the closing of stdout owe nothing, and the join may end by the reader or by
its deadline.

## 4. The contract

The strongest safety properties of the message path rest on how the program is deployed.
`Contract` in `HeartbeatInv` names it:

1. no `remove_file` fails whose error the code drops (`"unlink" \notin FaultKinds`);
2. a failed `recover` stops the cycle (`~IgnoreRecoverFailure`; README:333 asks for it, while the
   example at README:241 writes `|| true`);
3. a session that `heartbeat-launch` may prompt again is one whose hook is neither killed nor
   unable to write its decision or to look at `.responded`.

Four theorems need all of it: `NothingIsLost`, `RecoverCleans`, `NeverInconsistent` and
`AcksAreAnswers`; `recover_unlink_ignored` and `flag_is_not_a_reply` (section 6) show what is lost
with the first and the third clause. The others need
only `Orderly`: the contract, *or* launchers that never truncate the inbox (`Launchers = {FALSE}`),
and then any fault may strike, ignored unlink failures and killed hooks in prompted sessions
included. A truncating launcher outside the contract may leave a cursor and an orphan of the old
inbox beside the lines of a new one; no theorem covers that.

At-most-once (`AtMostOnce`, `OnceKept`) needs, beside `Orderly`, that no look at `.responded` fails
(`"stat" \notin FaultKinds`): a hook that takes the error for the flag's absence delivers the entry
in flight again.

The refinement assumes the contract and `Launchers = {FALSE}`, since a truncated queue is a new
queue. A session is taken to end with its hook: README:329 forbids `recover` beside a live hook, and
the launcher's PID file guards it.
`PtyRun` needs no contract but that the child of an earlier launch, and its hooks, are gone when the
next one starts, and that SIGKILL reaches the child (`ApprovedSessionEnds` only).

## 5. The proofs

*`HeartbeatProofs`.* None of the properties is inductive: that nothing is lost depends on the
acknowledged entry being the one in `.in-flight`, which depends on the flag, which depends on where
hook, recovery and launcher stand. The invariant has two layers. `CoreInv` says what is in flight:
which processes can exist at the same time (`ControlInv`), that `.in-flight` is a line of the inbox,
exactly live or stale (`OrphanInv`), and what session, hook and recovery know of it at each label
(`TransitInv`). It is inductive wherever no launcher truncates (`CoreKept`), and from it alone
follow `TypeCorrect`, `OrphansAreClassified`, `TurnsAreRecorded`, `CursorIsMonotone` and
`OnlyUnacknowledgedDeadLettered`. `IInv` adds what the contract buys (`Inductive`): the cursor stays
in the file, unless the launcher has just emptied it (`Beyond`), and everything behind it is settled
(`CursorInv`); whenever a hook may find `.responded`, what it acknowledges was answered or is behind
the cursor (`MayAck`, `SessionInv`, `HookInv`, `RecoverInv`); a finished recovery leaves nothing
(`CleanInv`). From it follow `NothingIsLost`, `RecoverCleans`, `NeverInconsistent`,
`AcksAreAnswers` and `QueueIsImplemented`. Each `...KeepsCore` and `...Preserves` lemma takes one
process, action by action and conjunct by conjunct; lemmas on byte ranges, lines and the growing file
carry the rest.

*`HistoryProofs`*, on `CoreInv`, about the entries that reached the agent. `HistoryInv`
(`HistoryKept`): what was delivered is a line that lies behind the cursor or starts at it, and what
is read or recorded at the cursor now reaches at least as far, since a line only grows (`PastInv`);
hence a repeated delivery repeats the latest one, perhaps longer by what the producer wrote since
(`OnlyOrphansComeBack`). `BlameInv` counts: after the i-th delivery of the entry at the cursor as
many faults have struck as deliveries followed, and one more unless the entry is still `Held`, by
the agent or by the hook that acknowledges it; hence `FaultsAreToBlame`. Without the retry policy,
and where no look at `.responded` fails, a delivery from the cursor is the last one and stays
recorded and flagged until the cursor has passed it (`OnceInv`, proved as `OnceKept`), so no byte is
delivered twice (`AtMostOnce`).

*`ArtifactFilesProofs`*: `Spec => []FilesInv` (`FilesKept`), for any number of entries and any
crashes and losses of power. `JournalInv` says that every directory the disk may come back to is
`Good`: each artifact is whole and synced, whatever lies before the cursor was answered,
dead-lettered or dropped, and dead letters only grow from one directory to the next. That a call
keeps this depends on where in its operation it stands: `Acknowledges`, `Buries`, `Sweeping` and
`Delivers` say that `todo` is a known tail of one operation and what its tmp file holds, and that
from the rename of `.in-flight` on no older cursor can come back. From it follow
`FilesTypeCorrect`, `NoOperatorEverNeeded`, `NothingEverSkipped`, `OnlyLatestReturns`,
`DeadLettersStay` and the refinement `WritesAreAtomic`: tmp, write, fsync and rename are one step of
`AtomicArtifacts`, every other call is a stutter or a commit, and a loss of power takes the
artifacts back to a state since the last commit. This is what allows `Heartbeat` to take each write
as one step.

`PtyRunProofs`: `Spec => []RunInv` (`RunInductive`), without any contract. `CreditInv` ties what the
watchdog remembers to what really happened: the last keepalive is outstanding, or output past its
grace window was seen; that makes the exit-time judgement right whether or not the loop's last tick
ran (`ZerosAreTrusted`). `PatienceInv` says that the last keepalive came `retry_count` full timeouts
after the activity before the first (`KillsArePatient`). `SignalInv` says that in the loop a signal
file is the child's own (`SignalsAreOwn`). `ExitInv` fixes the exit code once it is computed.
`RunTypeCorrect` is the type invariant. `PromiseInv` says that who gave a child up was told to and
has killed it; with it each step of the loop maps to one that README:102 promises, to `Overruled` or
to a stutter (`PromiseIsKept`). `SignalsAreKept` has an invariant of its own (`KeptInv`) and assumes
that no hook approves before the stale signal file is removed (`~EarlyHook`).

`PtyOutputProofs`: `Spec => []OutputInv` for every buffer, every number of chunks and any processes
on the terminal. Its core: the master is open for as long as the main thread has not judged, and a
reader that finished with stdout whole, no failed read and `stop` unset finished because everything
was read and nobody was left to write. From it `OutputTypeCorrect`, `OutputIsComplete`,
`TrailingOutputIsCounted`.

Assumptions of the proofs are the named `ASSUME`s of the modules: TLC evaluates them in each run.

Only model-checked: liveness under fairness (`EventuallyDrained`, `SessionEnds`,
`ApprovedSessionEnds`, `OutputIsSeen`, `RunEnds`), which the prover does not reach (nor `ENABLED`),
and the disagreements of section 6, which are counterexamples. Every safety invariant, action
property and refinement of the passing runs is stated by a theorem. No module uses recursion or
induction over data, so none is closed to the prover.

## 6. Where documents and code disagree

| run | what the run shows |
|---|---|
| `recover_unlink_ignored` | `recover` drops the errors of `remove_file` and exits 0; `recover.rs:97` and README:310 promise that both artifacts are removed on every successful path |
| `truncate_erases_queue` | after `deadletter` only the orphan is preserved; the truncation that README:296 calls safe with `deadletter` erases the entries queued behind it |
| `flag_is_not_a_reply` | `.responded` is touched before the decision is printed; a hook that dies in between, in a session that a keepalive prompts again, makes the next hook acknowledge an entry the agent never saw (`hook.rs:81`, README:341) |
| `entry_id_collision` | `entry_id` is the hash of the text: two entries with the same text are one to a consumer that deduplicates on it (`recover.rs:171`) |
| `signal_versus_idle` | after the exit signal is handled, the idle tick of the same iteration may still end the run with 125, or a later deadline with 124; README:102 says 0 |

Smaller ones, without a run: `hook.rs:98-99` refuses a flag without an orphan because going on
"silently" would deliver again what the agent processed, and the `exists()` of `hook.rs:81` goes on
just so when it cannot look at the flag; the child is spawned before the stale signal file is
removed (`pty.rs:507, 522`), so that a hook that approves in between has its signal removed with it,
and `SignalNotLost` needs `~EarlyHook`; `in_flight.rs:44,57-58` describe `end_offset` as
`start_offset` plus the length of `raw_line` plus one, but `raw_line` is trimmed and the code counts
the untrimmed line; `in_flight.rs:23` says `>` of staleness, the code compares with `>=`; README:331
says that one of two concurrent recoveries fails with "file not found" on the removal of
`.in-flight`, but that error is dropped; README:241 writes the `|| true` that README:333 forbids for
`deadletter`.

## 7. Not modelled

* Deadletter and at-most-once under a loss of power: a rename of the cursor that is taken back lets
  an entry be dead-lettered twice (`recover.rs:169-172` says so) or delivered again; what is checked
  is that only the latest one comes back (`OnlyLatestComesBack`). A file system that reorders
  directory operations is not modelled.
* Two recoveries at once, and a recovery beside a hook that outlives its session (README:329-331
  exclude both by the launcher's PID file).
* A consumer of stdout that neither reads nor closes: it blocks the reader thread in `write_all`
  (`pty.rs:287`), and the watchdog then takes a live session for a silent one.
* The child that runs on when `heartbeat-launch` fails after the spawn (`pty.rs:243`, an error of
  `try_wait`): the step is there (`SpawnFails`), what becomes of the child is not.
* A stale signal file whose removal fails (`pty.rs:523`, the error is dropped): the removal is taken
  to succeed. A look at the signal file that fails (`pty.rs:595`) is repeated by the next poll.
* SIGKILL that misses the child because the terminal's foreground group is another one.
* The environment denylist, PTY allocation, wording of messages, the cap of a Windows exit code at
  `i32::MAX`, JSON formats, `utc_now_iso8601` and `sha256_hex`: no state of the protocol depends on
  them. A `--timeout` so large that the deadline overflows `Instant` (`pty.rs:540`) panics; the
  model's clock has no width.
* The idle interval of persist mode is a sleep of the hook; any time may pass between its steps.

## 8. Plan

Done: `Inbox`, `HeartbeatDir`, `StopHook`, `Recover`, `Heartbeat`, `Delivery` with their invariant
and proofs, first because the promise of the program is that no message is lost; `IdleWatchdog`,
`PtyRun` and `Supervision` with theirs; `PtyOutput` with its proofs; `ArtifactFiles`, `FileSystem`
and `AtomicArtifacts`.

Also done: the history of deliveries, what holds without the contract, and every property of the
files at the grain of system calls, proved.

Next, in this order:

1. Compose `PtyRun` with the stop hook: the approve of drain mode, the touch of the signal file and
   the end of the session as one behaviour, with the signal file as shared state.
2. Concurrent recoveries as a variant of `Recover` at the grain of `ArtifactFiles`, which shows what
   README:331 guards against.

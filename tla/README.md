# Verification of the Slurm terminal simulator

The program is a teaching tool: a web page that looks like the terminal of a
cluster's head node, and a server that simulates the cluster. The page keeps a
fake file system and sends `sbatch`, `squeue`, `scancel` and `sleep` to the
server; the server runs a WRENCH simulation of a batch scheduler in step with a
clock that a user may move forward and reset.

This directory holds TLA+ modules that follow the code, the TLC configurations
that check them, and theorems that TLAPS proves. `PROJECT.json` lists the runs,
the source lines behind every definition, and the hazards the properties are for.

## 1. The system

### Parts

| Part | Source | State it keeps | Operations |
|---|---|---|---|
| Simulation thread | `server/workflow_manager.cpp`, `SimulationThreadState.cpp` | `stop`, `events`, `cancelJobs`, `doneJobs`, `toSubmitJobs`, `job_list`, `server_time`, `simulationTime` | `main()`: submit, forget, cancel, advance; `createAndLaunchSimulation` |
| Its members the web server calls | `server/workflow_manager.cpp` | the same | `addJob`, `cancelJob`, `getEventStatuses`, `getQueue`, `stopServer` |
| Request handlers | `server/server.cpp` | `time_start`, `simulation_reset`, `simulation_thread` | query, addTime, addJob, cancelJob, getQueue, start, stop, reset, time |
| Web server (vendored) | `server/httplib.h` | pool of threads, connections, listening socket | dispatch, keep-alive, `listen`, `stop` |
| Supervisor | `server/server.cpp:451-483` | the child process | fork, wait, restart after exit code 100 |
| Batch service (WRENCH, not in the repository) | used at `workflow_manager.cpp:80,96,116,136` | jobs, mailbox of the WMS | submit, terminate, send events |
| Background workload | `SimulationThreadState.cpp:52-179` | - | `createTraceFile` per scheme |
| Job size search | `compute_rightnow_job_sizes.cpp` | - | a stand-alone search |
| Client file system | `client/filesystem.js` | `contents`, `currentDir` | mkdir, touch, cp, rm, cd, save, reset |
| Client terminal, editor | `client/index.js` | what is shown, `openedFile`, `history`, input lock | commands, editor, reset button |
| Client session | `client/index.js:1167-1387` | `simTime`, poll timer | start, poll each second, addTime, reset with retries |

### How they interact

The page polls `/api/query` every second. Each query makes the server read its
clock, hand over the ends of jobs found in `events`, and store the clock in
`server_time`; the simulation thread waits for events as long as
`simulationTime < server_time`. `sleep` moves the clock (`time_start`) and waits
until the simulation has caught up. `sbatch` puts a job in `toSubmitJobs`, where
the simulation thread finds it; `scancel` puts a name in `cancelJobs`. `start`,
`stop` and `reset` ask the simulation thread to leave `main()`, join it and end
the process; `start` and `reset` end it with the code that makes the supervisor
fork a new one.

### What is hard

- **Concurrency.** Requests run on a pool of threads beside the simulation
  thread. A mutex guards the pushes and pops of the queues, but not the tests
  before them (`workflow_manager.cpp:88,106,110,259`), not `job_list` in `addJob`,
  `cancelJob` and `main()`, and not the clock.
- **Order.** `addJob` lets the simulation thread see a job before `job_list` has
  it; `main()` handles submissions, then cancellations, then time.
- **Two clocks.** Real time moves on between the moment a handler reads it and
  the moment it stores it.
- **The end.** `start`, `stop` and `reset` may come together, while other requests
  wait, and on connections that were open before the server stopped listening.
- **Connections.** A connection lives longer than the request that opened it, and
  longer than the server's will to serve: after `stop()` the pool goes on reading
  from the connections it has until they have had their number of requests or are
  silent for five seconds. Timeouts, hang-ups and bodies that stop half-way leave
  bytes behind that the next read finds.
- **Text.** Queries, paths, chunks and forms are taken apart by hand-written loops
  over bytes, with limits at every turn.
- **The page.** Ends of jobs, long sleeps and resets come back between commands,
  with locks made of `display` and `disableStdin`; the file system is a flat map
  of path strings.

### What makes each part correct

A created job is in exactly one place and reaches the batch service in order
(simulation thread); its end is told once, and only if it ended (handlers); only
cancelled jobs are terminated; no client sees a simulation that is ahead of its
clock; no skip of the clock counts twice; every accepted job is submitted, every end taken,
every sleep answered, every reset carried out; the process ends only after its
simulation. A connection is served by one worker and closed in the end, its answers
are the answers to its requests, and `listen()` returns after `stop()`; what an
encoder wrote a decoder reads. A stopped server is gone in time and followed by
another. The background jobs fit the cluster and leave room. On the client: protected files survive every command, the file in
the editor can be saved, `rm` does not take the working directory away.

## 2. Modules

| Module | What it models |
|---|---|
| `BatchService` | the batch service and the mailbox, as the code uses them (external) |
| `WorkflowManager` | the simulation thread, and the effect of the members the handlers call |
| `SlurmServer` | the handlers, the clock and the end of the process; composes the two above; all server properties |
| `JobLifecycle` | abstract specification: what users are promised about a job |
| `MCSlurmServer` | values for TLC |
| `SlurmServerProofs` | theorems about `SlurmServer`: types, clocks, cancellations, the end |
| `SlurmJobsProofs` | theorems about where jobs and their ends are, and the step simulation: `SlurmServer` implements `JobLifecycle` |
| `ThreadPool` | the pool of `httplib.h`: queue, condition variable, shutdown |
| `HttpService` | abstract specification: what the handlers rely on of the library that calls them |
| `WebServer` | `listen`, keep-alive, requests from their first byte to their answer, `stop`; extends `ThreadPool`, implements `HttpService` |
| `MCWebServer` | values for TLC |
| `WebServerProofs` | theorems about the pool, the workers, `listen` and `stop`; and about the bytes of a connection: requests, reads and answers |
| `HttpText`, `Multipart` | the functions of `httplib.h` over bytes: URLs, UTF-8, paths, headers, chunks; the parser of forms |
| `Loops` | a loop of the code as the values its variables take, round after round; with the theorem and the lemmas that proofs about loops rest on |
| `JobSizes` | `compute_rightnow_job_sizes.cpp` |
| `BatchFile` | the numbers a user types: the form of the batch editor, the file it writes, `sbatch`, `sleep` |
| `Workload` | the platform and the background jobs of each scheme |
| `Algorithms`, `MCAlgorithms` | inputs for these functions, the reference definitions, and the properties |
| `AlgorithmsProofs` | theorems about `Algorithms`: what these functions compute, for inputs of any length |
| `FormsProofs` | theorems about `Multipart`: forms of any contents, in any pieces |
| `Session` | page, connections and the processes that follow each other, in seconds |
| `SessionProofs` | theorems about `Session` |
| `Filesystem` | the client's file system |
| `Terminal` | commands, editor, sleeps, resets and ends of jobs over it |
| `MCTerminal` | values for TLC |
| `TerminalProofs` | theorems about `Terminal` |

### The server and the code

`wmsPc` is where the simulation thread is in `main()`, one label between two
accesses of shared state: `SubmitJob` and `PopSubmitted` are the two halves of the
loop at lines 88-103, `TerminateJob`, `EraseCancelled` and `PopCancelled` those of
110-128, `TestAdvance`, `WaitEvent`/`WaitTimeout` and `PushEvent` those of 133-156.
`pc[h]` is the same for the thread `h` of the web server: an `addTime` goes
through `skip_read`, `skip_write` (the two halves of `-=`), `ev_arg` (the clock is
read), `ev_test` and `ev_take` (the loop of `getEventStatuses`), `ev_time`
(`server_time` is stored) and `catch_up`.

- A critical section under `queue_mutex` is one action: nothing waits inside, so
  indivisibility is all the mutex gives. The tests outside it are actions of their
  own, which is where the interesting interleavings are.
- Accesses the C++ standard leaves undefined are races on a container
  (`JobListRace`, `DoneJobsRace`, `CreateRace`), a workflow that is gone (`WorkflowGone`:
  it is a local variable of the simulation thread's function), `front()` of an empty
  queue (`EmptyFront`) and null pointers (`NullPointer`). The last two stop the thread
  there, and the process dies (`Segfault`); at the others the process may die
  (`Corrupt`) or do what the author meant. `Die` leads to `crashed` or, because
  `signal_handler` turns a segmentation fault into exit code 100, to `reset`.
- A handler that throws (`join` of a thread that cannot be joined, `addTask` of a
  name that exists) is answered by the web server's catch (`JoinThrows`,
  `DuplicateTask`).
- `Connected`: a connection that was accepted may bring requests after `stop()`.
- Times are ticks; `Second` ticks are a second, and `Whole` is the division by 1000.
- Assumed of WRENCH: `terminateJob` throws for a job the service does not hold (or
  a null one) and changes nothing; a terminated job sends no event; simulated time
  passes for the batch service only while the WMS waits. Which job starts or ends
  next, and whether it completes or fails, is open.
- Left out: durations and node counts of running jobs, texts, the read-only
  `/api/time`, the contents of answers that no property is about.

### The web server and the code

`WebServer` puts the thread of `listen_internal`, the workers of `ThreadPool` and the
clients side by side. A critical section of the pool is one action, its waits and
notifications are apart, and `cond_.wait` may wake up for nothing. A worker's `at` is
its place in `process_server_socket_core` and `process_request` with their locals:
`alive` (`keep_alive`), `line`, `headers`, `body`, `handle`, `stop_call`, `write`,
`close`. One step reads one piece.

- A request arrives as a line, headers and as many pieces of body as announced. A
  read takes the next piece, or fails by a timeout or at the end of the connection;
  any read may. A piece is there with its last byte; as long as a worker reads it byte by
  byte, the model stays where it is (see Fairness for how long that may be).
- What a failed read leaves behind stays in `net`: `getline` takes what
  is there up to the end of a line, so a body left over is taken for a request line
  together with the line after it. Headers left over are more than one line, each of
  which may be answered 400 (`Gone`). The beginning of a line is thrown away by a
  timeout, and taken for a line at the end of the connection (`Broken`).
- A body has an announced length. One in chunks or without a length, which the page never
  sends, is read by loops of their own; `ReadChunked` in `HttpText` is the first of them.
- `Connection: close` of a request is answered, and `connection_closed` is set on a
  copy (`httplib.h:1765`): the loop goes on until the timeout.
- `Handle` is the handler: one that stops the server joins the simulation thread
  first, which throws for all but the first; what else handlers do is `SlurmServer`.
  `Over` is the process after `listen()`.
- When `accept` fails, `svr_sock` is `closed` and not `invalid`: a later `stop()`
  closes the number again. What that does is left open.
- `HttpService` has threads in a handler, a flag for accepting and one for `listen()`.
  `SlurmServer` is written against it: one request per thread, calls after `stop()`
  (`Connected`), `listen()` returning when no handler runs (`RealMainReturns`).

`HttpText` and `Multipart` are the functions as they are. In a piece of spaces only, the
bounds `trim` moves cross, and `parse_query_text` makes a string of a range that ends
before it begins, which throws or runs out of the text (`httplib.h:1441-1468`,
`2837-2849`): `ParseQuery` has no result then (`Blank`, `Crossed`). `QueriesRoundTrip`
never meets such a piece, because it escapes every space. `ReadChunked` ends a body at a line that is not CRLF, `Sure` keeps back what may begin
a boundary and `Body` gives up as much as the code does when it was none. A loop of
the code is an instance of `Loops` whose `Round` is its body: `Loop(p, a, n)` are its
variables, first `a`, after `n` rounds, where `p` is what the loop leaves alone. A loop
that ends before its rounds are over, by a `break` or a `return`, does nothing in the
others. So it has no recursive operator, which the prover could not reason about.

### The session and the code

`Session` counts in seconds, because both sides do: the page sleeps 5 and 4 and
polls every 1, the server gives up a silent connection after 5. All that is due
happens within its second, in any order. `pc` is where `main` or `resetSimulation`
awaits something; the poll is a second fiber with its own request. A browser uses a
connection that is open and idle before it opens another; a request on a connection
the server still serves is answered even after `stop()`, by a 500 if it would join the
simulation thread again, and the page does not look at the status. `Exit` is
`listen()` returning, the exit code and the supervisor's next `fork`.

### The client and the code

A path is the sequence of its names; `Normalize` folds `normalizePath`'s treatment of
`..` (which a path in the root keeps: `/..` is a path like any other), and
`getDirPath` removes the *first* occurrence of the file name, as the string search
of the code does. Names are atoms: no name is a proper part of another, which that
string search could tell apart. An entry keeps its own `name`, which the code does
not always keep equal to the last name of its path (`copyFile`, `resetTime`, and
the destination of a copy, `Into`, depend on it). Texts and times of creation are
left out.

`Terminal` has one action per command that changes something. `waiting` stands for
the locks of the page: `disableStdin` and the hidden button of a long sleep and of
a reset. A command runs in one go in JavaScript up to its first `await`, and none of
those modelled has one but `sleep` and the reset, which are two actions each. The
ends of jobs (`JobEnds`, `handleEvents`) come at any time: during the editor, a
sleep or a reset.

## 3. Runs

| Run | Question | Result |
|---|---|---|
| `server_jobs` | Can any interleaving lose, double or reorder a job, report an end twice, terminate a job nobody cancelled, or count a skip of the clock twice? | no |
| `server_clock` | Can the simulation pass the clients' clock; can their clock go back; is every `addTime` answered? | no; no; yes |
| `server_serial` | With one request at a time, does the server keep the promises of `JobLifecycle`? | yes |
| `server_lifecycle` | Start, stop, reset and late requests at once: does the process end only after its simulation, and does it end? Is every job submitted, and every end taken? | yes |
| `terminal` | Do the protected files, the file in the editor and the working directory survive any sequence of commands, sleeps, resets and ends of jobs? | yes |
| `cancel_early` | Is a job gone whose cancellation was answered success? | **no** |
| `reset_hangs` | Does a reset end the process while an `addTime` waits? | **no** |
| `web_server` | Is each connection served once and closed, do the answers match, does `stop()` find its socket, does `listen()` return, and is all this the service the handlers are modelled against? | yes |
| `algorithms` | Do the functions over text, sizes and workloads compute what their references say; is the server asked for what the user typed? | yes |
| `session` | One timer, one server after the other, each gone in time and followed; does the first poll meet the new one? | yes |
| `early_start` | Does the start four seconds after a reset meet a new server? | **no** |
| `half_capacity` | Does the search find all sizes of which two jobs fit the cluster? | **no** |

The four "**no**" are disagreements between a comment and the code, described with the
lines under `findings` in `PROJECT.json`:

1. `cancelJob` answers success when it has queued the name; `main()` may handle that
   before it has submitted the job, which then runs.
2. A reset ends the simulation thread while an `addTime` waits for it to catch up;
   the handler never returns, so `listen()` does not, and the process neither ends
   nor restarts.
3. A reset's start may go out on a connection the old server still serves: it waits
   five seconds for silence, the page sleeps four, and a last poll or another request
   may have kept the connection fresh. The page then believes in a new server.
4. The comment in `compute_rightnow_job_sizes.cpp:108` gives up sizes above half the
   capacity, "that would mean only one job at a time"; the test gives up a third and
   more, rounded down. On seven nodes, with one to leave, nothing is found, though two
   jobs of two or of three nodes fit. `SearchIsExact` is about the test as it is.

Other weaknesses the models contain, for which the repository promises nothing
definite enough to check: an end taken between the two halves of `addJob` is told to
nobody (`workflow_manager.cpp:222`); two threads that both saw one event both take one
(`EmptyFront`); of two `addTime` at once one skip may be lost (`server.cpp:233`), and of
two queries the later may store the earlier `server_time` (`server.cpp:108`); an
`addJob` whose task number another one took as well is answered with an error
(`workflow_manager.cpp:201`); a request may come before there is a WMS, or after its
workflow is gone (`SimulationThreadState.cpp:234`, `238`); a copy
over an output file survives a reset, because that goes by the entry's name
(`filesystem.js:284`, `617`); the second start of a trial is not caught (`stuck` in
`Session`).

These are also why some properties are stated as they are: `JobLifecycle` is
implemented by a server whose requests come one at a time, and `ResetRestarts` holds
in a run without `addTime`.

### Bounds

- *Threads.* Two handlers beside the simulation thread. Every race
  listed in section 2 is between two threads, and two handlers give each pair
  (handler and handler, handler and simulation thread) in every order.
  `server_serial` has one by intent. The theorems of section 5 are for any number.
- *Jobs.* Two in `server_jobs` and `server_serial` (order, duplicates and a
  cancellation of one while the other moves need two), under symmetry: jobs are
  interchangeable and no liveness is checked there, and in `server_jobs` so are the two
  handlers. One elsewhere. One background
  job in `server_serial`, none elsewhere: its events are the only thing it adds.
- *`MaxNow`, `MaxSkip`, `Increments`, `Second`.* Real time moves at most one tick, and a
  sleep may be asked for until `MaxSkip` ticks were skipped: enough for the simulation to
  wait, to be behind, level and ahead of the clock by a part of a second
  (`server_clock` has two ticks to the second for that), and for the skip of one
  handler to fall between two steps of another. In `server_jobs` and `server_serial`
  real time stands still: what they ask is about the order of steps. The theorem
  `SkipsNeverCountTwice` is for a time that moves.
- *`MaxCancels`* cancellations wait when one more arrives; *`MaxLate`* requests are
  taken after the server stopped listening (two in `server_lifecycle`, so that
  both threads may still send one).
- *`RequestSizes`* in `server_serial` and `server_lifecycle` are -1 (a huge
  `unsigned int`), the size of the cluster and one more.
- *`Sleepers`.* In `server_jobs` both threads may serve `addTime`, and both be between
  the two halves of `-=`. In `server_clock` one does: with two, `SimulationBehindClock`
  and `ClockNeverBack` fail because a skip is lost. One page sends one `sleep` at a time
  as long as its user waits for the prompt.
- *`web_server`.* `ConnectionsEnd` is checked of one connection, which stands for the
  other: the specification treats them alike. Two workers and two connections, so that both may be with one worker,
  one after the other, or with two at once; two requests in all (`MaxRequests`), on one connection or on two, one with a
  body and `Connection: close`, one that stops the server; two requests per connection
  (`KeepAliveMax`; 5 in the code), so that the limit is reached. Both workers may stop
  the server at once. The theorems of section 5 are for any numbers.
- *`algorithms`.* Every text up to the length given for each subject in `MCAlgorithms`,
  over the bytes the function tells apart: five for queries and forms, eight for paths,
  three chunks whose lengths have one and two hexadecimal digits and limits; all limits of
  UTF-8; clusters of up to nine nodes; numbers for `rand()` that give first and last
  choices; numbers at and beyond each limit of a field of the form and of `sleep`. The search has no bound of its own to reach.
- *`session`.* Two connections (poll and page together need no more), the numbers of
  the code for requests and seconds, five resets, and up to five seconds for a new
  process to listen, longer than the page sleeps. Five resets matter: with two, a
  stopped server looks as if it were gone earlier than it is, because the page runs
  out of resets before its connections run out of requests.
- *Client.* Four names, one of them an output, two of them batch files; paths of at
  most three names (`MaxDepth`), which gives a working directory two levels below
  what is removed, and a path with the same name twice; six entries (`MaxEntries`),
  half of them the user's. Arguments are relative, absolute and `..`.

Deadlock is checked except where the program really may stop: in `server_clock` and
`reset_hangs` (a start or reset during an `addTime` leaves every thread waiting: finding 2),
in `algorithms` and `half_capacity` (inputs have a greatest length) and in `terminal` (`edit` of a directory or a binary called `*.slurm` throws
after it has hidden the terminal, `index.js:194-201`, and nothing can be done on the
page). `Over` is the stuttering of a process that has ended.

### Fairness

`FairSpec` has weak fairness for the simulation thread's steps, for each handler's
steps, for the return of `listen()` and for a segmentation fault: these are threads
of one process, which the operating system runs. It has strong fairness for `Poll`,
a query that arrives at a free handler: the page sends one every second
(`index.js:1347`, `1437`), but between two of them every handler may be busy. `Tick`,
`BatchStep`, `Corrupt` and all other arrivals have none: real time is bounded, jobs
need never start or end, undefined behaviour need not bite. `AddTimeAnswers` really
needs the polls: `addTime` stores a `server_time` that its own loop outgrows. It
answers unless a start, stop or reset stops the simulation first (finding 2).

`WebServer` has weak fairness for `listen` and for every worker. This assumes two things.
A handler returns; that of `addTime` in `SlurmServer` may not, which finding 2 is about.
And a read comes to an end: `select` has a timeout, but a new one for every byte, and
`getline` (`httplib.h:1504`), `read_headers` (2445) and the functions that read a body
(2501-2544) have no limit to how many bytes they read or how long they take in all. A
client that sends a byte every four seconds, and never the last one, keeps its worker
for ever, and `listen()` never returns. `ConnectionsEnd` and `ListenReturns` do not hold
with such a client: they are for clients that finish the request they have begun, or
hang up, or fall silent, in the middle of a request as well as between two. Clients may
choose among these, so their actions have no fairness.
`Session` has weak fairness for page, polls, server and time together: timers
fire, the process is run, and time passes; the user need not do anything.

No property of `Terminal` is a liveness property: a reset, a sleep or a user may
never go on.

## 4. Properties worth knowing

- `CreatedJobsAreKept`: the jobs with an identifier are exactly those in the hands
  of an `addJob` handler plus those handed over (`submitted \o InTransit`), each
  once, although the front of the queue is used, submitted and popped in three steps.
- `EndsReportedOnce`: over what was reported, what is queued, what the simulation
  thread holds and what is in the mailbox, a job occurs once and has ended.
- `SimulationBehindClock`: before a start, stop or reset, the simulation is less than
  a second ahead of the clock, with stale times in every handler.
- `SkipsCountOnce`: two threads between the two halves of `time_start -= increment` lose
  a skip or set the clock back, but no skip counts twice: neither the clients' clock nor
  the simulation is further ahead of real time than clients asked for.
- `EndsAfterSimulation`: when the server has stopped listening, the simulation
  thread is over and has been joined, by one handler only.
- `WholeRequests`, `AnswersMatch`: after a timeout in a body the connection goes on
  with what the client sends later; no handler sees a request of which a piece is
  missing, and until an answer says 400 the i-th answer is to the i-th request.
- `LastAnswerSaysClose`: counting down in one function and writing the header in
  another, the two agree on which answer is the last.
- `ImplementsHttpService`: refinement. No handler is called after `listen()` has
  returned, and none is running then, whatever connections are open when `stop()` comes.
- `FormsInPieces`: a form is parsed the same however the network cuts it, except for
  contents with more CR, LF and dashes in a row than the boundary is long, where the
  parser may take part of a boundary for content; the property names the exception.
- `SearchIsExact`, `WorkloadFits`: the sizes the search accepts are those a reference
  by sets of sums accepts, among the sequences it looks at: the first size is not 1, and
  one is below a third of the nodes (finding 4); and the sizes pasted into the scheme are
  such.
- `ConnectionsEnd`, `ListenReturns`: under the assumptions on clients and handlers that
  section 3 states under Fairness.
- `TypedIsSent`: what the form lets a user save is what `sbatch` asks for, a node and a
  second at least, although the reading and the writing of the file were written apart;
  and the limits of `sleep` keep `addTime` within its `int`, by less than a tenth.
- `StopsInTime`: a stopped server is gone after as many silences as a connection may
  have requests, at most. Two connections do not add up: both are silent, or served,
  at the same time.
- `FirstPollMeetsNewServer`: of the first poll of `main()`. The page's sleep of 5 seconds
  there and the server's timeout of 5 seconds just fit; that of 4 in a reset does not
  (finding 3).
- `ImplementsJobLifecycle`: refinement. `LifeOf` reads the life of a job off the
  queues, the batch service and the history of reports.
- `OpenFileCanBeSaved`: the editor keeps the path as typed; no end of a job, sleep
  or reset may change what it resolves to.

Every property of a passing run has a mutant (a small change of one mapped
definition, kept next to the original) that the run finds.

## 5. Theorems

Checked with TLAPS, for any values of the constants that satisfy the assumptions of
`BatchService`, `WorkflowManager`, `SlurmServer`, `ThreadPool`, `WebServer`,
`Session`, `Filesystem`, `Terminal` and `Algorithms` (disjoint kinds of jobs, whole-second increments, names without `..`, and so on),
which TLC evaluates in every run.

| Theorem | Property | Argument |
|---|---|---|
| `TypeCorrect` | `TypeOK` | inductive as it stands; it says that a queue the simulation thread has tested is not empty, because only that thread pops |
| `CreatedJobsStayKept` | `CreatedJobsAreKept` | strengthened to `JobsInv` |
| `JobsKeepTheirOrder` | `FirstComeFirstServed` | an action property, from `JobsInv` |
| `EndsAreReportedOnce` | `EndsReportedOnce` | strengthened to `EndsInv`, on top of `JobsInv` |
| `SerialServerKeepsPromises` | `ImplementsJobLifecycle` | refinement, for one handler; from `JobsInv`, `EndsInv`, `CancelInv` and `LifeInv` |
| `SimulationStaysBehindClock` | `SimulationBehindClock` | assumes at most one `Sleeper`; strengthened to `ClockInv` |
| `SkipsNeverCountTwice` | `SkipsCountOnce` | for any number of `Sleepers`; strengthened to `SkipsInv` |
| `OnlyCancelledTerminated` | `TerminatedOnRequest` | strengthened to `CancelInv`: all of `cancelJobs` was answered success |
| `EndsAfterJoin` | `EndsAfterSimulation` | inductive as it stands |
| `EachTaskRunsOnce` | `TasksRunOnce` | inductive: the queue and the history together never repeat a task, and what runs is in the history |
| `ShutdownLosesNothing` | `ShutdownDrains` | strengthened to `PoolInv`: a worker is over only after the flag and with an empty queue, and nobody sleeps after `notify_all` |
| `WebTypeCorrect` | `TypeOK` | strengthened by `WorkInv`: a worker with a request has requests left, and a body being read is not over |
| `WebServerUsesPool` | - | step by step: a connection is enqueued only when it is accepted, hence once, so each step is one of `PoolNext` or leaves the pool alone |
| `EachConnectionServedOnce`, `ListenLosesNothing` | `TasksRunOnce`, `ShutdownDrains` | those of the pool, through `WebServerUsesPool` |
| `HandlersSeeWholeRequests` | `WholeRequests` | strengthened to `StreamInv` and `ReadInv` |
| `AnswersMatchRequests` | `AnswersMatch` | strengthened to `MatchInv`, on top of these two |
| `StopAssertionHolds` | `StopAsserts` | `StopInv`: only the handler that joined the simulation thread goes on to `stop()` |
| `LastAnswerCloses` | `LastAnswerSaysClose` | `CountInv`: answers given and answers left add up to the limit for the connection a worker has; the others have none yet, or are closed for good |
| `WebServerIsService` | `ImplementsHttpService` | refinement: each step of the web server is a `Call`, `Return`, `StopAccepting`, `TakeDown` or a stutter; `ListenInv` ties `listener` to the pool's owner, and `PoolInv` shows that no handler runs when `listen()` returns |
| `OneTimerAlways` | `OneTimer` | strengthened to `SessionInv`: while the page is not ready no timer is set |
| `StoppedServerIsGone` | `StopsInTime` | strengthened to `OpenInv` |
| `FirstPollIsLate` | `FirstPollMeetsNewServer` | of the first poll of `main()`, before any reset; assumes `KeepAlive <= 5`, the code's value; strengthened to `PollInv` and `HistoryInv` |
| `ProtectedAlways` | `ProtectedStays` | inductive: nothing else is protected, so what is in a removable directory is not; the lemmas treat `Put` and `Delete` once |
| `TerminalTypeCorrect` | `TypeOK` | inductive together with `ProtectedStays`: an entry gets the last name of a path, and no command puts one where the root is, the path that has none |
| `OpenFileStays` | `OpenFileCanBeSaved` | strengthened to `EditorInv`: no wait begins or ends while a file is open |
| `WorkingDirKept` | `RemoveKeepsWorkingDir` | an action property, no invariant needed: what `rm -r` deletes is exactly what `InUse` tests |
| `PathsStayInside` | `ValidPathsStayInside` | the level of the loop is the depth of the walk as long as it never went below |
| `CodesAreDecoded` | `UnicodeEscapes` | four digits are the number they write; then each length of UTF-8 by arithmetic |
| `NumbersRoundTrip` | - | the digits of `n` are those of `n \div base` and one more, and reading them undoes that |
| `BodiesAreReadBack` | - | a round of the reader takes one chunk off what was written, whatever its bytes |
| `ChunksAreReadBack` | `ChunksRoundTrip` | from `BodiesAreReadBack` |
| `QueriesAreReadBack` | `QueriesRoundTrip` | a round of `decode_url` takes one encoded character off; an encoded text holds no `&` and no `=` |
| `FormsAreReadBack` | - | for any contents, header line, boundary and pieces: `StandsAt`, below, holds after every round, and when all has arrived only the end is left to stand at |
| `FormsAreTakenApart` | `FormsInPieces` | from `FormsAreReadBack`: the two cuts the run tries are pieces of the form |
| `WorkloadsFit` | `WorkloadFits` | each size of the scheme is even and six at least, but 7; so their sums miss 29 to 32, and every job fits |
| `SizesAreFound` | `SearchIsExact` | `Incremented`, `SearchStops` and `SpaceIsLeft`, below |
| `TypedAsSent` | `TypedIsSent` | what is written with digits, blanks and colons is taken apart where it was put together |
| `LoopRounds` | - | a loop's values exist and are unique, by induction over its rounds |

The hypotheses in the table are the only ones besides the constants' assumptions, and
each is needed: what goes wrong without it is said below or in section 3.

### The inductive invariants

Each was first given to TLC as an invariant of a run, and is a definition of the module
the theorem is about, next to the property, or of the proof module.

- *Jobs.* `CreatedJobsAreKept` is nearly inductive: `Handed` is what the batch service
  got followed by what is in the queue (less its front between the two halves of
  submitting it), it repeats no job, and a job in the hands of an `addJob` is not in it
  and in no other's. `JobsInv` adds that nothing is submitted before the background
  jobs.
- *Ends.* `EndsInv` adds to `EndsReportedOnce` that the batch service knows exactly the
  jobs it was sent, each of which it was sent once (`JobsInv`): so it ends a job once,
  and from then on the end only moves, from mailbox to simulation thread to `events` to
  a report. Two handlers that both saw one event take different ones, because a critical
  section takes the front.
- *Life of a job.* `LifeInv` is what the abstract state needs to be read off the concrete
  one (`LifeOf`): what `main()` is about to pop was submitted; a job leaves `job_list` when
  it is cancelled or reported, and is in it otherwise, unless its `addJob` is still at
  work; what is listed, or about to be listed or cancelled, has no reported end.
  `SerialServerKeepsPromises` then shows that every step changes the life of at most one
  job, in a way `JobLifecycle` allows. It needs one handler: with two, an end may be
  taken between the two halves of `addJob`, and the refinement is false.
- *Clocks.* `ClockInv` says what the code relies on without saying it: a handler between
  reading the clock and storing `server_time` holds a time the clock has already reached;
  the simulation thread is in `waitForNextEvent` only while it is behind the clock, so
  one more second leaves it less than a second ahead; and the one handler that stores
  `time_start` moves it back in real time, hence the clock forward. With two sleepers
  the last point fails. `start` sets the clock back, so the statement is for a server that
  no start, stop or reset has touched (`Serving`). `SkipsInv` is what remains with any
  number of sleepers, starts included: `asked` is the sum of the increments that handlers
  have begun to subtract, and no `time_start`, stored or about to be stored, no
  `server_time` and no time in a handler's hands is further ahead of real time than that;
  so a skip is never counted twice, however many were overwritten.
- *Streams.* `Stream` is what the client of a connection has begun to send and no worker
  has read, as one sequence of pieces. `StreamInv`: a line in it is followed by its
  headers, and all but as many pieces as its request has are of later requests
  (`InOrder`, `Later`); nothing is of a request that has not begun. `ReadInv`: when a
  worker has read a line, and failed at nothing since, all but the pieces it has still
  to read are of later requests; so none of the request is on its way when a handler is
  called. `MatchInv`: until an answer says 400, client and worker agree which request it
  is, the one after the last answer.
- *Session.* `OpenInv`: a connection to a stopped server that is still open has taken as
  many requests as the server's age needs, each after at most one silence. This proof
  was a finding about the model: an earlier statement, with one silence for each
  connection added to the requests of one, was no invariant, although the run with two
  resets passed. `PollInv`: until the server is another one, the page has not polled,
  and the silence on each open connection and what is left of the page's sleep make up
  the five seconds; `HistoryInv` adds that no start meets a later server, that the poll
  asks and does nothing else, and that only a page that sleeps has a sleep left.
- *Paths.* `Normalize` is recursive; that the recursion defines something, and what it
  defines is a path, is proved by the least number of parts for which it does not
  (`Least`, from the library's theorem that the numbers are well-founded, which, unlike
  its induction theorems, is a statement about sets).

### The algorithms

An input of `Algorithms` is a sequence of any length over any alphabet of what the code
can be given (`AlphabetAssumption`): bytes but 0 for a text, chunks of a byte at least,
clusters of a node at least, numbers that `rand()` returns. `AlgorithmsTypeCorrect` is all
that is inductive; from it each property is shown of the one input, by induction over the
rounds of the loops that read it. The library's induction takes an operator, which the
prover cannot instantiate; `Induction` in `Loops` takes a set of numbers instead, and its
`Least` rests on the library's theorem that the numbers are well-founded.

- *Reading back.* A loop that reads what another wrote is followed round by round: what
  is left to read, and what has been read, are the rest and the first of what was written
  (`RoundOfChunk`, `DecodeUnit`). A round takes as much as was written for one element and
  no more, because what is written for it says where it ends: a chunk by its length, a byte
  by its two digits, a key by `=`, which no escape holds.
- *Forms.* `StandsAt` is the invariant of the parser: after some pieces its buffer is the
  text between the place it has used up and the last byte that arrived; in each state that
  place is where the form has it (a header line, its end, within a content, behind the
  boundary), and the parts are the contents before it and as much of this one as was
  passed on. A parser that has stopped did so for lack of text. `FindAt` says what a
  search in a part of the text can find; `SureFacts`, that what is passed on at once is
  never more than the content, and what is kept is short and made of ends of lines and
  dashes; so, with the hypothesis on such rows, the buffer cannot be as long as the
  boundary's pattern without it (`TailIsShort`), which is where the code would take part
  of a boundary for content. `OneLess`: of two rounds in a row one uses up two bytes or
  stops, so the rounds `Run` is given are enough and the code's loop ends.
- *The search.* `Incremented`: `vectorIncrement` goes to the next sequence in order, between
  the bounds, and leaves out none. `SearchStops`: a search that only goes on to later
  sequences is over after as many rounds as there are sequences, because it would meet one
  twice; so the loops of `JobSizes` are given enough rounds, and the loops of the code end.
  `EnoughIsLeft` and `AllCandidates` are the invariants of the inner and the outer loop.
  `SpaceIsLeft`: a number of nodes is reached by some numbers of jobs if and only if the
  sums, one node after the other, reach it; a way to run jobs that fits has no more jobs of
  a size than there are nodes (`OccupiesEnough`), which is why the code's bound is enough.
  On one node the first candidate is beyond its bound, and the code tries no other.

### What is only model-checked

`ClockNeverBack`, which one writer of `time_start` makes plain. Liveness (`JobsAreSubmitted`, `EventsAreTaken`, `AddTimeAnswers`, `ResetRestarts`,
`ListenReturns`, `ConnectionsEnd`, `ServerReturns`): fairness and `ENABLED` are out of the
prover's reach. Every invariant of a passing run is a theorem, each under the hypotheses
its row in the table names. The four findings are counterexamples and need no proof.
`SessionTypeCorrect`, `PoolTypeCorrect` and `WorkersLeaveLast` are proved and in no run.

## 6. Not modelled

Of `httplib.h`: the HTTP client, TLS, compression, ranges, content providers, digest
authentication and the branches for other systems, none of which `server.cpp` uses.
The platform file `four_hosts.xml`, build files, the page's layout and the narrative
have no behaviour of their own. Of the client: the command history, line editing, the
commands that only print, and the clock the page shows between two polls. `BatchFile`
has no state between two changes of the form; the code has: a bad field and Cancel
leave the save button disabled for the next file (`index.js:289`). Of the server:
durations and node counts of running jobs, and parsing and printing JSON.

## 7. Plan

1. **`CommandLine`**: history recall, the cursor of the arrow keys, tab completion, and
   the save button across several files.
2. **Composition**: `SlurmServer` over `HttpService` by refinement, as `WebServer` is,
   so that the two meet in one abstract specification.

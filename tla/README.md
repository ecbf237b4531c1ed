# Lua for Windows: models and proofs of its own logic

Lua for Windows is a distribution: the Lua 5.1 interpreter with several dozen
libraries written in Lua (`src/files/lua`), C libraries as binaries
(`src/files/clibs`), documentation, an editor and an installer.  There is no
single program in it.  Two things in it have *logic* of their own, state that
outlives a call and is changed by several parties.  One is the libraries that run
several threads of control: the LOOP class library's scheduler, which the OiL
object request broker is built on, OiL itself, Copas, Lanes.  The other is what the
distribution has as source in C, C++ and for the debugger: programs that embed Lua
and OiL, a COM component, the drivers of the DES library, and the hook of the
debugger in its editor.

Modelled at present: the LOOP scheduler with the two collections and the protected
call it rests on; the scheduler for sockets built upon it; the client side of OiL,
whose threads share a connection; the C++ embedding of OiL with the programs that
use it; the component of the LuaCOM examples; the DES programs; and the debugger.
The sections *Inventory* and *Plan* say what else there is and in which order it is
to be added.

## Inventory

Paths are relative to `src/files/lua` unless they begin with `src/`.

### Modelled

**Ordered set** (`loop/collection/OrderedSet.lua`).  State: one table, in which
a value is the key of its successor, a private key `FIRST` leads to the first
value and a private key `LAST` to the last.  Operations: insert, remove,
replace, pushfront, pushback, popfront, previous, contains, first, last, empty
and their stack and queue names.  Sequential.  Hard: one table is list, index
and end pointer at once, and `remove` of the only value leaves another end
pointer than `popfront`.  Correct means: it is a sequence of distinct values,
and each call does to it what its documentation says.

**Priority queue** (`loop/collection/PriorityQueue.lua`).  An ordered set whose
`enqueue` looks for the place by priority.  Correct means: in order, first come
first served among equals, no priority left behind by a value that is out.

**Scheduler** (`loop/thread/Scheduler.lua`).  State: `running` (ordered set of
the coroutines ready to execute), `sleeping` (priority queue by wake time),
`current` (the one executing), `currentkey` (the key of `running` after which
the traversal goes on), `halted`, `traps` (functions called when a coroutine
ends).  Operations for programs: register, remove, suspend, resume, start,
halt, run, step; internal: resumeall, wakeupall, idle, error.  Interaction:
resumeall resumes each coroutine in turn, and the coroutine calls the scheduler
back, so the list is rearranged by the very code the traversal is executing.
Hard: that interleaving; handing control over at once (`resume`, `start`);
errors that leave a cycle half done; time.

**Protected call** (`pcall`, `resumepcall`, `checkcurrent` in the same file).
State: `PCallMap`, one table for all coroutines, in which the innermost
protected call of a routine leads to the routine, and the routine to the list of
the calls it will go back to.  Hard: calls of different routines interleave in
that table.

**I/O scheduler** (`loop/thread/IOScheduler.lua`, `SocketScheduler.lua`).  State:
besides the scheduler's, `reading` and `writing`, from channels to the routine
that waits for them.  Operations: register, remove, step and idle are redefined;
`signalall` asks select() which channels are ready and releases their routines.
Hard: a routine may be subscribed to channels and asleep at once, so that a
signal, its timeout and a remove or resume by another routine may all release
it.

**Co-operative sockets** (`loop/thread/CoSocket.lua`).  State: `readlocks` and
`writelocks`, the sockets some routine is using, and the local variables of the
calls under way.  Operations: accept, receive, send, select, each with a
timeout; each suspends its routine until the I/O scheduler releases it, and then
finds out from the maps and the lists what released it.  Hard: that guess.
Correct means: a routine leaves no subscription, lock or place among the
sleepers behind, a timeout is told when and only when it is over, and a call
with a timeout returns.

**OiL mutex and client** (`oil/kernel/cooperative/Mutex.lua`, `Invoker.lua`,
`oil/kernel/base/Invoker.lua`, `Connector.lua`, `oil/corba/giop/Requester.lua`,
`Messenger.lua`).  State: per channel, who sends and who waits to send, who reads
and who waits for which reply; the pending requests by identifier, in the channel
itself; the socket.  Operations: `invoke`, `ready` and `results` of a request, and
under them locksend, freesend, lockreceive, notifyreceived, freereceive, newrequest,
getreply, reissue, forward.  Threads interact through the channel: one of those that
wait for replies reads for all, and `resume()` passes control to the thread concerned
at once.  Hard: replies out of order, identifiers used again, a connection that is
renewed by the sender or the reader while others rely on it.

**OiL C++ embedding** (`src/files/examples/oil/c++/oilaccess.hpp`, `.cpp`).  State:
two tables in Lua's registry, for classes and for objects, and on the C++ side the
index of each in them.  Operations: the constructors of `Exported` and
`ExportedObject`, their destruction, `pushOnStack`, and a call of a method by Lua
code.  Hard: Lua may keep an object C++ has withdrawn; indices are reused; everything
goes over one stack.

**Hello servers and script runner** (`src/files/examples/oil/c++/main.cpp`,
`tolua++/main.cpp`, `run/run.c` and the object they offer).  Programs that are one
script of calls on the stack of Lua; any of them may fail.  Hard: indices are computed
from the height of the stack, which differs after a failure.

**DES56 programs** (`src/files/examples/md5/DES56/ftest.c`, `fdemo.c`).  State: key,
key schedule, blocks and flags, in globals and locals, set by options and words in the
order of the arguments.  Hard: what is set or left from an earlier argument.

**Array component** (`src/files/examples/luacom/safearrays/ComponentCpp`).  State: the
registration and references that keep a DLL loaded, with or without a merged proxy;
`SetArray` counts one index per dimension.  Hard: unloading between any two calls; the
carry, for any number of dimensions.

**SciTE debugger** (`src/SciTE/scite-debug/lua_clidebugger/debugger.lua`, `dbgl.c`).
State: breakpoints, levels and step commands, partly per thread and partly for all,
kept by a hook that sees calls, returns and lines.  Commands at its prompt and the
program executing take turns.  Hard: tail calls, errors and coroutines, of which the
hook sees only some events; coroutines created by coroutines, whose events are taken for
their creator's.

### Not modelled yet

| component | source | state and behaviour | what makes it hard, and correct |
|---|---|---|---|
| Timer | `loop/thread/Timer.lua` | a routine that suspends itself for a period | disabling it from inside and outside its action |
| OiL server | `oil/kernel/cooperative/Receiver.lua`, `oil/kernel/base/Acceptor.lua`, `Dispatcher.lua`, `oil/corba/giop/Listener.lua` | pending requests per channel, one routine per request | one reply header table shared by routines that wait between filling and sending it; shutdown |
| OiL event service | `oil/corba/services/event.lua` | connected consumers, event queue | (dis)connection while events are dispatched; order of events |
| Copas | `copas.lua`, `coxpcall.lua` | reading and writing sets, coroutine per socket | two coroutines on one socket |
| Lanes | `lanes.lua` | alarms kept by the timer lane, counts of genlock and genatomic in a linda | several OS threads; the C core is not in the repository |
| Rolling log file | `logging/rolling_file.lua` | current file and its backups | size limit at the boundary, a rename that fails |
| Binary heap | `binary_heap.lua` | array | index arithmetic |
| RemDebug | `src/SciTE/scite-debug/remDebug/remdebug/engine.lua` | breakpoints, stepping state of a debug hook | as the SciTE debugger, and a socket protocol of requests and answers |
| LuaRocks | `luarocks/*.lua` | manifests, rocks trees | dependency resolution, interrupted installation |

Left out for good: the object models and utilities of LOOP (metatable plumbing,
text), OiL's marshalling, IDL compiler, naming service and interface
repository, LuaSocket's protocol clients, and the general libraries (Penlight,
stdlib, JSON, Moses, classlib, luaunit, date, xml and others): sequential
functions on data without state shared by anything.  The compiled C libraries
have no source here.  The installer scripts run once.

`PROJECT.json` has the same list with one row per component, and under
`hazards` the lines at which each difficulty bites.

## Modules

    DistinctSeq             sequences without repetition: what an OrderedSet stands for
      AbstractOrderedSet      what OrderedSet promises: one action per call
        OrderedSet              the linked table; implements AbstractOrderedSet
          MCOrderedSet
          OrderedSet_proofs       the refinement, two theorems
      DistinctSeq_proofs      lemmas about insertion, removal, successor
      Scheduler               the scheduler, over DistinctSeq
        MCScheduler
        IOScheduler             with sockets: composes Scheduler and the socket calls
          MCIOScheduler
          Scheduler_proofs        of both: four inductive invariants, eleven theorems
    CoPcall                 protected calls and PCallMap
      MCCoPcall
      CoPcall_proofs          inductive invariant, two theorems
    OilClient               mutex, invoker, requester, messenger, connector
      MCOilClient
      OilClient_proofs        inductive invariant, four theorems
    LuaStack                the stack of the Lua C API, as functions
      OilAccess               C++ classes and objects exported to Lua
        MCOilAccess
        HelloHost               composes OilAccess with the programs that embed OiL
          MCHelloHost
          OilAccess_proofs        of both: three inductive invariants, five theorems
    SafeArrays              the COM component in C++
      MCSafeArrays
      SafeArrays_proofs       two inductive invariants, three theorems
    DesTools                ftest and fdemo
      MCDesTools
    Debugger                debugger.lua and dbgl.c
      MCDebugger              one instance, with a state constraint
      Debugger_proofs         inductive invariant, six theorems

The scheduler is built on what the ordered set *promises*: `OrderedSet` is shown
to implement that promise once, and `Scheduler` uses the same operators
(`Inserted`, `Removed`, `KeyBefore`, `ValueAfter`).  That keeps the scheduler's
state two sequences, and makes it possible to prove about it.

### DistinctSeq, AbstractOrderedSet, OrderedSet

`OrderedSet` has the table as it is: `link[k]` is `self[k]` for a value or
`FIRST`, `last` is `self[LAST]`.  There is one action per method, with every
combination of arguments, `previous` and `start` included, valid or not, and
`call` and `result` record what the client did and saw.  Arguments that are nil
where a value is required are not among the inputs (the methods return at once).
`Previous` states the walk of `previous()` as the least set closed under the
links, so that it has a value, NIL, also where the code would loop for ever;
`WellLinked` excludes such tables.

`ImplementsSequence` is the refinement.  The sequence of a table (`Order`) is
the one whose chaining gives that table, and every call with its arguments must
be the abstract call with the same arguments, result included.

### Scheduler

The variables are the fields of the Lua object (`running`, `sleeping`, `wake`
for the priorities, `current`, `currentkey`, `halted`), `status` of each
coroutine, `clock`, `limit` (the argument of run), and `phase`, which says where
the control flow is: in the main program, at the start of step, in resumeall, in
the code of a routine, in a trap, or back in run.  Four variables are history
only (`served`, `parked`, `handoff`, `due`): properties speak of them, guards do
not.

| code | definitions |
|---|---|
| `register`, `remove` | `Accepted`, `Registered`, `Dropped`; actions `Register`, `Drop`, possible wherever program code runs: main program, routine, trap |
| `suspend(time)`, `suspend()` | `Suspend`, `Park`; the place among the sleepers is `PlaceFor` |
| `resume`, `start` | `Advanced`; actions `Resume`, `Start` |
| `coroutine.yield`, end or error of a routine | `Yield`, `End` |
| `resumeall` | `NextRoutine` (successor of `currentkey`, or end of the cycle), `Bury`, `CallTrap`, `TrapReturns`, `Raise` for a routine that ended |
| `wakeupall` | `WakeUpAll`, `Due`, `SomeoneSleeps` |
| `run`, `step`, `idle` | `Run`, `RunAgain` (with the wait of idle as its guard), `RunEnds` |
| `os.time` | `Tick`; `time()` is `Seconds`, the whole seconds of a finer clock |

A turn of a routine is a sequence of `Register`, `Drop` and `Halt` steps closed
by one action that gives control back.  Nothing else executes meanwhile, as
coroutines are not pre-empted; only the clock goes on.

Three things are constants because the documented promises depend on them:
`SelfCalls`, the calls that a routine makes naming itself (`remove(current)` and
the like); `MayRaise`, whether a routine without a trap may end with an error;
and `TicksPerSecond`, how fine real time is compared with `time()`.

### IOScheduler

The module extends `Scheduler` and composes its actions with those of the socket
calls, as the Lua class does.  A `Side` is one direction of one socket, so that
`waiting` is `reading` and `writing` together and `locked` the two sets of locks:
the code treats both alike.  `receive` and `send` are the same call,
"transfer".  `op[r]` is what the call that routine `r` is in keeps in its local
variables, `ready` the sides for which select() of LuaSocket would answer, and
`answer` the result of a call that has just returned.

| code | definitions |
|---|---|
| `register`, `remove`, inherited `resume` | `IORegister`, `IODrop`, `IOResume`; `Unsubscribed` is handleremoved |
| `signalall(0)` at the start of `step` | `Signal`; control is then in a phase of its own, "wake", as the clock may go on before `wakeupall` |
| `wakeupall` | `IOWakeUpAll`, `Enqueued`: a routine that the signal released is not listed again |
| `run`, `idle` (= `signalall(wake time)`) | `IORunAgain`, `IdleEnds` |
| `accept` | `Accept`, and `AcceptGoesOn` when its routine is resumed |
| `receive`, `send` | `Transfer`, `TransferGoesOn`, with the loop for more data |
| `select` | `Select`, `SelectGoesOn` |

Each call has a first part, up to its return or its first `coroutine.yield()`
(`Blocks`, `Waits`), and a second part executed each time its routine is resumed
(`Returns`, or `Waits` again).  `Tried` and `TriedData` are what the plain socket
answers; `Arrive` is the environment making a side ready.

`Interrupts` says whether routines remove or resume one that is in a socket call
(the scheduler lets them), and `Partial` whether data may come in pieces.

### CoPcall

`PCallMap` is the table; `roots` and `stack` are what the Lua runtime knows: which
coroutines are not protected calls, and the protected calls under way in each.
`Called` and `Returned` are the assignments of `pcall` and `resumepcall` in order.
Roots make and leave protected calls in any interleaving.

### OilClient

`turn` is the thread that executes, Nobody when the scheduler may choose; a step that
calls `resume(thread)` passes the turn to that thread, which is what
`SwitchIsImmediate` shows of the scheduler, and a step that suspends or yields gives
it up.  `th[t]` is the place of thread t in the code (`pc`) and its local variables.
`receivers` is keyed by the request, `channel` by the identifier, as in the code.
`conn` is what is under way on the connection, as bags, since messages of different
requests overtake each other in the server.

| code | definitions |
|---|---|
| `Mutex.lua` | `locksend`, `freesend`, `lockreceive`, `notifyreceived`, `freereceive`: operators with the thread that calls and what it does next; `SendNotified`, `ReceiveNotified` when its suspend returns |
| `invoke`, `newrequest` | `invoke`, `newrequest`, `register`, `Sent` |
| `sendmsg` | `SendDone`, `SendBlocks` (yields in the socket's send), `SendClosed` (reset and send again, or close) |
| `results`, `ready` | `receivefrom`, with a probe for `ready`; `Outcome` and `forward` for the handler |
| `getreply` | `ReceiveReply`, `ReceiveWrong`, `ReceiveClosed`, `ReceiveBlocks`, `reissue`; `Fail` for the loop over the failed requests |

`#channel + 1` is any border of the table plus one (`Borders`), as Lua 5.1 promises no
more of a table with holes.  Registering a key while `pairs` traverses the table leaves
open what the traversal visits after that (`newrequest`).  `Answer`, `PeerFails` and
`ExecuteDead` are the environment: the server, and LuaSocket for a closed socket.

### LuaStack, OilAccess, HelloHost

`LuaStack` has the functions of the C API that are used, over a sequence and indices
from either end.  `OilAccess` has the functions of `OiLAccess` as operators from one
state of Lua to the next, in the order in which they push and pop, and actions for the
constructors, `DeleteObject`, `pushOnStack` and `MethodCall`, in which Lua code takes a
method through the metatable of any userdata it ever got.  `HelloHost` extends it: a program is
a sequence of instructions (`Push`, `PushField`, `CallField`), one action executes the
next of them, a call may succeed or fail, and clients call the object while `oil.main`
executes.  OiL fetches the method right before it calls it, so that the two are one
step.  The destructor of `ExportedObject` is private and nothing in the repository
deletes one; `DeleteObject` is modelled as the class offers it.

### SafeArrays

Registration, loading and unloading are the exported functions of the DLL under their
own names (`DllRegisterServer`, `DllGetClassObject`, `DllCanUnloadNow`, `DllMain`), for the
three ways of building it (`build`).  `SetArray` is modelled down to its iterations (`Element`, `Carry` and
others), as it visits the elements by counting an index per dimension and has inverted
the bounds in place before.  The lock count of ATL is external.  Calls of different
clients share nothing, so that one `Caller` is enough.  There are no empty dimensions:
an element would be read that does not exist.

### DesTools

One action per argument: an option, the key, or a word of data; `row` is what was
printed for the last of them.  `GetvTest` and `GetvDemo` read
the words, digit by digit, and `Garbage`
is what memory held before.  The cipher is any pair of functions of which the second
undoes the first; the runs use one in which every byte depends on the key and on
another byte.  The module uses RECURSIVE operators for the loops over digits, so that
it has no theorem.  The USG build, where UNIX has no decryption, is not modelled.

### Debugger

The program debugged is any sequence of events of the Lua 5.1 runtime: a call of a
function of a given role, a tail call, a return, an error that unwinds to a pcall, a
resume, a yield, a line.  Each such action executes the hook as well: `CallEvent`,
`ReturnEvents` and `LineEvent` are `debug_hook` on these events, with `stack_level`,
`step_level` and the step variables as in the code.  In mode "prompt" there is an
action per command of `debugger_loop`.  `ground`, `asked` and `mine` are history: the
true depth that counts as level 0, the last command in terms of true depths, and the
breakpoints the user has set.  `c_addr` is the search of `dbgl.c` on the frames.

`account` is the thread that `debug_hook` takes a thread's events to be of.  The wrapped
`coroutine.create` makes a hook that calls that of the creator.  In the main program this
is `debug_hook`, to which the new hook names its own thread.  In a coroutine it is another
such hook, with two parameters, which names the creator: the new thread is on the
creator's account, and where `debug_hook` looks for the function of the event it finds a
function of `debugger.lua` (`Seen`, and the condition on the account in `CallEvent`).
`OwnAccount` is what the promises need: nobody else's events are charged to the thread.

`root`, `curfile` and `TurnsOver` are what `get_canonical_filename` does to the command:
when the program reaches another file, a project directory is set and the file cannot be
opened, `step` becomes `over`.  A place is a file and a line, and a stop, a breakpoint and
a `goto` are at a place.

A session begins in the main program, once (`pause`); a later `pause()`, in any thread, is
entered like any function (`PauseAgain`), replaces the number of lines (`PauseSets`), then
the command (`PauseSteps`), and has lines of its own before, between and after, at any of
which the program may stop.  While pauses are ignored it is a function that returns.
Watches, selecting frames, tracing and the printing of values keep no state the other
commands use, and are left out; `dbgl.c` is modelled with `GDB` defined.

## Runs

| run | question | distinct states |
|---|---|---|
| `ordered_set` | Does the linked table of OrderedSet behave as a sequence of distinct values under every sequence of method calls, with every start and previous argument? | 409 (up to symmetry) |
| `scheduler` | Do the lists, the traversal of resumeall and the promises of step, run, resume, start and suspend hold while routines, traps and the main program call everything in any order, as long as a routine does not register, remove or resume itself? | 119 722 |
| `scheduler_live` | Once routines stop rearranging the lists, is every ready routine executed and every sleeper woken, given that each routine yields some day? | 94 860 |
| `copcall` | Does PCallMap lead from the executing coroutine to its scheduled routine through any nesting of protected calls, with the routines interleaved? | 8 464 |
| `io_scheduler` | Are routines released once, none lost, and sockets unlocked, whatever the order of signals, timeouts and pieces of data, and when other routines remove and resume one that is in the middle of a socket call? | 2 137 802 |
| `io_live` | Is a timeout only told when it is over, is a routine whose socket stays ready resumed, and does every call with a timeout return, when data does not come in pieces? | 49 974 |
| `oil_client` | Do the threads that share a connection get their own replies, none sent twice and none forgotten, while requests and replies cross, the connection is lost, refused and renewed, and each hands the reading to the next? | 429 982 |
| `oil_access` | Does every exported C++ object keep its own entry, class and methods while others are exported and withdrawn in any order, and is a withdrawn one never called? | 464 523 |
| `hello_host` | Do the programs that embed OiL give each function its arguments and each call its error handler, whichever calls fail before, and does the object answer its clients rightly through the layers of the binding? | 123 606 |
| `des_tools` | Do ftest and fdemo use the key and the data that the words of their arguments mean, in the direction asked, in every order of options and words and whatever memory holds, and do the two libraries of ftest agree? | 542 882 |
| `safe_arrays` | Is the component in the process as long as a client holds anything of it, and does SetArray read only elements of the array it is given, print each element of an array of several dimensions, in order and with its own indices, and return? | 90 504 |
| `debugger` | Does the debugger stop in time and no deeper than asked after step, over and out, with exact levels, the right C function and the user's breakpoints kept, while coroutines create, resume and yield, errors are caught, pause() is called again, and files with and without their source are reached in any order? | 1 105 595 |

### What the properties say

* `WellLinked`: the table has its type and is always the linked form of some sequence of distinct
  values: no cycle, no link of a removed value, the recorded end is the end.
* `NeverInBoth`: no routine twice in a list or in both lists.
* `PlaceKept`: the key that the traversal continues from is still listed whatever
  routines and traps removed, and the routine executing is the one after it.
* `SleepersInOrder`: by wake time, as `wakeupall` and `idle` only look at the head.
* `NobodyForgotten`: a live routine is in a list exactly if it was not taken out by
  request: none is forgotten, and none comes back.
* `CycleServesAll`: at the end of a cycle every routine in `running` was executed
  in it.
* `SwitchIsImmediate`: after `resume(r)` or `start(r)` the next thing `resumeall` does
  is to resume `r`.
* `ReadyIsExecuted`, `SleeperWakes` (liveness): if program code stops calling
  register, remove and resume, then, while the scheduler runs, each ready routine
  is executed or leaves the list, and each sleeper leaves the sleepers.  The
  premise is needed: a routine that keeps resuming others puts them before the
  rest of the list for ever.
* `ChainKept`, `CheckCurrent`: `PCallMap` is exactly the chain drawn in the note at
  `Scheduler.lua:64`, and the assertion at line 119 never fails.

* `ListedOnce`: a routine is once among the ready and once among the sleepers, and in
  both only inside a socket call, though three causes may release it; and the
  variables have their types.
* `LocksMatchCalls`: sockets are locked exactly while a call uses them, never by two
  calls, and no subscription outlives its call (it would wake the routine in the
  middle of something else).
* `NobodyLost`: a live routine that was not taken out is ready, asleep, or waits for a
  socket.
* `TimeoutIsTrue`: accept, receive and send report a timeout only when there is one and
  it is over, counted in the whole seconds of `time()`.
* `ReadySocketIsServed` (liveness): a call whose socket stays ready gets to try it,
  while other routines keep the scheduler busy as well as when it is idle.
* `TimedCallReturns` (liveness): every call with a timeout returns.

* `MutexKept`: one thread at a time sends and one reads, the flags say so, and whoever
  waits is in exactly one queue and waits for a thread that has what it waits for.
* `PendingIsRegistered`: a request without an outcome keeps its identifier, through
  failed sends and renewals of the connection, unless it was forwarded.
* `OwnReply`: a reply goes to the request it answers.  It holds as long as no request
  was sent twice on one connection (`doubled`), which can happen: see *Findings*.
* `AnsweredIsNotSent`: under the same condition, no request is sent after its answer,
  so that a renewal does not execute it again.
* `EveryWaitEnds` (liveness): a thread that waits for a reply returns, except where the
  code lets it down (`cut`, `forwarded`): see *Findings*.

* `OwnEntry`: an exported object is found at its index, with its own pointer and the
  methods of its class, whatever was exported and withdrawn in between.
* `OnlyLiveObjectsAreCalled`: a method executed is one of the object's class, gets the
  caller's arguments, and the object was exported at that time.
* `HandlerInPlace`: `lua_pcall` always gets the index of the error handler, however many
  calls failed before.
* `OwnArguments`: while no call failed, each function gets the arguments meant for it.
* `RepliesAreRight`: the object counts, greets and keeps quiet as its clients asked,
  through wrapper closures that shift the arguments.

* `NeededIsLoaded`: the DLL is loaded while a client holds anything of it.
* `OwnMemory`, proved and not in the run: SetArray reads only elements that its array has,
  and touches memory before its indices only in a call with a vector (see *Findings*).
* `PrintedInOrder`, `SetArrayReturns`: SetArray prints all elements, each with its own
  indices, in the order of nested loops, and returns, for more than one dimension.

* `WordsMeanWhatIsDocumented`: data is treated with the key of the first argument, and a
  word stands for its digits, when the arguments follow the usage message.
* `ColumnsAgree`: the two libraries print the same in ftest.
* `DemoDoesAsAsked`: fdemo encrypts or decrypts as asked last, and undoes it.

* `LevelsAreExact`: what the hook counts for a thread that has its account to itself is its
  depth, up to the levels of functions that errors unwound; the level of a thread on
  another's account is 0.  The main program always has its account to itself, and so has
  a coroutine it created, until one that this coroutine created begins.
* `NothingPassed`: step lets no more lines pass than asked, as long as files have their
  sources; over and out no more lines of their thread, if it has its account to itself and
  neither was unwound nor left its outermost function.
* `StaysOut`: over and out never stop a thread that has its account to itself deeper than
  asked, but in its outermost function.
* `UserBreakpointsKept`: goto and temporary breakpoints leave the user's alone.
* `AddressIsOfCall`: `c_addr` finds the C function just called, in threads whose hook calls
  `debug_hook` itself.

Each property is shown to be sensitive to the code by a mutant: a definition with
a plausible fault (marked `Fault:` in the modules) that breaks it.

### Bounds

* Ordered set: four values.  A branch of insert, remove or replace tells apart a
  value that is first, last, in between, the only one, or not there; three in the
  list and one outside give all combinations.  Values are symmetric.
* Scheduler: three routines: the one executing, one before and one after it in the
  list, any of them asleep or out.  One has a trap.  A fourth adds no new relation
  to `currentkey`; the proofs hold for any number.
* Time: `MaxTime` bounds the clock and the wake times at 2 or 3 seconds with delays
  from {0, 1} or {1, 2}: two sleepers can have different or equal times, be due
  together or one after the other.  The clock counts whole seconds
  (`TicksPerSecond` = 1).
* Sockets: two routines and two sides: each on its own, one selecting on both while
  the other manages it, or both wanting the same.  `io_live` has one side, as
  liveness is about one call and its rivals for the processor.  Timeouts are none
  and one second, and zero in `io_live`: with the clock free to move between the
  signal and `wakeupall`, a timeout can end before, in and after the step of the
  signal.
* Protected calls: six coroutines, so that one routine nests four calls (from three
  on, every entry of the chain is of its own kind) beside another routine.

* OiL client: two threads, three requests, two of them of one thread, which may make the
  second before it waits for the first; one oneway request; one fault of the other end
  (a forward, an error message, or the connection closed), while refusing a new
  connection and full buffers are not counted.  With three requests an identifier is
  freed below one in use, and is taken again.  One thread uses `ready` too.
* OiL embedding: two classes with a method name in common, two objects, four exports, so
  that an index is freed and reused with others in use.  One program at a time with every
  pattern of failing calls; three greetings.
* Array component: two clients with up to two references; a vector, a matrix that does not
  begin at 0 and an array of four dimensions, with one-element dimensions first and last.
* DES programs: blocks of four bytes of two binary digits, up to four arguments from four
  words and nine options: key, data, and one option before, between or after them.  Two
  bytes on either side of the point suffice for words that are short on one side.
* Debugger: main and two coroutines, so that one may create the other; two files, of which
  one has no source and a line with a breakpoint; numbers 1 and, for `pause`, 2.  Main has
  two frames and what `pause` adds, the function where a command is given and one it calls.
  The first coroutine has four: a pcall in it catches the error of a function that it calls
  after the wrapper.  The body of the second one has two.  Errors may lower the ground of a
  thread from 2 to 0.  `OneConcern` is a state constraint: the second coroutine, a project
  directory and a breakpoint are there one at a time, in any order, since they act on
  different parts of the state: levels, the command under way, breakpoints.  The proofs
  hold for any number of each and all of them together.

Deadlock is not checked where a program may end (`hello_host`, `des_tools`, `debugger`)
or bounds are used up (`oil_client`, `oil_access`, `safe_arrays`).  It is in the runs of
the schedulers: the main program may always call the scheduler again.

### Fairness

`scheduler_live` assumes weak fairness of three things.  `Control`: the scheduler's
own code goes on.  `TurnEnds`: the routine that is executing gives up the processor
some day, by any of the ways to do so; nothing is assumed of which.  Co-operative
scheduling can assume no less, and the code assumes it.  `Tick`: time passes (up to
`MaxTime`).  No fairness is assumed of calls that programs are free to make:
registering, removing, resuming a particular routine, starting, or calling `run`
again.

`io_live` assumes the same of `IOControl` (the scheduler's code and that of the
socket calls), `IOTurnEnds` and `Tick`.  Nothing is assumed of the network: data
need never arrive, and a ready socket need not stay so.  Two things are excluded in
that run because the promises do not hold with them: routines that remove or resume
one that waits, which may leave a call without its timeout, and data that comes in
pieces (see *Findings*).

`oil_client` assumes that a thread that has the turn goes on, weakly; that the scheduler
executes each thread that is ready again and again, strongly, which `ReadyIsExecuted` and
`ReadySocketIsServed` show of it; and that the server answers, strongly, as it may close
the connection meanwhile.  A closed socket need never be reported by select().
`safe_arrays` assumes that a loop that has begun goes on (`Iterate`).

## Findings

Disagreements between the code and its documentation, or between what a piece of code
is evidently for and what it does.  They were met while modelling; the models have the
behaviour, and the properties that hold are stated so that it is visible where it ends.

Scheduler and sockets, against the documentation of LOOP and LuaSocket:

* `start()` and `resume()` "switch immediately", but after `remove(current)` the
  insertion after the current routine is refused, the named routine is not executed, and
  one made by `start()` is lost (`SelfCalls`; `SwitchIsImmediate` fails).
* A cycle "executes each ready routine", but a routine that removes and registers itself
  ends it for those after it (`SelfCalls`; `CycleServesAll` fails), and after an error
  left `run()`, the next begins in the middle of the list (`MayRaise`).
* `run(timeout)` passes its argument to the first routine, and compares it with nothing.
* With the whole seconds of `os.time`, `suspend(time)` may be up to a second short
  (`TicksPerSecond` = 2).
* `receive` and `send` "give up" at their timeout (`docs/luasocket/tcp.html:446`), but when
  it ends in the step of a signal that brings only part of the data, the call waits
  again, without a timeout (`CoSocket.lua:161`, `:234`; with `Partial`,
  `TimedCallReturns` fails).
* `select` keeps the message of its first poll if it has no timeout, and says "timeout"
  when one ends in the step of the signal.
* `accept()` takes a negative timeout, "block indefinitely", for one that is over.
* `remove()` of a routine that a signal has released takes it out of `running` only: its
  timeout brings it back.  `resume()` of such a routine takes it out of `running`, and
  `register()` then refuses it, as it still sleeps.
* `OrderedSet.last()` returns the private key `FIRST` after `remove()` of the only value.

OiL client:

* A request that was forwarded is not sent again: the handler gets a channel for the new
  reference and then waits on the old one (`base/Invoker.lua:45-50`), for ever.
* A request whose sending failed stays registered, is sent when the connection is renewed
  by another, and its outcome may become true after its caller was told that it failed.
  The same goes for requests failed by `getreply`.
* While the reader sends all pending requests again, a thread may register a new one: it
  may be sent twice, so that the second reply goes to whoever has the identifier then, or
  make the traversal skip another, which is then never sent.
* `sendmsg` renews a closed connection for its own message only: other pending requests
  are not sent again, and a thread that reads is left on a closed socket.
* A reply with an unknown identifier fails every pending request of the channel.
* `ready()` waits like `results()` when another thread reads.

Embedding, component, DES programs:

* `main()` of the C++ server goes on after `callfield` failed (`c++/main.cpp:64-70`), with a
  value less on the stack, so that the next function gets the wrong arguments
  (`OwnArguments` has `~failed`).  An error whose value is nil counts as success.
* `SetArray` of a vector increments `indices[-1]` (`Test.cpp:126`), since `:122` looks at
  the first dimension only after the carry, and never returns unless it crashes.
* fdemo takes the key from `argv[1]` whatever comes first: after an option, the option is
  the key and the first word is dropped.  ftest continues at the middle of the block at a
  point anywhere in a word; bytes before it keep what memory held.

Debugger (`debugger.lua`):

* Functions unwound by an error stay counted (`:716`), so that `over` of a failing pcall
  runs on past its function, though the comment at `:1072` promises the current level.
* `out` in the outermost function gives level 0 and stops in the same function (`:756`).
* `over` of a resume stops in the wrapper of the coroutine (`:1387`).
* A `goto` that a breakpoint or command interrupts leaves its own breakpoint (`:1101`).
* A stop by step at a line with a temporary breakpoint keeps that breakpoint.
* A coroutine that a hooked coroutine creates is on its creator's account: its hook calls
  the creator's, which drops the level and the thread it is given (`:1379`).  So its own
  level stays 0 (`:1383`), its calls and returns change the level of the creator, whose
  `over` and `out` may then stop deeper or further out than asked, and C functions it
  calls are never announced to GDB (`:710`).  Its lines are taken to be of `debugger.lua`
  (`:724`), so that breakpoints on them are missed.  The comment at `:1372` says that the
  wrapper propagates the hook settings into the created coroutine.
* Where the source of a file cannot be opened and a project directory is set, `step` into
  the file becomes `over` (`:683`) with the level of the last `over` or `out`, which may
  run on past the lines it was given.
* A coroutine at level 0, or at a level left over from a command given in it, uses up the
  lines of an `over` or `out` given in another (`:756`), and stops the program early.
* `pause()` during a session has lines of its own that count for the command under way
  (`:1437`), so that the program may stop inside `pause()` itself.
* A second session keeps `current_thread` of the first (`:1459`).

## Proofs

`tlapm` checks the proofs of eight modules.  The only assumptions are the
named ones on the constants: `SchedulerAssumption` (`FIRST` and `NIL` are not
routines, and the sets have their types; no bound on any set), `IOAssumption`
(the same of sockets and calls, and that there are finitely many sockets),
`ElementAssumption`, `CoroutineAssumption`, `OilClientAssumption`,
`OilAccessAssumption`, `HelloHostAssumption` (`newstate()` leaves two tables or more, as
`luaopen_socket_core` and `luaopen_oil_bit` each leave one), `SafeArraysAssumption` (arrays
have a dimension, and none of its dimensions is empty; the clients are finitely many) and
`DebuggerAssumption`; where a theorem needs more, the hypothesis is in its statement and is
discussed below.

**Sequences** (`DistinctSeq_proofs`).  What `Inserted` and `Removed` do to the values,
their positions and their order, when the sequence has no repetitions.  These are
the facts about ordered sets that the table and the scheduler rely on.

**Ordered set** (`OrderedSet_proofs`).  `AlwaysWellLinked` and
`TableImplementsSequence`, for every set of values and any number of calls.  The
invariant is

    LInv == TypeOK /\ \E s \in Seq(Element) : NoRepeats(s) /\ Represents(s)

The heart is `OneSequence` and `SameSequence`: a table chains one sequence at most, so
that `Order`, which is a choice, is the sequence whose chaining one has at hand
(`OrderBecomes`).  `previous()` is a walk in the code and a least set in the module;
that the walk ends at the key before the one asked for is an induction along the list
(`WalkedKeys`, `PreviousKey`).  The library's induction theorems cannot be
used here, but a least counterexample can: `LeastNatural`, from the well-founded
minimum of the naturals.  Then one lemma per method says that it does to the table what
the abstract call does to the sequence, and answers the same (`InsertEffect`,
`PushEffect`, `RemoveEffect`, `PopFrontEffect`, `ReplaceEffect`), and `EveryStep` collects
them: each step of the table is the abstract step of that name with those arguments.

**Scheduler** (`Scheduler_proofs`).  `TypeCorrect`, `NeverListedTwice` and
`TraversalKeepsPlace`: for every set of routines, delays and clock, with self-calls
and uncaught errors allowed, `TypeOK`, `NeverInBoth` and `PlaceKept` always hold.
None of the three is inductive.  The invariant proved is

    IInv == TypeOK /\ WellFormed(Queues) /\ Created(Queues)
            /\ (phase = "routine" => Placed(Queues, current) /\ status[current] # "new")

`WellFormed` is `NeverInBoth` with `currentkey` listed or `FIRST`.  `Created` says
that only coroutines that exist are listed: without it `start()` could list a
routine a second time.  `Placed` is the part that carries the traversal: the routine
executing is either the successor of `currentkey` or, after it removed itself, not
before it.  This is what makes `remove(current, currentkey)`, which walks from
`currentkey`, find it.  The argument is compositional.  `Registered`, `Dropped` and
`Advanced` each keep the conditions (`RegisteredKeeps`, `DroppedKeeps`,
`RemovalKeeps`, `AdvancedKeeps`), and one lemma per group of actions lifts that to
steps: `CallsKeep` for what routines call, `SuspendKeeps`, `HandOverKeeps`,
`BuriedKeeps`, `ResumeAfterKeeps`, `WakeUpKeeps`; `Invariance` puts them together.

`SleepersStayInOrder` needs only `IInv` besides: a sleeper is put where its time belongs,
and what else happens to the sleepers takes some of them out.  `NobodyIsForgotten`,
`EveryCycleServesAll` and `SwitchesAreImmediate` rest on a second invariant,

    TurnInv == /\ TurnKept /\ ListedAreLive /\ ParkedExist /\ NobodyForgotten /\ HandedOver
               /\ ~MayRaise => PassedAreServed

`TurnKept`: between two turns the routine that gave up the processor still follows
`currentkey`, so that going on after it passes nobody over, unless it took itself out.
`ListedAreLive`: only it may be listed and dead, and `Bury` takes it out.
`PassedAreServed`: all up to `currentkey` have had their turn.  `HandedOver`: a routine
named by `resume()` or `start()` is the one after it.  Their hypotheses are those under
which the code keeps the promises.  `SelfCalls = {}`: no routine registers, removes or
resumes itself; one that does can lose the routine it names next, or end the cycle for
others (see *Findings*).  `~MayRaise`, for `EveryCycleServesAll` only: an error without a trap
leaves `run()` with `currentkey` in the middle of the list, and the next cycle begins
there.  `TypeCorrect`, `NeverListedTwice` and `SleepersStayInOrder` need neither.

**Socket calls** (`Scheduler_proofs`).  `RoutinesListedOnce`, `LocksAlwaysMatch`,
`RoutinesNeverLost` and `TimeoutsAreTrue`, for every set of routines and sockets, data in
pieces or not, and any order of signals, timeouts and operations.  The first invariant is

    IOInv == /\ IOTypes /\ ListsInv /\ ExistInv /\ TurnPlaced /\ CallsInv /\ LocksMatchCalls
             /\ SelfCalls = {} => NobodyLost

It is not the scheduler's `IInv` with additions: a routine in a call may now be ready and
asleep at once, so `ListsInv` and `TurnPlaced` state the shape of the list of the ready
alone (`Ready(run, key)`, the queues of `Scheduler` without sleepers, so that the lemmas on
`Registered`, `Dropped` and `Placed` are used again).  `CallsInv` says where both lists may
overlap: in a call, and for a call on one socket only if its subscription is over, that is,
if a signal woke it; one that is ready and still subscribed was woken by its timeout and is
out of the sleepers.  This is why `receive`, `send` and `accept` may look at the
subscription to learn which of the two it was, and why they leave nothing asleep behind.
Steps outside the calls are instances of one predicate, `Moved`, which `MovedKeeps` shows to
be harmless; the steps of calls come down to two lemmas, `CallWaits` and `CallEnds`.
`RoutinesListedOnce` and `LocksAlwaysMatch` need no hypothesis: removing and resuming routines in
the middle of a call is allowed.  `RoutinesNeverLost` has `SelfCalls = {}`, as the scheduler's
theorems.  TLC checks `IOInv` on the instance of `io_scheduler`, and without its last
conjunct when all self-calls are made.

`TimeoutsAreTrue` rests on `TimeInv` as well: a call sleeps until the time it was given; if
its timeout woke it, that time has come; and `accept` finds its socket ready if a signal
woke it, since nobody else may use the socket meanwhile (the locks).  `Undisturbed` says
that a step goes by a call; each step goes by every call, or is the one that puts it in
time.  Its hypotheses are two.  `Interrupts = {}`: a routine that another resumes in the
middle of a call takes that for the end of its timeout.  `Timeouts \subseteq Nat \cup {NIL}`:
`accept` hands a negative timeout on to `suspend` (see *Findings*).

**Protected calls** (`CoPcall_proofs`).  `ChainInvariant`: `TypeOK /\ ChainKept` is
inductive, for any number of coroutines and any nesting.  `CheckCurrentHolds`
follows from it.

**OiL client** (`OilClient_proofs`).  `MutexAlwaysKept`, `PendingStaysRegistered`,
`RepliesAreOwn` and `AnsweredStaysUnsent`, for any number of threads, requests and faults,
and any interleaving of threads, server and losses of the connection.  The invariant is

    IInv == /\ TypeInv /\ ThreadInv /\ MutexInv
            /\ ChannelInv /\ WireInv /\ TaskInv /\ ReplyInv

`ThreadInv` says what a thread has in hand at each place of the code.  `MutexInv` is the
mutex with its queues: the one that sends or reads is the one at such a place, the waiting
senders are the queue, and each entry of `receivers` is a thread that waits for just that
request.  `ChannelInv`: what is registered is unanswered, and what is unanswered is
registered under its identifier.  `WireInv`: what is on the connection was written to it
and bears the identifier under which it was written.  `TaskInv` ties the two together
over the points where a thread yields: a message about to be written for the first time
was not written before; one that is written again is registered; a traversal of the table
visits only what is in it.  `ReplyInv` is the reason why replies are right: as long as no
request was sent twice on one connection, a request that was written and is unanswered is
on the connection exactly once, on its way there or back.  An identifier can then
not be taken again before the reply came.  TLC checks `IInv` on the run's instance with
two faults (3.7 million states).  `AnsweredStaysUnsent` is an action property and follows
by cases over the steps that write.

**C++ embedding** (`OilAccess_proofs`).  `EntriesStayInPlace` (`OwnEntry`) and
`CallsReachLiveObjects` (`OnlyLiveObjectsAreCalled`), for all classes, methods and
objects, whatever is exported and deleted in between.  Neither is inductive: the next
object relies on the entry of its class, and a call through a userdata that Lua kept on
what the destructor did to it.  The invariant is

    AccessInv == /\ OwnEntry /\ StatesAreWellFormed /\ LuaHoldsUserdata
                 /\ ClassesAreRegistered /\ ObjectsHaveClasses

`ClassesAreRegistered`: a class whose constructor has run has its metatable at its index,
with a closure for each of its methods and no other.  `ObjectsHaveClasses`: an object is
of such a class, and its box has no metatable once it is deleted.  `LuaHoldsUserdata`:
what is pushed for Lua and what Lua keeps are boxes.  The proof runs the functions of
OiLAccess on the stack first: `ClassExported`, `ObjectRegistered`, `ObjectUnregistered` and
`ObjectPushed` state what each makes of the stack, the tables and the boxes, from lemmas
on the calls of the Lua API that they consist of.  Entries are safe because an insertion
goes behind a border of the table (`InsertedFacts`): any border will do, so that the holes
that deletions leave do no harm.  TLC checks `AccessInv`, without the type of the stack,
on the instance of `oil_access`.

**Programs that embed OiL** (`OilAccess_proofs`).  `HandlerStaysInPlace` (`HandlerInPlace`),
`ArgumentsAreOwn` (`OwnArguments`) and `ObjectRepliesRight` (`RepliesAreRight`), for any
messages and number of greetings, and whatever `newstate()` leaves on the stack, as long as
that is two tables or more.  The difficulty of the first two is that `main()` ignores the
results of `callfield`: after calls that failed the stack is not what its author has in
mind, and the index of the handler is computed from what is on it.  The invariant is

    HostInv == /\ AccessCore /\ HostTypes /\ ObjectStays
               /\ BetweenCalls /\ DuringCall /\ ReceivedAsMeant

`AccessCore` is `AccessInv` without what Lua holds.  `BetweenCalls` says two things of the
stack before each step: that there are at least `Least(k)` values on it, whatever failed,
and that it is exactly what `newstate()` left with `Awaiting(program, k)` on top, if
nothing failed.  `Least` is tight: if `oil.newservant` and
`oil.tostring` fail, `oil.writeto` finds the two values that it takes only because of the
tables at the bottom of the stack, which is what the assumption is for.  `DuringCall`: the stack is `Frame(s, f, args)`, the handler
between what was there before and the function with its arguments, and `base` is the
place of the handler.  `callfield` on a stack is worked out first, in lemmas on sequences
(`FrameFacts`, `FrameCalled` and others; by `Parted` any stack that is high enough is its
lower part and the arguments); then there is one lemma per instruction of the
programs, and `Rests` collects what the steps outside of a call have in common.
`ArgumentsAreOwn` follows from the second half of `BetweenCalls`.

`ObjectRepliesRight` has an invariant of its own (`AskedInv`), which adds to
`RepliesAreRight` only that the history has its type and range.  Its weight is in `ServeAnswers`: a
request passes through the wrapper closure, which takes the object off the stack, and the
Wrapper, which counts arguments from 1, and the two agree for each of the four methods.

**Array component** (`SafeArrays_proofs`).  `NeededStaysLoaded` (`NeededIsLoaded`),
`MemoryIsOwn` (`OwnMemory`) and `PrintsInOrder` (`PrintedInOrder`), for arrays of any
dimensions and bounds, any finite set of clients and the three builds.  The invariant is

    SafeInv == Counted /\ LoadedIfUsed /\ CallsInRange /\ StrayIsOfVector

`LoadedIfUsed`: only the merged DLL hands out references to its proxy, which is why the
other builds need not ask for them, and a call has a reference.  `CallsInRange` is the
invariant of the nested loops of `SetArray`: each index is within its dimension, but for
the one that is being carried, which may be one past the end; and the first is only ever
past its end between two iterations if it is also the last.  It rests on `InvertUndoes`: exchanging the
bounds in place undoes the order in which an array keeps them, for every number of
dimensions, even or odd, so that the indices are counted against their own bounds.

The order of the elements is the action property `PrintedInOrder`: the element fetched is
the least, in the order of nested loops, of those after the one printed last, and when the
call returns there is none after it.  It needs one more invariant, `OrderInv`.  Between
two iterations the indices are those of the element printed last with one of them, `j`,
counted up; those behind `j` start again, and in that element they were at their ends
(`CountedUp`).  Carrying on keeps this one dimension further left (`CarriedOn`); when the
loop is left, no element lies between the two (`NoneBetween`); and when the first index is
past its end the element printed was the last (`NoneAfterHighest`).  The order is compared
index by index, so that no position has to be computed, which would be a fold over the
dimensions and an induction over data.  A vector is covered up to its last element, where
memory is touched that is not the call's own (`stray`).

**Debugger** (`Debugger_proofs`).  Six theorems, for any number of threads, files, lines
and counts, any depth and any program: `TypesAreOK`, `LevelsAlwaysExact`,
`NothingEverPassed`, `BreakpointsAlwaysKept`, `AddressAlwaysOfCall`, `AlwaysStaysOut`.
The invariant proved is

    Inv == /\ DebugTypeOK /\ LevelsAreExact /\ UserBreakpointsKept
           /\ Session /\ Accounts /\ Steps /\ OwnGoto /\ Rise

`Session` says whose events the hook gets: none before `pause()`, those of the running
thread when the prompt is shown, and none of a thread that has not begun.  `Accounts` says
that whoever events are charged to is charged with its own, has begun, and is not on
another's account, so that an event changes the level of one thread, and never that of a
thread which has its account to itself unless it is its own event (`Charged`).  `Steps` is
about the command under way: in a thread with an account to itself, `step_level` is the
depth asked, relative to the ground at that time, and as long as that ground stands
`step_lines` is no more than the lines left.  `NothingPassed` follows from it.  `OwnGoto`: the breakpoint goto put is not the
user's.  `Rise`: inner functions are at least as deep as outer ones, since a C function
that is replaced keeps its depth; it bounds what an error unwinds.  There is one lemma
per kind of step: functions entered, left, unwound, threads resumed and yielding, lines,
each command.  `StaysOut` and `AddressIsOfCall` are action properties and follow by cases
over the steps.  The type invariant of this module is proved, and not in the run.

Only model-checked:

* Liveness (`ReadyIsExecuted`, `SleeperWakes`, `ReadySocketIsServed`, `TimedCallReturns`,
  `EveryWaitEnds`, `SetArrayReturns`): fairness and ENABLED are out of the prover's reach.
* The DES programs (`WordsMeanWhatIsDocumented`, `ColumnsAgree`, `DemoDoesAsAsked`), whose
  loops over digits are RECURSIVE operators.

## What the models leave out

* Values passed by yield and resume, and texts of errors.
* An error raised in a trap: it leaves `run` as `Raise` does.
* Nested `run()` or direct `step()` calls by routines, and `suspend`, `resume` or
  `start` called outside a routine (the code asserts against the latter).
* Registering or resuming a coroutine that is dead: `Register`, `Drop` and `Resume`
  name live ones.
* `idle`, `time` and `step` redefined by programs.
* Copies of one scheduler that share lists given to the constructor.
* `PriorityQueue.enqueue` without a priority, which the scheduler never calls.
* `pcall` of something that is no Lua function (it falls back to the plain pcall
  and touches no table), and protected calls that are dropped while suspended,
  whose entries the code never removes.
* Of the sockets: `connect`, which blocks the whole program by design; wrapping; the
  order in which the sockets of a `select` are listed (the routines that one signal
  releases are listed in any order); sockets used by two routines at once, which the
  code's assertions refuse (`MayCall`); errors of the socket other than a timeout,
  which are one answer with data ("done"), as the calls pass both on.

* Of the OiL client: `getchannel` (one channel, found already), locate requests, protocol
  versions, one request used by two threads (they overwrite each other's entry among the
  receivers).
* Of the embedding: the PRELOAD build, which differs in what `newstate()` leaves on the
  stack; garbage collection.
* The component in Visual Basic and the marshalling code that MIDL generates.
* Of the debugger: watches, frame selection, tracing, printing; a session that begins in a
  coroutine, and a second one; the functions that `pause()` and the wrapped
  `coroutine.create` call themselves, which return before anything else happens.  Files
  have absolute paths, so that `rootpath` does not change the names of breakpoints.
* `lua.h`, `lauxlib.h` and `luaconf.h` beyond what the modelled code uses: declarations and
  configuration of a binary.

## Plan

1. **OiL server.** `Server` (Receiver, Listener, Dispatcher): request routines, the
   shared reply header, shutdown.  Composition of client and server, with the abstract
   specification that each call gets its own reply or an error, once.
2. **LOOP's Timer, event service, Copas, Lanes' alarms and locks, rolling log, binary heap.**
3. **Proofs.** Of those modules as they come.  Every safety property of a run that is
   within the prover's reach is stated by a theorem now.

The project keeps a dozen runs at most, so that all of them are looked at.  Behaviour
that only showed a disagreement is described under *Findings* instead, with the constant
that brings it back.

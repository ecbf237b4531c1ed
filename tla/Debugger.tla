------------------------------ MODULE Debugger ------------------------------
(***************************************************************************)
(* The command line debugger for Lua: a hook that counts calls and returns  *)
(* to know how deep each thread is, stops the program at lines, and obeys   *)
(* the commands given at its prompt; and dbgl, which finds for GDB the C    *)
(* function that is about to be entered.                                    *)
(*                                                                          *)
(* The program debugged is any sequence of the events that Lua 5.1 has      *)
(* hooks for: lines, calls, tail calls and returns, errors caught by pcall  *)
(* (which unwind functions without a return event), and threads that are    *)
(* resumed and yield.                                                       *)
(***************************************************************************)
EXTENDS Integers, Sequences

CONSTANTS
    Thread,    \* the threads but the main program
    File,      \* the source files, by absolute path, debugger.lua among them
    NoSource,  \* the ones that cannot be opened under the name Lua knows
    Root,      \* the directories that the user may name as that of the project
    Place,     \* the files and lines at which a breakpoint may be set
    Counts,    \* the N of commands that take a number
    MaxDepth,  \* bound: by thread, functions entered at a time
    MaxDrift   \* bound: how far below 0 errors may lower the ground of a thread

Threads == Thread \cup {"main"}

ASSUME DebuggerAssumption ==
    /\ "main" \notin Thread
    /\ "debugger" \in File /\ NoSource \subseteq File
    /\ "nil" \notin File \cup Root
    /\ Place \subseteq File \X (Nat \ {0})
    /\ Counts \subseteq Nat \ {0}
    /\ MaxDepth \in [Threads -> Nat] /\ MaxDrift \in Nat

VARIABLES
    frames,       \* by thread: its frames, the innermost last
    chain,        \* the threads that resumed each other, the running one last
    created,      \* by thread: "no", "plain" or "wrapped" until it is resumed
    hooked,       \* the threads that have a hook, which leads to debug_hook
    account,      \* by thread: the one that debug_hook takes its events to be of
    mode,         \* "run", "prompt" or "ended"
    started, step_into, step_over, step_lines,
    step_level, stack_level,  \* by thread
    root,         \* project_root_path
    curfile,      \* the file of the last line event
    breakfile,    \* the file of the line at which the prompt appeared
    breakpoints,  \* by file and line: NONE, PERSISTENT or TEMPORARY
    gotoPlace,    \* where goto put a breakpoint of its own
    address,      \* what dbgl.c_addr() answered in this step, or nil
    ground,       \* by thread: the depth that is level 0 (history)
    asked,        \* the last command, in terms of true depths (history)
    mine          \* the breakpoints that the user set (history)

threads == <<created, hooked, account>>
stepping == <<step_into, step_over, step_lines, step_level>>
files == <<root, curfile, breakfile>>
points == <<breakpoints, gotoPlace, mine>>
vars == <<frames, chain, threads, mode, started, stepping, stack_level, files,
          points, address, ground, asked>>

NONE == "none"
PERSISTENT == "persistent"
TEMPORARY == "temporary"
Kinds == {NONE, PERSISTENT, TEMPORARY}

\* The lines with breakpoints, and any other one; and the absence of a file, of a
\* directory and of a place.
Line == {place[2] : place \in Place}
OtherLine == 0
NoFile == "nil"
NoRoot == "nil"
NoPlace == <<NoFile, OtherLine>>

Max0(n) == IF n < 0 THEN 0 ELSE n
Least(m, n) == IF m < n THEN m ELSE n

-----------------------------------------------------------------------------
(* Frames.  The role of a Lua function is "function", or for pause() during *)
(* a session "pause" until it sets step_lines, "setting" until it sets      *)
(* step_into, "pausing" until its last line and "paused" after it, or       *)
(* "wrapper" and "wrapped" before and after the last line of what           *)
(* coroutine.create puts around the body of a thread.  depth counts the     *)
(* return events that are due from this frame and the ones under it: one    *)
(* each, and one more for each tail call.                                   *)

CRoles == {"c", "pcall", "resume", "yield", "sethook"}
LuaRoles == {"function", "pause", "setting", "pausing", "paused",
             "wrapper", "wrapped"}

DepthOf(fs) == IF fs = << >> THEN 0 ELSE fs[Len(fs)].depth
Depth(t) == DepthOf(frames[t])

Entering(fs, role) == Append(fs, [role |-> role, depth |-> DepthOf(fs) + 1])
Leaving(fs) == SubSeq(fs, 1, Len(fs) - 1)
Becoming(fs, role, depth) ==
    Append(Leaving(fs), [role |-> role, depth |-> depth])

running == chain[Len(chain)]
AtRole(roles) == /\ mode = "run" /\ chain # << >> /\ frames[running] # << >>
                 /\ frames[running][Len(frames[running])].role \in roles
Turns(role) ==
    frames' = [frames EXCEPT ![running] = Becoming(@, role, DepthOf(@))]

-----------------------------------------------------------------------------
(* dbgl.c_addr() and the events of the hook                                 *)

IsInnermostC(fs, i) ==
    /\ fs[i].role \in CRoles
    /\ \A j \in DOMAIN fs : j > i => fs[j].role \notin CRoles

InnermostC(fs) ==
    IF \E i \in DOMAIN fs : IsInnermostC(fs, i)
    THEN fs[CHOOSE i \in DOMAIN fs : IsInnermostC(fs, i)].role ELSE "nil"

\* Fault: the walk skips the C function that is being entered.
c_addrLate(fs) == InnermostC(Leaving(Leaving(Leaving(fs))))

\* From the caller of c_addr() outwards, the first C function: its role.
c_addr(fs) == InnermostC(fs)

\* In a hook: debug_hook() calls set_debug_break(), which calls c_addr(); the
\* hook of a thread other than the main program calls debug_hook().
InHook(t, fs) ==
    LET inside == Entering(Entering(fs, "function"), "function")
    IN  IF t = "main" THEN inside ELSE Entering(inside, "function")

\* Event "call" in thread t, with fs the frames after the function is entered.
\* debug_hook looks for the function under the hook at a fixed level, where the
\* hook of another thread stands if that passes the event on.
CallEvent(t, fs) ==
    IF t \in hooked
    THEN /\ stack_level' = [stack_level EXCEPT ![account[t]] = @ + 1]
         /\ address' = IF step_into /\ account[t] = t /\ fs[Len(fs)].role \in CRoles
                       THEN c_addr(InHook(t, fs)) ELSE "nil"
    ELSE stack_level' = stack_level /\ address' = "nil"

\* Fault: of the events of a function that made tail calls, one is counted.
ReturnEventOnce(t, n) ==
    IF t \in hooked
    THEN stack_level' = [stack_level EXCEPT ![account[t]] = Max0(@ - 1)]
    ELSE stack_level' = stack_level

\* Event "return", and "tail return" for each tail call: n events.
ReturnEvents(t, n) ==
    IF t \in hooked
    THEN stack_level' = [stack_level EXCEPT ![account[t]] = Max0(@ - n)]
    ELSE stack_level' = stack_level

has_breakpoint(place) == place \in Place /\ breakpoints[place] # NONE

\* Fault: one level for all threads.
StepLineOfMain(a, into, over) ==
    into \/ (over /\ (stack_level[a] <= step_level["main"] \/ stack_level[a] = 0))

\* Whether a line on the account a counts for the command under way.
StepLine(a, into, over) ==
    into \/ (over /\ (stack_level[a] <= step_level[a] \/ stack_level[a] = 0))

\* The file that debug_hook sees: as in CallEvent, the one where the hook of the
\* thread is written if another thread's passes its events on.
Seen(t, file) == IF account[t] = t THEN file ELSE "debugger"

\* get_canonical_filename(), called when another file is reached: instead of
\* into a file whose source is not there, the debugger steps over.
TurnsOver(seen) == step_into /\ root # NoRoot /\ seen # curfile /\ seen \in NoSource

-----------------------------------------------------------------------------
(* The program debugged *)

Init ==
    /\ frames = [t \in Threads |-> IF t = "main" THEN Entering(<< >>, "function")
                                                 ELSE << >>]
    /\ chain = <<"main">>
    /\ created = [t \in Thread |-> "no"]
    /\ hooked = {} /\ account = [t \in Threads |-> t]
    /\ mode = "run" /\ started = FALSE
    /\ step_into = FALSE /\ step_over = FALSE /\ step_lines = 0
    /\ step_level = [t \in Threads |-> 0]
    /\ stack_level = [t \in Threads |-> 0]
    /\ root = NoRoot /\ curfile = NoFile /\ breakfile = NoFile
    /\ breakpoints = [p \in Place |-> NONE] /\ gotoPlace = NoPlace
    /\ address = "nil"
    /\ ground = [t \in Threads |-> 0]
    /\ asked = [command |-> "cont"]
    /\ mine = breakpoints

Call(role) ==
    /\ AtRole({"function", "pcall"})
    /\ Depth(running) < MaxDepth[running]
    /\ frames' = [frames EXCEPT ![running] = Entering(@, role)]
    /\ CallEvent(running, frames'[running])
    /\ UNCHANGED <<chain, threads, mode, started, stepping, files, points,
                   ground, asked>>

TailCall ==
    /\ AtRole({"function", "wrapped"})
    /\ Depth(running) < MaxDepth[running]
    /\ frames' = [frames EXCEPT ![running] =
                     Becoming(@, "function", DepthOf(@) + 1)]
    /\ CallEvent(running, frames'[running])
    /\ UNCHANGED <<chain, threads, mode, started, stepping, files, points,
                   ground, asked>>

\* The end of a thread gives way to the one that resumed it; that of the main
\* program ends the session.
Ends(fs) ==
    /\ chain' = IF fs = << >> THEN Leaving(chain) ELSE chain
    /\ mode' = IF fs = << >> /\ Len(chain) = 1 THEN "ended" ELSE mode

Return ==
    /\ AtRole((CRoles \cup LuaRoles) \ {"pause", "setting", "pausing", "wrapper",
                                       "wrapped"})
    /\ frames' = [frames EXCEPT ![running] = Leaving(@)]
    /\ ReturnEvents(running, Depth(running) - DepthOf(frames'[running]))
    /\ ground' = [ground EXCEPT ![running] =
                     Least(@, DepthOf(frames'[running]))]
    /\ Ends(frames'[running])
    /\ address' = "nil"
    /\ UNCHANGED <<threads, started, stepping, files, points, asked>>

\* An error goes to the innermost pcall, if there is one, without any event
\* for the functions it unwinds: their levels stay on the account.
Error ==
    /\ AtRole({"function", "c"})
    /\ \E caught \in 0..Len(frames[running]) :
          /\ caught # 0 => frames[running][caught].role = "pcall"
          /\ \A i \in DOMAIN frames[running] :
                i > caught => frames[running][i].role # "pcall"
          /\ frames' = [frames EXCEPT ![running] = SubSeq(@, 1, caught)]
    /\ ground' = [ground EXCEPT ![running] =
                     @ - (Depth(running) - DepthOf(frames'[running]))]
    /\ ground'[running] >= -MaxDrift
    /\ Ends(frames'[running])
    /\ address' = "nil"
    /\ UNCHANGED <<threads, started, stepping, stack_level, files, points, asked>>

\* coroutine.create(): the body is wrapped if the creator has a hook.  The hook
\* of the new thread will call that of its creator.  The main program's is
\* debug_hook, which takes a thread as its last argument; that of another thread
\* names itself, or in turn the thread that its creator names.
Create(t) ==
    /\ AtRole({"function"})
    /\ created[t] = "no"
    /\ created' = [created EXCEPT ![t] =
                      IF running \in hooked THEN "wrapped" ELSE "plain"]
    /\ account' = IF running \in hooked /\ running # "main"
                  THEN [account EXCEPT ![t] = account[running]] ELSE account
    /\ address' = "nil"
    /\ UNCHANGED <<frames, chain, hooked, mode, started, stepping, stack_level,
                   files, points, ground, asked>>

\* coroutine.resume(t) for the first time.  The wrapper sets the levels (that of
\* the stack is 0 already) and the hook of the thread, and is seen by it from
\* within debug.sethook().
Begin(t) ==
    /\ AtRole({"function"})
    /\ created[t] \in {"plain", "wrapped"}
    /\ created' = [created EXCEPT ![t] = "begun"]
    /\ Depth(running) < MaxDepth[running]
    /\ chain' = Append(chain, t)
    /\ LET caller == Entering(frames[running], "resume")
           body   == IF created[t] = "wrapped"
                     THEN Entering(Entering(<< >>, "wrapper"), "sethook")
                     ELSE Entering(<< >>, "function")
       IN  /\ frames' = [frames EXCEPT ![running] = caller, ![t] = body]
           /\ CallEvent(running, caller)
    /\ IF created[t] = "wrapped"
       THEN /\ hooked' = hooked \cup {t}
            /\ step_level' = [step_level EXCEPT ![t] = 0]
            /\ ground' = [ground EXCEPT ![t] = 2]
       ELSE UNCHANGED <<hooked, step_level, ground>>
    /\ UNCHANGED <<account, mode, started, step_into, step_over, step_lines, files,
                   points, asked>>

Suspended(t) == /\ frames[t] # << >>
                /\ \A i \in DOMAIN chain : chain[i] # t

Resume(t) ==
    /\ AtRole({"function"})
    /\ Suspended(t)
    /\ Depth(running) < MaxDepth[running]
    /\ chain' = Append(chain, t)
    /\ frames' = [frames EXCEPT ![running] = Entering(@, "resume")]
    /\ CallEvent(running, frames'[running])
    /\ UNCHANGED <<threads, mode, started, stepping, files, points, ground, asked>>

\* coroutine.yield(), which cannot cross a pcall
Yield ==
    /\ AtRole({"function"})
    /\ running # "main"
    /\ \A i \in DOMAIN frames[running] : frames[running][i].role # "pcall"
    /\ Depth(running) < MaxDepth[running]
    /\ frames' = [frames EXCEPT ![running] = Entering(@, "yield")]
    /\ CallEvent(running, frames'[running])
    /\ chain' = Leaving(chain)
    /\ UNCHANGED <<threads, mode, started, stepping, files, points, ground, asked>>

-----------------------------------------------------------------------------
(* pause(), the line event and the commands *)

\* The first call of pause(), in the main program: its hook begins to work
\* within debug.sethook(), the last thing it calls.  It lets one line pass, its
\* own last, unless it is called from a console.
pause(lines) ==
    /\ AtRole({"function"})
    /\ ~started /\ running = "main"
    /\ started' = TRUE
    /\ frames' = [frames EXCEPT !["main"] =
                     Entering(Entering(@, "pausing"), "sethook")]
    /\ hooked' = {"main"}
    /\ stack_level' = [stack_level EXCEPT !["main"] = 1]
    /\ step_level' = [step_level EXCEPT !["main"] = 0]
    /\ step_lines' = lines /\ step_into' = TRUE
    /\ ground' = [ground EXCEPT !["main"] = Depth("main") + 1]
    /\ asked' = [command |-> "step", left |-> lines]
    /\ address' = "nil"
    /\ UNCHANGED <<chain, created, account, mode, step_over, files, points>>

\* A later call, in any thread.  While pauses are ignored (poff) it returns at
\* once, as any function may.
PauseAgain == started /\ Call("pause")

\* The number of lines of the command under way is replaced ...
PauseSets(lines) ==
    /\ AtRole({"pause"}) /\ started
    /\ Turns("setting")
    /\ step_lines' = lines
    /\ asked' = IF asked.command \in {"step", "over"}
                THEN [asked EXCEPT !.left = lines] ELSE asked
    /\ address' = "nil"
    /\ UNCHANGED <<chain, threads, mode, started, step_into, step_over,
                   step_level, stack_level, files, points, ground>>

\* ... and then the command itself.
PauseSteps ==
    /\ AtRole({"setting"}) /\ started
    /\ Turns("pausing")
    /\ step_into' = TRUE
    /\ asked' = [command |-> "step", left |-> IF step_lines < 1 THEN 1 ELSE step_lines]
    /\ address' = "nil"
    /\ UNCHANGED <<chain, threads, mode, started, step_over, step_lines,
                   step_level, stack_level, files, points, ground>>

\* The command of the user in terms of what the program really does: whether a
\* line at this depth of a thread is one that it asked for.
AskedFor(t) ==
    \/ asked.command = "step"
    \/ asked.command = "over" /\ t = asked.thread /\ Depth(t) <= asked.depth

\* The prompt appears: a breakpoint of goto is taken back when it was reached.
Prompt(place, after) ==
    /\ mode' = "prompt" /\ breakfile' = place[1]
    /\ breakpoints' = IF place = gotoPlace THEN [after EXCEPT ![place] = NONE]
                                           ELSE after
    /\ gotoPlace' = NoPlace

\* Event "line" in a hooked thread: the program stops for the command under way
\* or for a breakpoint, or goes on.
LineEvent(t, file, line) ==
    LET seen  == Seen(t, file)
        place == <<seen, line>>
        into  == step_into /\ ~TurnsOver(seen)
        over  == step_over \/ TurnsOver(seen)
        steps == StepLine(account[t], into, over)
        lines == IF steps THEN step_lines - 1 ELSE step_lines
    IN  /\ curfile' = seen
        /\ step_into' = into /\ step_over' = over /\ step_lines' = lines
        /\ \/ /\ steps /\ lines < 1
              /\ Prompt(place, breakpoints)
              /\ mine' = mine
           \/ /\ ~(steps /\ lines < 1)
              /\ has_breakpoint(place)
              /\ Prompt(place, IF breakpoints[place] = TEMPORARY
                               THEN [breakpoints EXCEPT ![place] = NONE]
                               ELSE breakpoints)
              /\ mine' = IF mine[place] = TEMPORARY
                         THEN [mine EXCEPT ![place] = NONE] ELSE mine
           \/ /\ ~(steps /\ lines < 1)
              /\ ~has_breakpoint(place)
              /\ UNCHANGED <<mode, breakfile, points>>
        /\ asked' = IF TurnsOver(seen) THEN [command |-> "skip"]
                    ELSE IF AskedFor(t) THEN [asked EXCEPT !.left = Max0(@ - 1)]
                    ELSE asked
        /\ address' = "nil"
        /\ UNCHANGED <<chain, threads, started, step_level, stack_level, root, ground>>

\* A line of the program, or of debugger.lua: pause() has several.
AtLine(file, line) ==
    /\ AtRole({"function"}) \/ (AtRole({"pause", "setting"}) /\ file = "debugger")
    /\ running \in hooked
    /\ LineEvent(running, file, line)
    /\ UNCHANGED frames

\* The last line of pause() or of the wrapper of a thread.
LastLine ==
    /\ \/ AtRole({"pausing"}) /\ Turns("paused")
       \/ AtRole({"wrapper"}) /\ Turns("wrapped")
    /\ IF running \in hooked THEN LineEvent(running, "debugger", OtherLine)
       ELSE /\ address' = "nil"
            /\ UNCHANGED <<chain, threads, mode, started, stepping, stack_level,
                           files, points, ground, asked>>

\* A command that lets the program go on.
GoOn(into, over, lines, levels) ==
    /\ mode = "prompt" /\ mode' = "run"
    /\ breakfile' = NoFile
    /\ step_into' = into /\ step_over' = over
    /\ step_lines' = lines /\ step_level' = levels
    /\ UNCHANGED <<frames, chain, threads, started, stack_level, root, curfile,
                   address, ground, mine>>

Cont ==
    /\ GoOn(FALSE, FALSE, step_lines, step_level)
    /\ asked' = [command |-> "cont"]
    /\ UNCHANGED <<breakpoints, gotoPlace>>

StepInto(n) ==
    /\ GoOn(TRUE, FALSE, n, step_level)
    /\ asked' = [command |-> "step", left |-> n]
    /\ UNCHANGED <<breakpoints, gotoPlace>>

AskedOver(depth, n) == [command |-> "over", thread |-> running, depth |-> depth,
                        ground |-> ground[running], left |-> n]

\* Fault: the level of the last over or out is kept.
StepOverStale(n) ==
    /\ GoOn(FALSE, TRUE, n, step_level)
    /\ asked' = AskedOver(Depth(running), n)
    /\ UNCHANGED <<breakpoints, gotoPlace>>

StepOver(n) ==
    /\ GoOn(FALSE, TRUE, n, [step_level EXCEPT ![account[running]] =
                                stack_level[account[running]]])
    /\ asked' = AskedOver(Depth(running), n)
    /\ UNCHANGED <<breakpoints, gotoPlace>>

StepOut(n) ==
    /\ GoOn(FALSE, TRUE, 1, [step_level EXCEPT ![account[running]] =
                                stack_level[account[running]] - n])
    /\ asked' = AskedOver(Depth(running) - n, 1)
    /\ UNCHANGED <<breakpoints, gotoPlace>>

\* Fault: goto makes the breakpoint of the line its own.
GotoTakesOver(line) ==
    /\ <<breakfile, line>> \in Place
    /\ GoOn(FALSE, FALSE, step_lines, step_level)
    /\ asked' = [command |-> "cont"]
    /\ breakpoints' = [breakpoints EXCEPT ![<<breakfile, line>>] = PERSISTENT]
    /\ gotoPlace' = <<breakfile, line>>

Goto(line) ==
    /\ <<breakfile, line>> \in Place
    /\ GoOn(FALSE, FALSE, step_lines, step_level)
    /\ asked' = [command |-> "cont"]
    /\ LET place == <<breakfile, line>>
       IN  IF has_breakpoint(place) THEN UNCHANGED <<breakpoints, gotoPlace>>
           ELSE /\ breakpoints' = [breakpoints EXCEPT ![place] = PERSISTENT]
                /\ gotoPlace' = place

\* setb, tb, delb and delallb
SetBreakpoints(new) ==
    /\ mode = "prompt"
    /\ new # breakpoints
    /\ breakpoints' = new
    /\ mine' = [p \in Place |-> IF new[p] = breakpoints[p] THEN mine[p] ELSE new[p]]
    /\ UNCHANGED <<frames, chain, threads, mode, started, stepping, stack_level,
                   files, gotoPlace, address, ground, asked>>

Breakpoint ==
    \/ \E p \in Place, kind \in Kinds : SetBreakpoints([breakpoints EXCEPT ![p] = kind])
    \/ SetBreakpoints([p \in Place |-> NONE])

RootPath(dir) ==
    /\ mode = "prompt"
    /\ root' = dir /\ curfile' = NoFile
    /\ UNCHANGED <<frames, chain, threads, mode, started, stepping, stack_level,
                   breakfile, points, address, ground, asked>>

\* exit: the rest of the program is not debugged.
Exit ==
    /\ mode = "prompt" /\ mode' = "ended"
    /\ started' = FALSE
    /\ hooked' = hooked \ {running}
    /\ UNCHANGED <<frames, chain, created, account, stepping, stack_level, files,
                   points, address, ground, asked>>

Program ==
    \/ \E role \in {"function", "c", "pcall"} : Call(role)
    \/ TailCall \/ Return \/ Error \/ Yield
    \/ \E t \in Thread : Create(t) \/ Begin(t) \/ Resume(t)
    \/ PauseAgain \/ PauseSteps \/ LastLine
    \/ \E lines \in {1, 2} : pause(lines) \/ PauseSets(lines)
    \/ \E file \in File, line \in Line \cup {OtherLine} : AtLine(file, line)

Command ==
    \/ Cont \/ Breakpoint \/ Exit
    \/ \E n \in Counts : StepInto(n) \/ StepOver(n) \/ StepOut(n)
    \/ \E line \in Line : Goto(line)
    \/ \E dir \in Root : RootPath(dir)

Next == Program \/ Command

Spec == Init /\ [][Next]_vars

-----------------------------------------------------------------------------
(* Properties *)

Frame == [role : CRoles \cup LuaRoles, depth : Nat]

Asked == [command : {"cont", "skip"}] \cup [command : {"step"}, left : Nat]
    \cup [command : {"over"}, thread : Threads, depth : Int, ground : Int,
          left : Nat]

\* The variables have their types; no level becomes negative.
DebugTypeOK ==
    /\ frames \in [Threads -> Seq(Frame)] /\ chain \in Seq(Threads)
    /\ created \in [Thread -> {"no", "plain", "wrapped", "begun"}]
    /\ hooked \subseteq Threads /\ account \in [Threads -> Threads]
    /\ mode \in {"run", "prompt", "ended"}
    /\ started \in BOOLEAN /\ step_into \in BOOLEAN /\ step_over \in BOOLEAN
    /\ step_lines \in Int
    /\ stack_level \in [Threads -> Nat] /\ step_level \in [Threads -> Int]
    /\ ground \in [Threads -> Int]
    /\ root \in Root \cup {NoRoot}
    /\ curfile \in File \cup {NoFile} /\ breakfile \in File \cup {NoFile}
    /\ breakpoints \in [Place -> Kinds] /\ mine \in [Place -> Kinds]
    /\ gotoPlace \in Place \cup {NoPlace}
    /\ address \in CRoles \cup {"nil"}
    /\ asked \in Asked

\* The events that debug_hook takes to be of thread t are those of t: it was not
\* created by a coroutine with a hook, nor has such a one that it created, or
\* that was created by one of these in turn, begun.
OwnAccount(t) ==
    /\ account[t] = t
    /\ \A u \in Thread : account[u] = t /\ created[u] = "begun" => u = t

\* The level of the main program, and of each thread that has its account to
\* itself, is its depth over the outermost function that the debugger knows of,
\* whatever mixture of calls, tail calls, returns, resumes and yields led there,
\* except that functions unwound by errors stay counted (they lower the ground).
\* A thread that is on another's account stays at level 0.
LevelsAreExact ==
    \A t \in hooked :
        /\ OwnAccount(t) => stack_level[t] = Depth(t) - ground[t]
        /\ account[t] # t => stack_level[t] = 0

\* After over and out, a thread that has its account to itself is not stopped
\* again in functions deeper than was asked, unless it is in the outermost one
\* the debugger knows of.
StaysOut ==
    [][mode = "run" /\ mode' = "prompt" /\ asked.command = "over"
         /\ running = asked.thread /\ OwnAccount(running)
         /\ step_lines' < 1 /\ step_lines > 0
        => Depth(running) <= asked.depth \/ Depth(running) = ground[running]]_vars

\* A command that was given a number of lines stops the program before that
\* many more lines were executed.  After step: any lines, as long as every file
\* that is reached has its source.  After over and out in a thread that has its
\* account to itself: lines of that thread at the depth asked or outside of it,
\* as long as no error unwound functions and the thread did not return from the
\* outermost one.
NothingPassed ==
    mode = "run" =>
        /\ asked.command = "step" => asked.left >= 1
        /\ asked.command = "over" /\ OwnAccount(asked.thread)
             /\ ground[asked.thread] = asked.ground => asked.left >= 1

\* goto and temporary breakpoints never remove or change a breakpoint that the
\* user set.
UserBreakpointsKept ==
    \A p \in Place : mine[p] # NONE => breakpoints[p] = mine[p]

\* dbgl.c: what c_addr() finds is the "C function called immediately before
\* this function", the one whose call the hook is told of, and not one that
\* is further out.  The debugger looks in the threads whose hook calls
\* debug_hook itself.
AddressIsOfCall ==
    [][chain # << >> /\ step_into /\ running \in hooked /\ account[running] = running
         /\ Len(frames'[running]) = Len(frames[running]) + 1
         /\ frames'[running][Len(frames'[running])].role \in CRoles
        => address' = frames'[running][Len(frames'[running])].role]_vars

=============================================================================

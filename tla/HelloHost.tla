----------------------------- MODULE HelloHost ------------------------------
(***************************************************************************)
(* The programs that embed OiL: the Hello servers in C++, which offer an    *)
(* object by OiLAccess or by a tolua++ binding, and the runner of scripts.  *)
(* A program is a script of calls of the Lua API, executed one after the    *)
(* other on the stack of its Lua state; what Lua functions do (OiL's among  *)
(* them) is their result or error.  While oil.main executes, remote clients *)
(* call the methods of the object.                                          *)
(***************************************************************************)
EXTENDS OilAccess

CONSTANTS
    Opened,   \* what newstate() leaves on the stack
    Message,  \* the arguments of say_hello_to
    MaxSays   \* bound: calls of say_hello_to

\* Opening each of two libraries leaves its table.
ASSUME HelloHostAssumption ==
    /\ Opened \in Seq({"table"} \X STRING) /\ Len(Opened) >= 2
    /\ MaxSays \in Nat

VARIABLES
    program,  \* which program this is
    pc,       \* the next step of its script
    status,   \* "run", "called" (in a Lua function), "panic" or "exit"
    base,     \* callfield: where the arguments of the call under way begin
    oil,      \* the fields of the Lua module oil that exist
    hello,    \* the HelloWorld object
    servant,  \* the value that OiL serves as the Hello object, nil if none
    received, \* arguments that functions of oil were called with (history)
    failed,   \* some call of the program failed (history)
    asked     \* what the clients asked of the object (history)

hostVars ==
    <<program, pc, status, base, oil, hello, servant, received, failed, asked>>
vars == <<accessVars, hostVars>>

-----------------------------------------------------------------------------
(* The scripts *)

Push(v) == [op |-> "push", value |-> v]
PushField(name) == [op |-> "pushfield", name |-> name]
CallField(name, narg, nres) ==
    [op |-> "callfield", name |-> name, narg |-> narg, nres |-> nres]

\* Publishing the object whose value is pushed by the step given, and serving.
Publish(ior, object) ==
    << Push(String("oil")),       CallField("require", 1, 0),
       Push(String("idl")),       CallField("oil.loadidl", 1, 0),
       Push(String(ior)),         object,
       Push(String("::Hello")),   CallField("oil.newservant", 2, 1),
       CallField("oil.tostring", 1, 1), CallField("oil.writeto", 2, 0),
       PushField("oil.run"),      CallField("oil.main", 1, 0) >>

CppMain ==
    << [op |-> "newstate"], [op |-> "export"] >>
    \o Publish("ref.ior", [op |-> "pushOnStack"])

ToluaMain ==
    << [op |-> "newstate"] >>
    \o Publish("hello.ref", Push(<<"userdata", "tolua">>))

\* main() of run.c: the libraries go into package.loaded, whose table and the
\* library opened last stay on the stack; then the file is loaded and called.
RunMain ==
    << [op |-> "usage"], Push(<<"table", "package.loaded">>),
       Push(<<"table", "oil.bit">>), [op |-> "loadfile"], [op |-> "pcall"] >>

Script == CASE program = "c++"    -> CppMain
            [] program = "tolua++" -> ToluaMain
            [] program = "run"    -> RunMain

Step == Script[pc]
AtStep(op) == status = "run" /\ pc <= Len(Script) /\ Step.op = op

OilFields == {"oil.loadidl", "oil.newservant", "oil.tostring", "oil.writeto",
              "oil.run", "oil.main"}

-----------------------------------------------------------------------------
(* callfield *)

\* The function that callfield gives to lua_pcall as the handler of errors.
Traceback == <<"function", "traceback">>

\* The global, or field of a global table, of that name: exactly one value is
\* pushed, nil when the table or the field does not exist.
pushfield(stack, name) ==
    Append(stack, IF name \in oil \cup {"require"}
                  THEN <<"function", name>> ELSE Nil)

\* The index of the first argument once the function is on top of them.
ArgBase(stack, narg) == Len(stack) - narg

\* Fault: the handler goes between the function and its arguments.
ArrangedLate(stack, narg) ==
    lua_insert(Append(lua_insert(stack, ArgBase(stack, narg)), Traceback),
               ArgBase(stack, narg) + 1)

\* The function goes under its arguments, and the handler under both.
Arranged(stack, narg) ==
    lua_insert(Append(lua_insert(stack, ArgBase(stack, narg)), Traceback),
               ArgBase(stack, narg))

\* The handler lets debug.traceback add to a message, when there still is such a
\* function, and returns what is not a string as it is.
traceback(error, field) ==
    IF lua_isfunction(<<field>>, 1) /\ error[1] = "string"
    THEN String("message and traceback") ELSE error

\* Fault: what the handler left is not removed when the call went well.
ReportedKeeping(stack, at, ok) ==
    IF ok THEN stack
    ELSE IF lua_isnil(stack, -1) THEN lua_remove(stack, at)
         ELSE lua_pop(lua_remove(stack, at), 1)

\* After the call: the handler is removed, and an error message is printed
\* and popped.  A nil that was raised stays, and counts as success.
Reported(stack, at, ok) ==
    IF ok \/ lua_isnil(stack, -1)
    THEN lua_remove(stack, at)
    ELSE lua_pop(lua_remove(stack, at), 1)

\* What a Lua function may raise.
Errors == {String("message"), <<"table", "exception">>, Nil}

\* The result of a function of oil, for the next one to work on.
ResultOf(name) == IF name = "oil.tostring" THEN String("reference")
                                          ELSE <<"table", name>>

-----------------------------------------------------------------------------
(* The HelloWorld object, and the methods of its Wrapper, which read their  *)
(* arguments from a stack and leave their result there.                     *)

NewHello == [quiet |-> TRUE, count |-> 0, printed |-> 0]

say_hello_to(h) == [h EXCEPT !.count = @ + 1,
                             !.printed = IF h.quiet THEN @ ELSE @ + 1]

\* The message that is printed and returned.
Greeting(words, name) == <<words, name>>

\* Fault: the flag is taken from behind the argument.
SetQuietMissesArgument(h, stack) ==
    [hello |-> [h EXCEPT !.quiet = lua_toboolean(stack, 2)], results |-> << >>]

WrapperSetQuiet(h, stack) ==
    [hello |-> [h EXCEPT !.quiet = lua_toboolean(stack, 1)], results |-> << >>]

WrapperGet(h, value) == [hello |-> h, results |-> <<value>>]

\* luaL_checkstring raises an error for what is neither string nor number.
WrapperSay(h, stack) ==
    IF lua_type(stack, 1) \in {"string", "number"}
    THEN [hello |-> say_hello_to(h),
          results |-> <<String(Greeting("C++: Hello", ValueAt(stack, 1)[2]))>>]
    ELSE [hello |-> h, results |-> <<"error">>]

Executed(h, method, stack) ==
    CASE method = "_set_quiet"   -> WrapperSetQuiet(h, stack)
      [] method = "_get_quiet"   -> WrapperGet(h, Boolean(h.quiet))
      [] method = "_get_count"   -> WrapperGet(h, Number(h.count))
      [] method = "say_hello_to" -> WrapperSay(h, stack)

\* The other program has no Wrapper: the binding generated by tolua++ calls the
\* members of its HelloWorld with the values of the arguments.
HelloWorld(h, method, stack) ==
    CASE method = "_set_quiet"   ->
             [hello |-> [h EXCEPT !.quiet = lua_toboolean(stack, 1)], results |-> << >>]
      [] method = "_get_quiet"   -> [hello |-> h, results |-> <<Boolean(h.quiet)>>]
      [] method = "_get_count"   -> [hello |-> h, results |-> <<Number(h.count)>>]
      [] method = "say_hello_to" ->
             [hello |-> say_hello_to(h),
              results |-> <<String(Greeting("Hello", ValueAt(stack, 1)[2]))>>]

HelloMethods == {"_set_quiet", "_get_quiet", "_get_count", "say_hello_to"}

-----------------------------------------------------------------------------
(* The state machine *)

HostInit ==
    /\ Init
    /\ program \in {"c++", "tolua++", "run"}
    /\ pc = 1
    /\ status = "run"
    /\ base = 0
    /\ oil = {}
    /\ hello = NewHello
    /\ servant = Nil
    /\ received = << >>
    /\ failed = FALSE
    /\ asked = [quiet |-> TRUE, says |-> 0, loud |-> 0, reply |-> << >>]

LuaStackBecomes(stack) == lua' = [lua EXCEPT !.stack = stack]

SameWorld == UNCHANGED <<program, oil, hello, servant, received, asked>>
SameExports == UNCHANGED <<classIndex, exported, handed, call>>

newstate ==
    /\ AtStep("newstate")
    /\ LuaStackBecomes(Opened)
    /\ pc' = pc + 1
    /\ SameWorld /\ SameExports /\ UNCHANGED <<status, base, failed>>

\* new Hello::Exported(L); exportedClass->newObject(wrappedHello)
Export ==
    /\ AtStep("export")
    /\ \/ \E c \in Class : NewExported(c) /\ pc' = pc
       \/ \E a \in Actual : newObject(a) /\ pc' = pc + 1
    /\ SameWorld /\ UNCHANGED <<status, base, failed>>

PushValue ==
    /\ AtStep("push")
    /\ LuaStackBecomes(Append(lua.stack, Step.value))
    /\ pc' = pc + 1
    /\ SameWorld /\ SameExports /\ UNCHANGED <<status, base, failed>>

PushObject ==
    /\ AtStep("pushOnStack")
    /\ lua' = pushObject(lua, exported[1].registerIndex)
    /\ pc' = pc + 1
    /\ SameWorld /\ SameExports /\ UNCHANGED <<status, base, failed>>

PushOilField ==
    /\ AtStep("pushfield")
    /\ LuaStackBecomes(pushfield(lua.stack, Step.name))
    /\ pc' = pc + 1
    /\ SameWorld /\ SameExports /\ UNCHANGED <<status, base, failed>>

\* callfield up to lua_pcall: the function is entered, or is nil.
CallBegins ==
    /\ AtStep("callfield")
    /\ LET stack == pushfield(lua.stack, Step.name)
           ready == Arranged(stack, Step.narg)
       IN  /\ base' = ArgBase(stack, Step.narg)
           /\ LuaStackBecomes(ready)
           /\ received' = IF Callee(ready, Step.narg) = Nil THEN received
                          ELSE WithEntry(received, Step.name,
                                         Arguments(ready, Step.narg))
    /\ status' = "called"
    /\ SameExports /\ UNCHANGED <<program, pc, oil, hello, servant, failed, asked>>

\* lua_pcall returns, and the rest of callfield.  require makes the module,
\* with all its functions when it succeeds.
CallReturns ==
    /\ status = "called"
    /\ Callee(lua.stack, Step.narg) # Nil
    /\ LET results == IF Step.nres = 0 THEN << >> ELSE <<ResultOf(Step.name)>>
       IN  LuaStackBecomes(
               Reported(Called(lua.stack, Step.narg, results), base, TRUE))
    /\ oil' = IF Step.name = "require" THEN OilFields ELSE oil
    /\ servant' = IF Step.name = "oil.newservant"
                  THEN received["oil.newservant"][1] ELSE servant
    /\ pc' = pc + 1 /\ status' = "run" /\ base' = 0
    /\ SameExports /\ UNCHANGED <<program, hello, received, failed, asked>>

\* lua_pcall fails.  A table that was raised is turned into a string by an
\* unprotected call of tostring, whose failure ends the program.
CallFails ==
    /\ status = "called"
    /\ \E error \in Errors, field \in {Nil, <<"function", "debug.traceback">>} :
         /\ Callee(lua.stack, Step.narg) = Nil => error = String("message")
         /\ LET raised == Called(lua.stack, Step.narg, <<traceback(error, field)>>)
            IN  /\ LuaStackBecomes(Reported(raised, base, FALSE))
                /\ \/ status' = "run"
                   \/ lua_istable(raised, -1) /\ status' = "panic"
    /\ IF Callee(lua.stack, Step.narg) # Nil /\ Step.name = "require"
       THEN oil' \in SUBSET OilFields
       ELSE oil' = oil
    /\ pc' = pc + 1 /\ base' = 0 /\ failed' = TRUE
    /\ SameExports /\ UNCHANGED <<program, hello, servant, received, asked>>

\* A remote client calls a method while oil.main serves the object: OiL passes
\* the object and the arguments to the field of that name.
Serve ==
    /\ status = "called" /\ Step.name = "oil.main"
    /\ Callee(lua.stack, 1) # Nil
    /\ servant # Nil
    /\ \E m \in HelloMethods :
       \E argument \in IF m = "_set_quiet" THEN {Boolean(b) : b \in BOOLEAN}
                       ELSE {String(s) : s \in Message} :
         /\ m = "say_hello_to" => asked.says < MaxSays
         /\ IF program = "c++"
            THEN /\ MethodCall(servant, m, argument)
                 /\ call'.done.ok
            ELSE call' = [done |-> [args |-> <<argument>>]]
         /\ LET done == IF program = "c++" THEN Executed(hello, m, call'.done.args)
                        ELSE HelloWorld(hello, m, call'.done.args)
            IN  /\ hello' = done.hello
                /\ asked' =
                     [quiet |-> IF m = "_set_quiet" THEN argument[2]
                                                    ELSE asked.quiet,
                      says  |-> asked.says + (IF m = "say_hello_to" THEN 1 ELSE 0),
                      loud  |-> asked.loud + (IF m = "say_hello_to" /\ ~asked.quiet
                                              THEN 1 ELSE 0),
                      reply |-> <<m, argument, done.results>>]
    /\ UNCHANGED <<lua, classIndex, exported, handed>>
    /\ UNCHANGED <<program, pc, status, base, oil, servant, received, failed>>

\* run.c: anything but one argument ends it with a usage message.
Usage ==
    /\ AtStep("usage")
    /\ \/ pc' = pc + 1 /\ status' = status
       \/ pc' = Len(Script) + 1 /\ status' = "exit"
    /\ SameWorld /\ SameExports /\ UNCHANGED <<lua, base, failed>>

\* The chunk of the file, or a message, which ends the program.
LoadFile ==
    /\ AtStep("loadfile")
    /\ \/ /\ LuaStackBecomes(Append(lua.stack, <<"function", "chunk">>))
          /\ pc' = pc + 1 /\ failed' = failed
       \/ /\ LuaStackBecomes(Append(lua.stack, String("message")))
          /\ pc' = Len(Script) + 1 /\ failed' = TRUE
    /\ SameWorld /\ SameExports /\ UNCHANGED <<status, base>>

\* lua_pcall(L, 0, 0, 0): no handler, and the error stays on the stack.
CallChunk ==
    /\ AtStep("pcall")
    /\ \/ LuaStackBecomes(Called(lua.stack, 0, << >>)) /\ failed' = failed
       \/ /\ \E error \in Errors : LuaStackBecomes(Called(lua.stack, 0, <<error>>))
          /\ failed' = TRUE
    /\ pc' = pc + 1
    /\ SameWorld /\ SameExports /\ UNCHANGED <<status, base>>

Exit ==
    /\ status = "run" /\ pc > Len(Script)
    /\ status' = "exit"
    /\ SameWorld /\ SameExports /\ UNCHANGED <<lua, pc, base, failed>>

HostNext ==
    \/ newstate \/ Export \/ PushValue \/ PushObject \/ PushOilField
    \/ CallBegins \/ CallReturns \/ CallFails \/ Serve
    \/ Usage \/ LoadFile \/ CallChunk \/ Exit

HostSpec == HostInit /\ [][HostNext]_vars

-----------------------------------------------------------------------------
(* Properties *)

HostTypeOK ==
    /\ program \in {"c++", "tolua++", "run"}
    /\ pc \in 1..Len(Script) + 1
    /\ status \in {"run", "called", "panic", "exit"}
    /\ \A n \in DOMAIN lua.stack : lua_type(lua.stack, n) \in LuaTypes
    /\ oil \subseteq OilFields
    /\ hello \in [quiet : BOOLEAN, count : 0..MaxSays, printed : 0..MaxSays]
    /\ failed \in BOOLEAN

\* While a function is called by callfield, the index given to lua_pcall is
\* that of the handler, however many calls failed before and left the stack
\* shorter or longer than the program takes it to be; at any other time no
\* handler is left on the stack.  The variables have their types.
HandlerInPlace ==
    /\ HostTypeOK
    /\ IF status = "called"
       THEN Valid(lua.stack, base) /\ lua.stack[base] = Traceback
       ELSE \A i \in DOMAIN lua.stack : lua.stack[i] # Traceback

\* The object as the program offers it.
OfferedObject ==
    IF program = "c++" THEN <<"userdata", 1>> ELSE <<"userdata", "tolua">>

\* The arguments that the comments and the code of main() mean for each call.
Meant(name) ==
    CASE name = "require"        -> <<String("oil")>>
      [] name = "oil.loadidl"    -> <<String("idl")>>
      [] name = "oil.newservant" -> <<OfferedObject, String("::Hello")>>
      [] name = "oil.tostring"   -> <<ResultOf("oil.newservant")>>
      [] name = "oil.writeto"    -> <<String(IF program = "c++" THEN "ref.ior"
                                             ELSE "hello.ref"), String("reference")>>
      [] name = "oil.main"       -> <<<<"function", "oil.run">>>>

\* As long as no call failed, each function gets the arguments meant for it,
\* and the program ends with the stack as newstate() left it.
OwnArguments ==
    ~failed =>
        /\ \A name \in DOMAIN received : received[name] = Meant(name)
        /\ status = "exit" /\ program # "run" => lua.stack = Opened

\* The object is what its clients made it: it counts every greeting, tells the
\* flag that was last set, greets by the name it was given, and prints exactly
\* the greetings asked for while it was not quiet.
RepliesAreRight ==
    /\ hello = [quiet |-> asked.quiet, count |-> asked.says,
                printed |-> asked.loud]
    /\ asked.reply # << >> =>
        asked.reply[3] =
            CASE asked.reply[1] = "_set_quiet"   -> << >>
              [] asked.reply[1] = "_get_quiet"   -> <<Boolean(asked.quiet)>>
              [] asked.reply[1] = "_get_count"   -> <<Number(asked.says)>>
              [] asked.reply[1] = "say_hello_to" ->
                     <<String(<<IF program = "c++" THEN "C++: Hello" ELSE "Hello",
                                asked.reply[2][2]>>)>>

=============================================================================

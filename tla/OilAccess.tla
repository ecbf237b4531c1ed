----------------------------- MODULE OilAccess ------------------------------
(***************************************************************************)
(* OiLAccess, with which a C++ program offers its objects to OiL: a C++     *)
(* class is exported as a Lua metatable whose fields are closures over its  *)
(* methods, an object of it as a userdata with that metatable.  Both are    *)
(* kept in tables of Lua's registry, and the C++ side holds the index.      *)
(*                                                                          *)
(* What Lua holds is the record lua: the stack of the program's state, the  *)
(* two tables, the fields of the metatables, and for each userdata its      *)
(* metatable and the C++ object it boxes.  The functions of OiLAccess are   *)
(* operators from such a record to the next.                                *)
(***************************************************************************)
EXTENDS LuaStack

CONSTANTS
    Class,       \* the instances of Exported<Actual>, one per C++ class
    Method,      \* Method[c] is the set of method names of class c
    Actual,      \* the C++ objects offered
    ClassOf,     \* the class of each of them
    MaxExports   \* bound: times newObject is called

ASSUME OilAccessAssumption ==
    /\ ClassOf \in [Actual -> Class]
    /\ MaxExports \in Nat

VARIABLES
    lua,         \* what Lua holds
    classIndex,  \* Exported::registerIndex by class, 0 before its constructor
    exported,    \* the ExportedObjects, in the order of their construction
    handed,      \* userdata that Lua code has been given (history)
    call         \* the method call of the last step: what was asked, what was done

accessVars == <<lua, classIndex, exported, handed, call>>

CLASS_REGISTRY == "OiL C++ Classes"
OBJECT_REGISTRY == "OiL C++ Objects"

NoCall == [userdata |-> 0]

-----------------------------------------------------------------------------
(* Tables of the registry. *)

\* table[key] = value
WithEntry(table, key, value) ==
    [k \in DOMAIN table \cup {key} |-> IF k = key THEN value ELSE table[k]]

\* Fault: the table is made anew every time.
PushRegistryForgets(L, name) ==
    [L EXCEPT !.stack = Append(@, <<"table", name>>),
              !.registry = WithEntry(@, name, << >>)]

\* The table of that name, made when it is asked for the first time.
lua_pushregistry(L, name) ==
    [L EXCEPT !.stack = Append(@, <<"table", name>>),
              !.registry = IF name \in DOMAIN @ THEN @
                                                ELSE WithEntry(@, name, << >>)]

\* The name of the registry table at index i of the stack.
TableAt(L, i) == ValueAt(L.stack, i)[2]

\* lua_pushnumber(n); lua_rawget, on the table at index i
RawGetI(L, i, n) ==
    LET table == L.registry[TableAt(L, i)]
    IN  [L EXCEPT !.stack =
            Append(@, IF n \in DOMAIN table THEN table[n] ELSE Nil)]

\* lua_objlen(): any border of the table, a last index before a free one.
luaL_getn(table) ==
    {n \in 0..MaxExports : /\ n = 0 \/ n \in DOMAIN table
                           /\ n + 1 \notin DOMAIN table}

\* The top of the stack goes into the table at index i, after border n.
lua_tableinsert(L, i, n) ==
    [L EXCEPT !.registry[TableAt(L, i)] = WithEntry(@, n + 1, ValueAt(L.stack, -1)),
              !.stack = lua_pop(@, 1)]

Popped(L, n) == [L EXCEPT !.stack = lua_pop(@, n)]

\* The top of the stack becomes the metatable of the userdata at index i.
lua_setmetatable(L, i) ==
    [L EXCEPT !.meta[ValueAt(L.stack, i)[2]] = ValueAt(L.stack, -1),
              !.stack = lua_pop(@, 1)]

-----------------------------------------------------------------------------
(* Exported<Actual> *)

\* A pointer to a member of a class in a userdata, and the member back out of it.
lua_boxmember(member) == <<"userdata", [box |-> member]>>
lua_unboxmember(value) == value[2].box

\* A metatable that leads from each name to a closure over the method of it,
\* and is its own __index; it stays on the stack.
lua_newcppclass(L, c) ==
    [L EXCEPT !.stack = Append(@, <<"table", c>>),
              !.fields = WithEntry(@, c, [m \in Method[c] |->
                                            [upvalue |-> lua_boxmember(<<c, m>>)]])]

\* The constructor: the metatable goes into the table of classes, at n + 1.
ExportedClass(L, c, n) ==
    Popped(lua_tableinsert(
        lua_newcppclass(lua_pushregistry(L, CLASS_REGISTRY), c), -2, n), 1)

\* A userdata u with a pointer to the object in it.
lua_boxobject(L, u, object) ==
    [L EXCEPT !.stack = Append(@, <<"userdata", u>>),
              !.box = WithEntry(@, u, object),
              !.meta = WithEntry(@, u, Nil)]

\* The object that a userdata on the stack points to.
lua_unboxobject(L, stack, i) == L.box[ValueAt(stack, i)[2]]

\* The boxed object gets the metatable of its class and goes into the table of
\* objects, at n + 1.
registerObject(L, u, object, index, n) ==
    LET boxed == lua_boxobject(lua_pushregistry(L, OBJECT_REGISTRY), u, object)
        class == RawGetI(lua_pushregistry(boxed, CLASS_REGISTRY), -1, index)
    IN  Popped(lua_tableinsert(Popped(lua_setmetatable(class, -3), 1), -2, n), 1)

\* Fault: the userdata keeps its metatable.
UnregisterKeepsMeta(L, n) ==
    LET object == RawGetI(lua_pushregistry(L, OBJECT_REGISTRY), -1, n)
    IN  Popped([Popped(object, 1) EXCEPT !.registry[OBJECT_REGISTRY] =
                   [k \in DOMAIN @ \ {n} |-> @[k]]], 1)

\* The userdata loses its metatable and its place in the table of objects;
\* Lua code may go on holding it.
unregisterObject(L, n) ==
    LET object == RawGetI(lua_pushregistry(L, OBJECT_REGISTRY), -1, n)
        bare   == lua_setmetatable([object EXCEPT !.stack = Append(@, Nil)], -2)
    IN  Popped([Popped(bare, 1) EXCEPT !.registry[OBJECT_REGISTRY] =
                   [k \in DOMAIN @ \ {n} |-> @[k]]], 1)

pushObject(L, n) ==
    LET object == RawGetI(lua_pushregistry(L, OBJECT_REGISTRY), -1, n)
    IN  [object EXCEPT !.stack = lua_remove(@, -2)]

\* What a closure of a metatable does with the stack of its call: the object is
\* taken out of the first argument, and the closure's method called with the
\* others.
lua_wrapper(L, frame, closure) ==
    IF lua_type(frame, 1) = "userdata"
    THEN [ok |-> TRUE, method |-> lua_unboxmember(closure.upvalue),
          object |-> lua_unboxobject(L, frame, 1), args |-> lua_remove(frame, 1)]
    ELSE [ok |-> FALSE]

-----------------------------------------------------------------------------
(* The state machine: what C++ does with its classes and objects, and calls *)
(* of their methods by the Lua code that was given them.                    *)

EmptyLua == [stack |-> << >>, registry |-> << >>, fields |-> << >>,
             meta |-> << >>, box |-> << >>]

Init ==
    /\ lua = EmptyLua
    /\ classIndex = [c \in Class |-> 0]
    /\ exported = << >>
    /\ handed = {}
    /\ call = NoCall

\* new Exported<Actual>(L, methods, func)
NewExported(c) ==
    /\ classIndex[c] = 0
    /\ \E n \in luaL_getn(
            lua_pushregistry(lua, CLASS_REGISTRY).registry[CLASS_REGISTRY]) :
        /\ lua' = ExportedClass(lua, c, n)
        /\ classIndex' = [classIndex EXCEPT ![c] = n + 1]
    /\ call' = NoCall
    /\ UNCHANGED <<exported, handed>>

\* What the constructor of ExportedObject keeps, registered at this index.
ExportedObject(actual, index) ==
    [actualObject |-> actual, registerIndex |-> index, alive |-> TRUE]

getObject(object) == object.actualObject

\* exportedClass->newObject(instance)
newObject(a) ==
    /\ classIndex[ClassOf[a]] > 0
    /\ Len(exported) < MaxExports
    /\ \E n \in luaL_getn(
            lua_pushregistry(lua, OBJECT_REGISTRY).registry[OBJECT_REGISTRY]) :
        /\ lua' = registerObject(lua, Len(exported) + 1, a,
                                 classIndex[ClassOf[a]], n)
        /\ exported' = Append(exported, ExportedObject(a, n + 1))
    /\ call' = NoCall
    /\ UNCHANGED <<classIndex, handed>>

\* The destructor of an ExportedObject.
DeleteObject(u) ==
    /\ exported[u].alive
    /\ lua' = unregisterObject(lua, exported[u].registerIndex)
    /\ exported' = [exported EXCEPT ![u].alive = FALSE]
    /\ call' = NoCall
    /\ UNCHANGED <<classIndex, handed>>

\* object->pushOnStack(), as an argument of a Lua function to be called
pushOnStack(u) ==
    /\ exported[u].alive
    /\ lua.stack = << >>
    /\ lua' = pushObject(lua, exported[u].registerIndex)
    /\ call' = NoCall
    /\ UNCHANGED <<classIndex, exported, handed>>

\* That call takes the argument, and Lua code may keep it.
LuaTakes ==
    /\ lua.stack # << >>
    /\ handed' = handed \cup {ValueAt(lua.stack, -1)}
    /\ lua' = Popped(lua, 1)
    /\ call' = NoCall
    /\ UNCHANGED <<classIndex, exported>>

\* object:method(argument) in Lua.  A userdata without metatable has no
\* methods: Lua raises an error and nothing is called.
MethodCall(value, m, argument) ==
    /\ value[1] = "userdata"
    /\ lua.meta[value[2]] # Nil
    /\ LET fields == lua.fields[lua.meta[value[2]][2]]
       IN  /\ m \in DOMAIN fields
           /\ call' = [userdata |-> value[2], method |-> m, argument |-> argument,
                       done |-> lua_wrapper(lua, <<value, argument>>, fields[m])]
    /\ UNCHANGED <<lua, classIndex, exported, handed>>

Next ==
    \/ \E c \in Class : NewExported(c)
    \/ \E a \in Actual : newObject(a)
    \/ \E u \in DOMAIN exported : DeleteObject(u) \/ pushOnStack(u)
    \/ LuaTakes
    \/ \E value \in handed, m \in UNION {Method[c] : c \in Class} :
          MethodCall(value, m, String("argument"))

Spec == Init /\ [][Next]_accessVars

-----------------------------------------------------------------------------
(* Properties *)

\* The tables of the registry and the records of the C++ side have the form
\* that the functions rely on.
AccessTypeOK ==
    /\ classIndex \in [Class -> 0..MaxExports + 1]
    /\ \A u \in DOMAIN exported : getObject(exported[u]) \in Actual
    /\ DOMAIN lua.registry \subseteq {CLASS_REGISTRY, OBJECT_REGISTRY}
    /\ DOMAIN lua.box = DOMAIN exported /\ DOMAIN lua.meta = DOMAIN exported

\* An object that is exported can be found where its ExportedObject says, as
\* a box with that very object in it and the methods of its class, whatever
\* other objects were exported and deleted in between (the length of a table
\* with holes is any border of it); the variables have their types.
OwnEntry ==
    /\ AccessTypeOK
    /\ \A u \in DOMAIN exported :
          exported[u].alive =>
              LET a == getObject(exported[u])
                  n == exported[u].registerIndex
              IN  /\ n \in DOMAIN lua.registry[OBJECT_REGISTRY]
                  /\ lua.registry[OBJECT_REGISTRY][n] = <<"userdata", u>>
                  /\ lua.box[u] = a
                  /\ lua.meta[u] = <<"table", ClassOf[a]>>

\* A method that is executed is one of the class of its object, with the
\* arguments the caller gave, and the object was exported at that time: what
\* Lua code keeps of a deleted one has no methods any more.
OnlyLiveObjectsAreCalled ==
    [][call' \notin {call, NoCall} =>
        LET u == call'.userdata
            a == getObject(exported[u])
        IN  /\ exported[u].alive
            /\ call'.done = [ok |-> TRUE, method |-> <<ClassOf[a], call'.method>>,
                             object |-> a, args |-> <<call'.argument>>]]_accessVars

=============================================================================

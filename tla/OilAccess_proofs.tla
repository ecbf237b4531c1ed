------------------------- MODULE OilAccess_proofs --------------------------
(***************************************************************************)
(* What C++ exports through OiLAccess stays where its ExportedObject says, *)
(* and Lua code reaches the methods of live objects only: for all classes, *)
(* methods and objects and every sequence of exports, deletions and calls. *)
(* In the programs that embed OiL the object replies as its interface      *)
(* says, callfield finds its handler wherever calls before it failed, and  *)
(* the calls that main() makes get what it means for them.                 *)
(***************************************************************************)
EXTENDS HelloHost, SequenceTheorems, TLAPS

(***************************************************************************)
(* The inductive invariant.  OwnEntry speaks of the objects that are       *)
(* exported; the constructor of the next one relies on the entry of its    *)
(* class, and a call through a userdata that Lua has kept on what the      *)
(* destructor did to its metatable.                                        *)
(***************************************************************************)
\* The strings that the programs name values by.  They are members of STRING,
\* which the provers do not know of a literal.
Names == {CLASS_REGISTRY, OBJECT_REGISTRY, "oil", "idl", "ref.ior", "hello.ref",
          "::Hello", "tolua", "reference", "message", "message and traceback",
          "exception", "package.loaded", "oil.bit", "chunk", "require", "traceback"}
         \cup OilFields

\* What may be on the stack.
Value == LuaTypes \X (Class \cup Nat \cup STRING \cup Names)

LuaState(stack, registry, fields, meta, box) ==
    [stack |-> stack, registry |-> registry, fields |-> fields, meta |-> meta,
     box |-> box]

ObjectRecord == [actualObject : Actual, registerIndex : Nat, alive : BOOLEAN]

\* The values by which Lua code knows the objects.
Userdata == {<<"userdata", u>> : u \in DOMAIN exported}

StatesAreWellFormed ==
    /\ lua = LuaState(lua.stack, lua.registry, lua.fields, lua.meta, lua.box)
    /\ lua.stack \in Seq(Value)
    /\ exported \in Seq(ObjectRecord)
    /\ exported # << >> => OBJECT_REGISTRY \in DOMAIN lua.registry

\* Lua is given boxes of objects, and nothing else.
LuaHoldsUserdata ==
    /\ \A i \in 1..Len(lua.stack) : lua.stack[i] \in Userdata
    /\ handed \subseteq Userdata

\* A class whose constructor has run has its metatable where it says, and a
\* metatable leads to the methods of its class.
ClassesAreRegistered ==
    /\ \A c \in Class :
          classIndex[c] > 0 =>
              /\ CLASS_REGISTRY \in DOMAIN lua.registry
              /\ classIndex[c] \in DOMAIN lua.registry[CLASS_REGISTRY]
              /\ lua.registry[CLASS_REGISTRY][classIndex[c]] = <<"table", c>>
              /\ c \in DOMAIN lua.fields
    /\ \A c \in DOMAIN lua.fields :
          lua.fields[c] = [m \in Method[c] |-> [upvalue |-> lua_boxmember(<<c, m>>)]]

\* An object has a class that is there; one that was deleted has no methods.
ObjectsHaveClasses ==
    \A u \in DOMAIN exported :
        /\ classIndex[ClassOf[getObject(exported[u])]] > 0
        /\ ~exported[u].alive => lua.meta[u] = Nil

\* What holds whatever else the program does with the stack, and what Lua code
\* is given where exported objects are all that is ever pushed.
AccessCore == /\ OwnEntry
              /\ StatesAreWellFormed
              /\ ClassesAreRegistered
              /\ ObjectsHaveClasses
AccessInv == AccessCore /\ LuaHoldsUserdata

-----------------------------------------------------------------------------
(* What the functions do to the stack, the tables and the boxes.           *)

(* The two tables of the registry are two.                                 *)
LEMMA NamesDiffer == CLASS_REGISTRY # OBJECT_REGISTRY
BY DEF CLASS_REGISTRY, OBJECT_REGISTRY

(* The top of a stack that was pushed on, the value below it, and what is  *)
(* left when the top is popped.                                            *)
LEMMA PushFacts ==
  ASSUME NEW S, NEW s \in Seq(S), NEW v \in S
  PROVE  /\ Append(s, v) \in Seq(S)
         /\ ValueAt(Append(s, v), -1) = v
         /\ lua_pop(Append(s, v), 1) = s
         /\ \A i \in Int : (i < 0 /\ -i <= Len(s)) =>
              ValueAt(Append(s, v), i - 1) = ValueAt(s, i)
<1>1. /\ Append(s, v) \in Seq(S) /\ Len(Append(s, v)) = Len(s) + 1 /\ Len(s) \in Nat
      /\ \A i \in 1..Len(s) : Append(s, v)[i] = s[i]
      /\ Append(s, v)[Len(s) + 1] = v
  BY AppendProperties
<1>2. SubSeq(Append(s, v), 1, Len(s)) = s
  BY <1>1
<1> QED BY <1>1, <1>2 DEF ValueAt, AbsIndex, lua_pop

(* The registry after a table of it was asked for.                         *)
Having(registry, name) ==
    IF name \in DOMAIN registry THEN registry ELSE WithEntry(registry, name, << >>)

(* Asking for a table changes no other, nor the table if it is there.      *)
LEMMA HavingFacts ==
  ASSUME NEW registry, NEW name
  PROVE  /\ DOMAIN Having(registry, name) = DOMAIN registry \cup {name}
         /\ \A k \in DOMAIN registry : Having(registry, name)[k] = registry[k]
         /\ name \notin DOMAIN registry => Having(registry, name)[name] = << >>
<1>1. CASE name \in DOMAIN registry
  BY <1>1 DEF Having
<1>2. CASE name \notin DOMAIN registry
  <2>1. Having(registry, name) = WithEntry(registry, name, << >>)
    BY <1>2 DEF Having
  <2>2. \A k \in DOMAIN registry : k # name
    BY <1>2
  <2>3. /\ DOMAIN WithEntry(registry, name, << >>) = DOMAIN registry \cup {name}
        /\ WithEntry(registry, name, << >>)[name] = << >>
        /\ \A k \in DOMAIN registry :
             k # name => WithEntry(registry, name, << >>)[k] = registry[k]
    BY DEF WithEntry
  <2> QED BY <2>1, <2>2, <2>3
<1> QED BY <1>1, <1>2

(* The table of a name is pushed, and made if it was not there.            *)
LEMMA PushRegistry ==
  ASSUME NEW s, NEW r, NEW f, NEW m, NEW b, NEW name
  PROVE  lua_pushregistry(LuaState(s, r, f, m, b), name) =
            LuaState(Append(s, <<"table", name>>), Having(r, name), f, m, b)
<1> DEFINE L == LuaState(s, r, f, m, b)
           x == Append(s, <<"table", name>>)
           y == Having(r, name)
<1>1. L.stack = s /\ L.registry = r
  BY DEF LuaState
<1>2. lua_pushregistry(L, name) = [L EXCEPT !.stack = x, !.registry = y]
  BY ONLY <1>1, Zenon DEF lua_pushregistry, Having
<1>3. /\ [L EXCEPT !.stack = x] = LuaState(x, r, f, m, b)
      /\ [LuaState(x, r, f, m, b) EXCEPT !.registry = y] = LuaState(x, y, f, m, b)
  <2> HIDE DEF x, y
  <2> QED BY DEF LuaState
<1> QED BY ONLY <1>2, <1>3, Zenon

(* The top is taken off the stack.                                         *)
LEMMA PopOne ==
  ASSUME NEW S, NEW s \in Seq(S), NEW v \in S, NEW r, NEW f, NEW m, NEW b
  PROVE  Popped(LuaState(Append(s, v), r, f, m, b), 1) = LuaState(s, r, f, m, b)
<1> DEFINE t == Append(s, v)
           L == LuaState(t, r, f, m, b)
<1>1. lua_pop(t, 1) = s
  BY PushFacts
<1>2. Popped(L, 1) = [L EXCEPT !.stack = s]
  <2>1. L.stack = t
    BY DEF LuaState
  <2> QED BY ONLY <1>1, <2>1, Zenon DEF Popped
<1>3. [L EXCEPT !.stack = s] = LuaState(s, r, f, m, b)
  <2> HIDE DEF t
  <2> QED BY DEF LuaState
<1> QED BY ONLY <1>2, <1>3, Zenon

(* The value on the top goes into the registry table below it.             *)
LEMMA TableInsert ==
  ASSUME NEW S, NEW s \in Seq(S), NEW v \in S, NEW name, <<"table", name>> \in S,
         NEW r, NEW f, NEW m, NEW b, NEW n
  PROVE  lua_tableinsert(LuaState(Append(Append(s, <<"table", name>>), v), r, f, m, b),
                         -2, n) =
            LuaState(Append(s, <<"table", name>>),
                     [r EXCEPT ![name] = WithEntry(@, n + 1, v)], f, m, b)
<1> DEFINE t == Append(s, <<"table", name>>)
<1>1. t \in Seq(S) /\ Len(t) = Len(s) + 1 /\ Len(s) \in Nat
  BY AppendProperties
<1>2. ValueAt(t, -1) = <<"table", name>>
  BY PushFacts
<1>3. /\ ValueAt(Append(t, v), -1) = v /\ lua_pop(Append(t, v), 1) = t
      /\ ValueAt(Append(t, v), -2) = ValueAt(t, -1)
  <2> HIDE DEF t
  <2> QED BY <1>1, PushFacts
<1>4. TableAt(LuaState(Append(t, v), r, f, m, b), -2) = name
  BY <1>2, <1>3 DEF TableAt, LuaState
<1> DEFINE tv == Append(t, v)
           L == LuaState(tv, r, f, m, b)
           y == [r EXCEPT ![name] = WithEntry(@, n + 1, v)]
<1>5. L.stack = Append(t, v) /\ L.registry = r /\ TableAt(L, -2) = name
  <2>1. L.stack = Append(t, v) /\ L.registry = r
    BY DEF LuaState
  <2> QED BY ONLY <1>4, <2>1, Zenon
<1>6. lua_tableinsert(L, -2, n) = [L EXCEPT !.registry = y, !.stack = t]
  <2> HIDE DEF t, L
  <2> QED BY ONLY <1>3, <1>5, Zenon DEF lua_tableinsert
<1>7. /\ [L EXCEPT !.registry = y] = LuaState(tv, y, f, m, b)
      /\ [LuaState(tv, y, f, m, b) EXCEPT !.stack = t] = LuaState(t, y, f, m, b)
  <2> HIDE DEF t, y, tv
  <2> QED BY DEF LuaState
<1> QED BY ONLY <1>6, <1>7, Zenon

(* An entry of the registry table on the top is pushed.                    *)
LEMMA RawGet ==
  ASSUME NEW S, NEW s \in Seq(S), NEW name, <<"table", name>> \in S,
         NEW r, NEW f, NEW m, NEW b, NEW n, n \in DOMAIN r[name]
  PROVE  RawGetI(LuaState(Append(s, <<"table", name>>), r, f, m, b), -1, n) =
            LuaState(Append(Append(s, <<"table", name>>), r[name][n]), r, f, m, b)
<1>1. ValueAt(Append(s, <<"table", name>>), -1) = <<"table", name>>
  BY PushFacts
<1>2. TableAt(LuaState(Append(s, <<"table", name>>), r, f, m, b), -1) = name
  BY <1>1 DEF TableAt, LuaState
<1> DEFINE t == Append(s, <<"table", name>>)
           L == LuaState(t, r, f, m, b)
           x == Append(t, r[name][n])
<1>3. L.stack = t /\ L.registry = r /\ TableAt(L, -1) = name
  <2>1. L.stack = t /\ L.registry = r
    BY DEF LuaState
  <2> QED BY ONLY <1>2, <2>1, Zenon
<1>4. RawGetI(L, -1, n) = [L EXCEPT !.stack = x]
  BY <1>3 DEF RawGetI
<1>5. [L EXCEPT !.stack = x] = LuaState(x, r, f, m, b)
  <2> HIDE DEF t, x
  <2> QED BY DEF LuaState
<1> QED BY ONLY <1>4, <1>5, Zenon

(* The top becomes the metatable of the userdata two values below it.      *)
LEMMA SetMetatable ==
  ASSUME NEW S, NEW s \in Seq(S), NEW v \in S, NEW i \in Int, i < 0, -i <= Len(s),
         NEW u, ValueAt(s, i) = <<"userdata", u>>,
         NEW r, NEW f, NEW m, NEW b
  PROVE  lua_setmetatable(LuaState(Append(s, v), r, f, m, b), i - 1) =
            LuaState(s, r, f, [m EXCEPT ![u] = v], b)
<1> DEFINE t == Append(s, v)
           L == LuaState(t, r, f, m, b)
           y == [m EXCEPT ![u] = v]
<1>1. ValueAt(t, i - 1)[2] = u /\ ValueAt(t, -1) = v /\ lua_pop(t, 1) = s
  <2>1. ValueAt(t, i - 1) = ValueAt(s, i) /\ ValueAt(t, -1) = v /\ lua_pop(t, 1) = s
    BY PushFacts
  <2> QED BY <2>1
<1>2. L.stack = t /\ L.meta = m
  BY DEF LuaState
<1>3. lua_setmetatable(L, i - 1) = [L EXCEPT !.meta = y, !.stack = s]
  <2> HIDE DEF t, L
  <2> QED BY ONLY <1>1, <1>2, Zenon DEF lua_setmetatable
<1>4. /\ [L EXCEPT !.meta = y] = LuaState(t, r, f, y, b)
      /\ [LuaState(t, r, f, y, b) EXCEPT !.stack = s] = LuaState(s, r, f, y, b)
  <2> HIDE DEF t, y
  <2> QED BY DEF LuaState
<1> QED BY ONLY <1>3, <1>4, Zenon

\* What the names of a class lead to.
Methods(c) == [m \in Method[c] |-> [upvalue |-> lua_boxmember(<<c, m>>)]]

(* A metatable is made and left on the stack.                              *)
LEMMA NewClass ==
  ASSUME NEW s, NEW r, NEW f, NEW m, NEW b, NEW c
  PROVE  lua_newcppclass(LuaState(s, r, f, m, b), c) =
            LuaState(Append(s, <<"table", c>>), r, WithEntry(f, c, Methods(c)), m, b)
<1> DEFINE L == LuaState(s, r, f, m, b)
           x == Append(s, <<"table", c>>)
           y == WithEntry(f, c, Methods(c))
<1>1. L.stack = s /\ L.fields = f
  BY DEF LuaState
<1>2. lua_newcppclass(L, c) = [L EXCEPT !.stack = x, !.fields = y]
  <2> HIDE DEF L
  <2> QED BY ONLY <1>1, Zenon DEF lua_newcppclass, Methods
<1>3. /\ [L EXCEPT !.stack = x] = LuaState(x, r, f, m, b)
      /\ [LuaState(x, r, f, m, b) EXCEPT !.fields = y] = LuaState(x, r, y, m, b)
  <2> HIDE DEF x, y
  <2> QED BY DEF LuaState
<1> QED BY ONLY <1>2, <1>3, Zenon

(* A box is made and left on the stack.                                    *)
LEMMA BoxObject ==
  ASSUME NEW s, NEW r, NEW f, NEW m, NEW b, NEW u, NEW object
  PROVE  lua_boxobject(LuaState(s, r, f, m, b), u, object) =
            LuaState(Append(s, <<"userdata", u>>), r, f, WithEntry(m, u, Nil),
                     WithEntry(b, u, object))
<1> DEFINE L == LuaState(s, r, f, m, b)
           x == Append(s, <<"userdata", u>>)
           y == WithEntry(b, u, object)
           z == WithEntry(m, u, Nil)
<1>1. L.stack = s /\ L.box = b /\ L.meta = m
  BY DEF LuaState
<1>2. lua_boxobject(L, u, object) = [L EXCEPT !.stack = x, !.box = y, !.meta = z]
  <2> HIDE DEF L
  <2> QED BY ONLY <1>1, Zenon DEF lua_boxobject
<1>3. /\ [L EXCEPT !.stack = x] = LuaState(x, r, f, m, b)
      /\ [LuaState(x, r, f, m, b) EXCEPT !.box = y] = LuaState(x, r, f, m, y)
      /\ [LuaState(x, r, f, m, y) EXCEPT !.meta = z] = LuaState(x, r, f, z, y)
  <2> HIDE DEF x, y, z
  <2> QED BY DEF LuaState
<1> QED BY ONLY <1>2, <1>3, Zenon

-----------------------------------------------------------------------------
(* What the functions of OiLAccess do, from the state they find: each of   *)
(* them leaves the stack as it was, pushObject with the object on it.      *)

(* All that is ever pushed is a value.                                     *)
LEMMA Values ==
  /\ <<"table", CLASS_REGISTRY>> \in Value /\ <<"table", OBJECT_REGISTRY>> \in Value
  /\ \A c \in Class : <<"table", c>> \in Value
  /\ \A u \in Nat : <<"userdata", u>> \in Value
  /\ Nil \in Value
BY DEF Value, Names, LuaTypes, Nil

\* A registry with an entry v of the table of that name, after border n.
Inserted(r, name, n, v) == [r EXCEPT ![name] = WithEntry(@, n + 1, v)]

(* The constructor of a class registers the metatable, at n + 1.           *)
LEMMA ClassExported ==
  ASSUME NEW s \in Seq(Value), NEW r, NEW f, NEW m, NEW b, NEW c \in Class, NEW n
  PROVE  ExportedClass(LuaState(s, r, f, m, b), c, n) =
            LuaState(s, Inserted(Having(r, CLASS_REGISTRY), CLASS_REGISTRY, n,
                                 <<"table", c>>),
                     WithEntry(f, c, Methods(c)), m, b)
<1> DEFINE t == Append(s, <<"table", CLASS_REGISTRY>>)
           h == Having(r, CLASS_REGISTRY)
           g == WithEntry(f, c, Methods(c))
           i == Inserted(h, CLASS_REGISTRY, n, <<"table", c>>)
<1>1. lua_pushregistry(LuaState(s, r, f, m, b), CLASS_REGISTRY) = LuaState(t, h, f, m, b)
  BY PushRegistry
<1>2. lua_newcppclass(LuaState(t, h, f, m, b), c) =
         LuaState(Append(t, <<"table", c>>), h, g, m, b)
  BY NewClass
<1>3. lua_tableinsert(LuaState(Append(t, <<"table", c>>), h, g, m, b), -2, n) =
         LuaState(t, i, g, m, b)
  BY Values, TableInsert DEF Inserted
<1>4. Popped(LuaState(t, i, g, m, b), 1) = LuaState(s, i, g, m, b)
  BY Values, PopOne
<1> QED BY ONLY <1>1, <1>2, <1>3, <1>4, Zenon DEF ExportedClass

(* An object is registered as a box with the metatable of its class.       *)
LEMMA ObjectRegistered ==
  ASSUME NEW s \in Seq(Value), NEW r, NEW f, NEW m, NEW b, NEW u \in Nat, NEW object,
         NEW index, NEW c \in Class, NEW n,
         CLASS_REGISTRY \in DOMAIN r, index \in DOMAIN r[CLASS_REGISTRY],
         r[CLASS_REGISTRY][index] = <<"table", c>>
  PROVE  registerObject(LuaState(s, r, f, m, b), u, object, index, n) =
            LuaState(s, Inserted(Having(r, OBJECT_REGISTRY), OBJECT_REGISTRY, n,
                                 <<"userdata", u>>),
                     f, WithEntry(m, u, <<"table", c>>),
                     WithEntry(b, u, object))
<1> DEFINE t == Append(s, <<"table", OBJECT_REGISTRY>>)
           tu == Append(t, <<"userdata", u>>)
           tuc == Append(tu, <<"table", CLASS_REGISTRY>>)
           h == Having(r, OBJECT_REGISTRY)
           w == WithEntry(m, u, Nil)
           x == WithEntry(b, u, object)
           y == WithEntry(m, u, <<"table", c>>)
           i == Inserted(h, OBJECT_REGISTRY, n, <<"userdata", u>>)
<1>1. t \in Seq(Value) /\ tu \in Seq(Value) /\ tuc \in Seq(Value)
  BY Values
<1>2. lua_pushregistry(LuaState(s, r, f, m, b), OBJECT_REGISTRY) = LuaState(t, h, f, m, b)
  BY PushRegistry
<1>3. lua_boxobject(LuaState(t, h, f, m, b), u, object) = LuaState(tu, h, f, w, x)
  BY BoxObject
<1>4. /\ CLASS_REGISTRY \in DOMAIN h /\ index \in DOMAIN h[CLASS_REGISTRY]
      /\ h[CLASS_REGISTRY][index] = <<"table", c>>
  <2>1. CLASS_REGISTRY \in DOMAIN h /\ h[CLASS_REGISTRY] = r[CLASS_REGISTRY]
    <3>1. /\ DOMAIN h = DOMAIN r \cup {OBJECT_REGISTRY}
          /\ \A k \in DOMAIN r : h[k] = r[k]
      BY ONLY HavingFacts, Zenon
    <3> QED BY <3>1
  <2> QED BY <2>1
<1>5. lua_pushregistry(LuaState(tu, h, f, w, x), CLASS_REGISTRY) = LuaState(tuc, h, f, w, x)
  <2>1. Having(h, CLASS_REGISTRY) = h
    BY <1>4 DEF Having
  <2> QED BY <2>1, PushRegistry
<1>6. RawGetI(LuaState(tuc, h, f, w, x), -1, index) =
         LuaState(Append(tuc, <<"table", c>>), h, f, w, x)
  <2> HIDE DEF h, w, x, tu
  <2>1. RawGetI(LuaState(tuc, h, f, w, x), -1, index) =
           LuaState(Append(tuc, h[CLASS_REGISTRY][index]), h, f, w, x)
    <3>1. /\ tu \in Seq(Value) /\ <<"table", CLASS_REGISTRY>> \in Value
          /\ index \in DOMAIN h[CLASS_REGISTRY]
      BY <1>1, <1>4, Values
    <3> QED BY ONLY <3>1, RawGet
  <2> QED BY <1>4, <2>1
<1>7. lua_setmetatable(LuaState(Append(tuc, <<"table", c>>), h, f, w, x), -3) =
         LuaState(tuc, h, f, y, x)
  <2>1. ValueAt(tu, -1) = <<"userdata", u>> /\ ValueAt(tuc, -2) = ValueAt(tu, -1)
    <3> HIDE DEF t
    <3>1. Len(tu) = Len(t) + 1 /\ Len(t) \in Nat
      BY <1>1, Values
    <3>2. ValueAt(tu, -1) = <<"userdata", u>>
      BY <1>1, Values, PushFacts
    <3> HIDE DEF tu
    <3> QED BY <1>1, <3>1, <3>2, Values, PushFacts
  <2>2. Len(tuc) >= 2
    BY <1>1, Values
  <2>3. [w EXCEPT ![u] = <<"table", c>>] = y
    <3> DEFINE v == <<"table", c>>
    <3> HIDE DEF v
    <3> QED BY DEF WithEntry
  <2>4. lua_setmetatable(LuaState(Append(tuc, <<"table", c>>), h, f, w, x), -3) =
           LuaState(tuc, h, f, [w EXCEPT ![u] = <<"table", c>>], x)
    <3> HIDE DEF tuc, h, w, x
    <3> QED BY <1>1, <2>1, <2>2, Values, SetMetatable
  <2> QED BY ONLY <2>3, <2>4, Zenon
<1>8. Popped(LuaState(tuc, h, f, y, x), 1) = LuaState(tu, h, f, y, x)
  <2> HIDE DEF tu, h, y, x
  <2> QED BY <1>1, Values, PopOne
<1>9. lua_tableinsert(LuaState(tu, h, f, y, x), -2, n) = LuaState(t, i, f, y, x)
  <2> HIDE DEF h, y, x
  <2> QED BY <1>1, Values, TableInsert DEF Inserted
<1>10. Popped(LuaState(t, i, f, y, x), 1) = LuaState(s, i, f, y, x)
  <2> HIDE DEF i, y, x
  <2> QED BY <1>1, Values, PopOne
<1> HIDE DEF t, tu, tuc, h, w, x, y, i
<1>11. registerObject(LuaState(s, r, f, m, b), u, object, index, n) =
          LuaState(s, i, f, y, x)
  BY ONLY <1>2, <1>3, <1>5, <1>6, <1>7, <1>8, <1>9, <1>10, Zenon DEF registerObject
<1> QED BY <1>11 DEF h, w, x, y, i

(* An entry of the table of objects is fetched.                            *)
LEMMA FetchObject ==
  ASSUME NEW s \in Seq(Value), NEW r, NEW f, NEW m, NEW b, NEW n,
         OBJECT_REGISTRY \in DOMAIN r, n \in DOMAIN r[OBJECT_REGISTRY]
  PROVE  RawGetI(lua_pushregistry(LuaState(s, r, f, m, b), OBJECT_REGISTRY), -1, n) =
            LuaState(Append(Append(s, <<"table", OBJECT_REGISTRY>>),
                            r[OBJECT_REGISTRY][n]), r, f, m, b)
<1> DEFINE t == Append(s, <<"table", OBJECT_REGISTRY>>)
<1>1. lua_pushregistry(LuaState(s, r, f, m, b), OBJECT_REGISTRY) = LuaState(t, r, f, m, b)
  <2>1. Having(r, OBJECT_REGISTRY) = r
    BY DEF Having
  <2> QED BY <2>1, PushRegistry
<1>2. RawGetI(LuaState(t, r, f, m, b), -1, n) =
         LuaState(Append(t, r[OBJECT_REGISTRY][n]), r, f, m, b)
  <2>1. <<"table", OBJECT_REGISTRY>> \in Value
    BY Values
  <2> QED BY ONLY <2>1, s \in Seq(Value), n \in DOMAIN r[OBJECT_REGISTRY], RawGet
<1> QED BY <1>1, <1>2

\* A registry without what the table of that name has at n; metatables of
\* which u has none.
Removed(r, name, n) == [r EXCEPT ![name] = [k \in DOMAIN @ \ {n} |-> @[k]]]
Bared(m, u) == [m EXCEPT ![u] = Nil]

(* The box loses its metatable and its place, and nothing else changes.    *)
LEMMA ObjectUnregistered ==
  ASSUME NEW s \in Seq(Value), NEW r, NEW f, NEW m, NEW b, NEW u \in Nat, NEW n,
         OBJECT_REGISTRY \in DOMAIN r, n \in DOMAIN r[OBJECT_REGISTRY],
         r[OBJECT_REGISTRY][n] = <<"userdata", u>>
  PROVE  unregisterObject(LuaState(s, r, f, m, b), n) =
            LuaState(s, Removed(r, OBJECT_REGISTRY, n), f, Bared(m, u), b)
<1> DEFINE t == Append(s, <<"table", OBJECT_REGISTRY>>)
           tu == Append(t, <<"userdata", u>>)
           tun == Append(tu, Nil)
           y == [m EXCEPT ![u] = Nil]
           i == [r EXCEPT ![OBJECT_REGISTRY] = [k \in DOMAIN @ \ {n} |-> @[k]]]
           L1 == LuaState(tu, r, f, m, b)
           L2 == LuaState(t, r, f, y, b)
<1>1. t \in Seq(Value) /\ tu \in Seq(Value) /\ Len(tu) >= 1
  BY Values
<1>2. RawGetI(lua_pushregistry(LuaState(s, r, f, m, b), OBJECT_REGISTRY), -1, n) = L1
  <2>1. RawGetI(lua_pushregistry(LuaState(s, r, f, m, b), OBJECT_REGISTRY), -1, n) =
           LuaState(Append(t, r[OBJECT_REGISTRY][n]), r, f, m, b)
    BY ONLY s \in Seq(Value), OBJECT_REGISTRY \in DOMAIN r,
            n \in DOMAIN r[OBJECT_REGISTRY], FetchObject
  <2> QED BY <2>1
<1>3. [L1 EXCEPT !.stack = Append(@, Nil)] = LuaState(tun, r, f, m, b)
  <2>1. L1.stack = tu
    BY DEF LuaState
  <2>2. [L1 EXCEPT !.stack = tun] = LuaState(tun, r, f, m, b)
    <3> HIDE DEF tu, tun
    <3> QED BY DEF LuaState
  <2> HIDE DEF L1
  <2> QED BY ONLY <2>1, <2>2, Zenon
<1>4. lua_setmetatable(LuaState(tun, r, f, m, b), -2) = LuaState(tu, r, f, y, b)
  <2>1. ValueAt(tu, -1) = <<"userdata", u>>
    <3> HIDE DEF t
    <3> QED BY <1>1, Values, PushFacts
  <2> HIDE DEF tu
  <2> QED BY <1>1, <2>1, Values, SetMetatable
<1>5. Popped(LuaState(tu, r, f, y, b), 1) = L2
  <2> HIDE DEF t, y
  <2> QED BY <1>1, Values, PopOne
<1>6. [L2 EXCEPT !.registry[OBJECT_REGISTRY] = [k \in DOMAIN @ \ {n} |-> @[k]]] =
         LuaState(t, i, f, y, b)
  <2>1. L2.registry = r
    BY DEF LuaState
  <2>2. [L2 EXCEPT !.registry = i] = LuaState(t, i, f, y, b)
    <3> HIDE DEF t, i, y
    <3> QED BY DEF LuaState
  <2>3. [L2 EXCEPT !.registry[OBJECT_REGISTRY] = [k \in DOMAIN @ \ {n} |-> @[k]]] =
           [L2 EXCEPT !.registry = i]
    <3> HIDE DEF L2
    <3> QED BY ONLY <2>1, Zenon
  <2> QED BY <2>2, <2>3
<1>7. Popped(LuaState(t, i, f, y, b), 1) = LuaState(s, i, f, y, b)
  <2> HIDE DEF i, y
  <2> QED BY Values, PopOne
<1>8. unregisterObject(LuaState(s, r, f, m, b), n) = LuaState(s, i, f, y, b)
  <2> HIDE DEF t, tu, tun, y, i, L1, L2
  <2>1. Popped(lua_setmetatable([L1 EXCEPT !.stack = Append(@, Nil)], -2), 1) = L2
    BY ONLY <1>3, <1>4, <1>5, Zenon
  <2>2. unregisterObject(LuaState(s, r, f, m, b), n) =
           Popped([L2 EXCEPT !.registry[OBJECT_REGISTRY] =
                      [k \in DOMAIN @ \ {n} |-> @[k]]], 1)
    BY ONLY <1>2, <2>1, Zenon DEF unregisterObject
  <2> QED BY ONLY <2>2, <1>6, <1>7, Zenon
<1> QED BY <1>8 DEF Removed, Bared

(* The box of an object is left on the stack, alone.                       *)
LEMMA ObjectPushed ==
  ASSUME NEW s \in Seq(Value), NEW r, NEW f, NEW m, NEW b, NEW n, NEW v \in Value,
         OBJECT_REGISTRY \in DOMAIN r, n \in DOMAIN r[OBJECT_REGISTRY],
         r[OBJECT_REGISTRY][n] = v
  PROVE  pushObject(LuaState(s, r, f, m, b), n) = LuaState(Append(s, v), r, f, m, b)
<1> DEFINE t == Append(s, <<"table", OBJECT_REGISTRY>>)
           tv == Append(t, v)
           L == LuaState(tv, r, f, m, b)
<1>1. RawGetI(lua_pushregistry(LuaState(s, r, f, m, b), OBJECT_REGISTRY), -1, n) = L
  <2>1. RawGetI(lua_pushregistry(LuaState(s, r, f, m, b), OBJECT_REGISTRY), -1, n) =
           LuaState(Append(t, r[OBJECT_REGISTRY][n]), r, f, m, b)
    BY ONLY s \in Seq(Value), OBJECT_REGISTRY \in DOMAIN r,
            n \in DOMAIN r[OBJECT_REGISTRY], FetchObject
  <2> QED BY <2>1
<1>2. lua_remove(tv, -2) = Append(s, v)
  <2>1. /\ tv \in Seq(Value) /\ Len(tv) = Len(s) + 2 /\ Len(s) \in Nat
        /\ tv[Len(s) + 2] = v /\ \A i \in 1..Len(s) : tv[i] = s[i]
    BY Values
  <2>2. lua_remove(tv, -2) = SubSeq(tv, 1, Len(s)) \o SubSeq(tv, Len(s) + 2, Len(s) + 2)
    <3> HIDE DEF tv
    <3>1. AbsIndex(tv, -2) = Len(s) + 1
      BY <2>1 DEF AbsIndex
    <3>2. /\ AbsIndex(tv, -2) - 1 = Len(s) /\ AbsIndex(tv, -2) + 1 = Len(s) + 2
          /\ Len(tv) = Len(s) + 2
      BY <2>1, <3>1
    <3> QED BY ONLY <3>2, Zenon DEF lua_remove
  <2>3. SubSeq(tv, 1, Len(s)) = s
    <3> HIDE DEF tv
    <3> QED BY <2>1
  <2>4. SubSeq(tv, Len(s) + 2, Len(s) + 2) = <<v>>
    <3> HIDE DEF tv
    <3> DEFINE q == SubSeq(tv, Len(s) + 2, Len(s) + 2)
    <3>1. q \in Seq(Value) /\ Len(q) = 1 /\ q[1] = v
      BY <2>1, SubSeqProperties
    <3> HIDE DEF q
    <3>2. q = <<v>>
      BY <3>1
    <3> QED BY <3>2 DEF q
  <2>5. Append(s, v) = s \o <<v>>
    BY AppendIsConcat
  <2> QED BY ONLY <2>2, <2>3, <2>4, <2>5, Zenon
<1>3. [L EXCEPT !.stack = lua_remove(@, -2)] = LuaState(Append(s, v), r, f, m, b)
  <2>1. L.stack = tv
    BY DEF LuaState
  <2> DEFINE x == Append(s, v)
  <2>2. [L EXCEPT !.stack = x] = LuaState(x, r, f, m, b)
    <3> HIDE DEF x, tv
    <3> QED BY DEF LuaState
  <2> HIDE DEF L, tv
  <2> QED BY ONLY <1>2, <2>1, <2>2, Zenon
<1> HIDE DEF L
<1> QED BY ONLY <1>1, <1>3, Zenon DEF pushObject

\* Registry q has what r has, and in the table of that name v at key, a new one.
OneEntryMore(q, r, name, key, v) ==
    /\ DOMAIN q = DOMAIN r \cup {name}
    /\ key \in DOMAIN q[name] /\ q[name][key] = v
    /\ \A other \in DOMAIN r : other # name => q[other] = r[other]
    /\ name \in DOMAIN r =>
         \A k \in DOMAIN r[name] :
            k # key /\ k \in DOMAIN q[name] /\ q[name][k] = r[name][k]

(* An insertion after a border of the table leaves all other entries.      *)
LEMMA InsertedFacts ==
  ASSUME NEW r, NEW name, NEW n, NEW v, n + 1 \notin DOMAIN Having(r, name)[name]
  PROVE  OneEntryMore(Inserted(Having(r, name), name, n, v), r, name, n + 1, v)
<1> DEFINE h == Having(r, name)
           q == Inserted(h, name, n, v)
<1>1. /\ DOMAIN h = DOMAIN r \cup {name}
      /\ \A k \in DOMAIN r : h[k] = r[k]
  BY ONLY HavingFacts, Zenon
<1>2. /\ DOMAIN q = DOMAIN h /\ q[name] = WithEntry(h[name], n + 1, v)
      /\ \A k \in DOMAIN h : k # name => q[k] = h[k]
  <2> HIDE DEF h
  <2> QED BY <1>1 DEF Inserted
<1>3. /\ DOMAIN q[name] = DOMAIN h[name] \cup {n + 1}
      /\ q[name][n + 1] = v
      /\ \A k \in DOMAIN h[name] : k # n + 1 => q[name][k] = h[name][k]
  <2> DEFINE w == WithEntry(h[name], n + 1, v)
  <2>1. /\ DOMAIN w = DOMAIN h[name] \cup {n + 1} /\ w[n + 1] = v
        /\ \A k \in DOMAIN h[name] : k # n + 1 => w[k] = h[name][k]
    <3> DEFINE table == h[name]
               key == n + 1
    <3> HIDE DEF q, h, table, key
    <3>1. LET e == WithEntry(table, key, v)
          IN  /\ DOMAIN e = DOMAIN table \cup {key} /\ e[key] = v
              /\ \A k \in DOMAIN table : k # key => e[k] = table[k]
      BY DEF WithEntry
    <3> QED BY ONLY <3>1, Zenon DEF table, key
  <2>2. q[name] = w
    BY <1>2
  <2> HIDE DEF q, h, w
  <2> QED BY ONLY <2>1, <2>2
<1>4. name \in DOMAIN r => h[name] = r[name]
  BY <1>1
<1>5. n + 1 \notin DOMAIN h[name]
  OBVIOUS
<1> HIDE DEF q, h
<1>6. \A other \in DOMAIN r : other # name => q[other] = r[other]
  BY <1>1, <1>2
<1>7. name \in DOMAIN r =>
        \A k \in DOMAIN r[name] :
           k # n + 1 /\ k \in DOMAIN q[name] /\ q[name][k] = r[name][k]
  BY <1>3, <1>4, <1>5
<1>8. OneEntryMore(q, r, name, n + 1, v)
  BY <1>1, <1>2, <1>3, <1>6, <1>7 DEF OneEntryMore
<1> QED BY <1>8 DEF q, h

(* A free place of the table of that name.                                 *)
LEMMA Border ==
  ASSUME NEW name, StatesAreWellFormed,
         NEW n \in luaL_getn(lua_pushregistry(lua, name).registry[name])
  PROVE  n \in 0..MaxExports /\ n + 1 \notin DOMAIN Having(lua.registry, name)[name]
<1>1. lua_pushregistry(lua, name).registry = Having(lua.registry, name)
  <2> DEFINE L == LuaState(lua.stack, lua.registry, lua.fields, lua.meta, lua.box)
             x == Append(lua.stack, <<"table", name>>)
             y == Having(lua.registry, name)
  <2>1. lua_pushregistry(L, name) = LuaState(x, y, lua.fields, lua.meta, lua.box)
    BY PushRegistry
  <2>2. LuaState(x, y, lua.fields, lua.meta, lua.box).registry = y
    <3> HIDE DEF x, y
    <3> QED BY DEF LuaState
  <2>3. lua = L
    BY DEF StatesAreWellFormed
  <2> HIDE DEF L, x, y
  <2>4. lua_pushregistry(lua, name) = LuaState(x, y, lua.fields, lua.meta, lua.box)
    BY ONLY <2>1, <2>3, Zenon
  <2> QED BY ONLY <2>2, <2>4, Zenon DEF y
<1> QED BY <1>1 DEF luaL_getn

-----------------------------------------------------------------------------
(* The invariant holds at the start and is kept by every action.           *)

(* Nothing is exported, and Lua holds nothing.                             *)
LEMMA AccessBeginning == Init => AccessInv
<1> SUFFICES ASSUME Init PROVE AccessInv
  OBVIOUS
<1>1. /\ lua.stack = << >> /\ lua.registry = << >> /\ lua.fields = << >>
      /\ lua.meta = << >> /\ lua.box = << >> /\ exported = << >> /\ handed = {}
      /\ lua = LuaState(lua.stack, lua.registry, lua.fields, lua.meta, lua.box)
  BY DEF Init, EmptyLua, LuaState
<1>2. DOMAIN exported = {} /\ DOMAIN lua.registry = {} /\ DOMAIN lua.fields = {}
      /\ DOMAIN lua.meta = {} /\ DOMAIN lua.box = {}
  BY <1>1
<1>3. OwnEntry
  <2>1. classIndex \in [Class -> 0..MaxExports + 1]
    BY OilAccessAssumption DEF Init
  <2> QED BY <1>2, <2>1 DEF OwnEntry, AccessTypeOK
<1>4. StatesAreWellFormed
  BY <1>1 DEF StatesAreWellFormed
<1>5. LuaHoldsUserdata
  BY <1>1 DEF LuaHoldsUserdata
<1>6. ClassesAreRegistered
  BY <1>2 DEF ClassesAreRegistered, Init
<1>7. ObjectsHaveClasses
  BY <1>2 DEF ObjectsHaveClasses
<1> QED BY <1>3, <1>4, <1>5, <1>6, <1>7 DEF AccessInv, AccessCore

(* What the invariant says of an object that is exported.                  *)
LEMMA LiveObject ==
  ASSUME AccessCore, NEW u \in DOMAIN exported
  PROVE  /\ u \in Nat /\ u > 0 /\ u \in DOMAIN lua.box /\ u \in DOMAIN lua.meta
         /\ exported[u] \in ObjectRecord
         /\ OBJECT_REGISTRY \in DOMAIN lua.registry
         /\ ClassOf[exported[u].actualObject] \in Class
         /\ exported[u].alive =>
              /\ exported[u].registerIndex \in DOMAIN lua.registry[OBJECT_REGISTRY]
              /\ lua.registry[OBJECT_REGISTRY][exported[u].registerIndex] = <<"userdata", u>>
              /\ lua.box[u] = exported[u].actualObject
              /\ lua.meta[u] = <<"table", ClassOf[exported[u].actualObject]>>
<1>1. /\ exported \in Seq(ObjectRecord)
      /\ exported # << >> => OBJECT_REGISTRY \in DOMAIN lua.registry
  BY DEF AccessCore, StatesAreWellFormed
<1>2. u \in 1..Len(exported) /\ exported[u] \in ObjectRecord /\ exported # << >>
  BY <1>1
<1>3. exported[u].actualObject \in Actual
  BY <1>2 DEF ObjectRecord
<1>4. ClassOf[exported[u].actualObject] \in Class
  BY <1>3, OilAccessAssumption
<1>5. u \in DOMAIN lua.box /\ u \in DOMAIN lua.meta
  BY DEF AccessCore, OwnEntry, AccessTypeOK
<1>6. exported[u].alive =>
              /\ exported[u].registerIndex \in DOMAIN lua.registry[OBJECT_REGISTRY]
              /\ lua.registry[OBJECT_REGISTRY][exported[u].registerIndex] = <<"userdata", u>>
              /\ lua.box[u] = exported[u].actualObject
              /\ lua.meta[u] = <<"table", ClassOf[exported[u].actualObject]>>
  BY DEF AccessCore, OwnEntry, getObject
<1> QED BY <1>1, <1>2, <1>4, <1>5, <1>6

(* What a state is made of after lua' is known.                            *)
LEMMA NextState ==
  ASSUME NEW s, NEW r, NEW f, NEW m, NEW b, lua' = LuaState(s, r, f, m, b)
  PROVE  /\ lua'.stack = s /\ lua'.registry = r /\ lua'.fields = f /\ lua'.meta = m
         /\ lua'.box = b
         /\ (lua = LuaState(lua.stack, lua.registry, lua.fields, lua.meta, lua.box))'
BY DEF LuaState

(* new Exported<Actual>: the metatable gets a place of its own.            *)
LEMMA ClassKeeps ==
  ASSUME AccessCore, NEW c \in Class, NewExported(c)
  PROVE  AccessCore' /\ lua'.stack = lua.stack
<1> DEFINE s == lua.stack
           r == lua.registry
           f == lua.fields
           m == lua.meta
           b == lua.box
<1>1. /\ lua = LuaState(s, r, f, m, b) /\ s \in Seq(Value) /\ classIndex[c] = 0
      /\ exported' = exported /\ handed' = handed
  BY DEF AccessCore, StatesAreWellFormed, NewExported
<1>2. PICK n \in luaL_getn(
                 lua_pushregistry(lua, CLASS_REGISTRY).registry[CLASS_REGISTRY]) :
         /\ lua' = ExportedClass(lua, c, n)
         /\ classIndex' = [classIndex EXCEPT ![c] = n + 1]
  BY DEF NewExported
<1>3. n \in 0..MaxExports /\ n + 1 \notin DOMAIN Having(r, CLASS_REGISTRY)[CLASS_REGISTRY]
  BY Border DEF AccessCore
<1> DEFINE q == Inserted(Having(r, CLASS_REGISTRY), CLASS_REGISTRY, n, <<"table", c>>)
           g == WithEntry(f, c, Methods(c))
<1>4. lua' = LuaState(s, q, g, m, b)
  <2>1. ExportedClass(LuaState(s, r, f, m, b), c, n) = LuaState(s, q, g, m, b)
    BY <1>1, ClassExported
  <2> HIDE DEF s, r, f, m, b, q, g
  <2> QED BY ONLY <1>1, <1>2, <2>1, Zenon
<1>5. /\ lua'.stack = s /\ lua'.registry = q /\ lua'.fields = g /\ lua'.meta = m
      /\ lua'.box = b
      /\ (lua = LuaState(lua.stack, lua.registry, lua.fields, lua.meta, lua.box))'
  BY <1>4, NextState
<1>6. /\ DOMAIN q = DOMAIN r \cup {CLASS_REGISTRY}
      /\ n + 1 \in DOMAIN q[CLASS_REGISTRY]
      /\ q[CLASS_REGISTRY][n + 1] = <<"table", c>>
      /\ \A other \in DOMAIN r : other # CLASS_REGISTRY => q[other] = r[other]
      /\ CLASS_REGISTRY \in DOMAIN r =>
           \A k \in DOMAIN r[CLASS_REGISTRY] :
              /\ k # n + 1 /\ k \in DOMAIN q[CLASS_REGISTRY]
              /\ q[CLASS_REGISTRY][k] = r[CLASS_REGISTRY][k]
  <2>1. OneEntryMore(q, r, CLASS_REGISTRY, n + 1, <<"table", c>>)
    BY ONLY <1>3, InsertedFacts
  <2> HIDE DEF q, r
  <2> QED BY <2>1 DEF OneEntryMore
<1>7. /\ DOMAIN g = DOMAIN f \cup {c} /\ g[c] = Methods(c)
      /\ \A d \in DOMAIN f : d # c => g[d] = f[d]
  BY DEF WithEntry
<1>8. /\ classIndex \in [Class -> 0..MaxExports + 1] /\ MaxExports \in Nat
      /\ classIndex'[c] = n + 1 /\ \A d \in Class : d # c => classIndex'[d] = classIndex[d]
  BY <1>2, OilAccessAssumption DEF AccessCore, OwnEntry, AccessTypeOK
<1> HIDE DEF s, r, f, m, b, q, g
<1>9. AccessTypeOK'
  <2>1. classIndex' \in [Class -> 0..MaxExports + 1]
    BY <1>2, <1>3, <1>8
  <2>2. DOMAIN q \subseteq {CLASS_REGISTRY, OBJECT_REGISTRY}
    BY <1>6 DEF r, AccessCore, OwnEntry, AccessTypeOK
  <2>3. /\ DOMAIN b = DOMAIN exported /\ DOMAIN m = DOMAIN exported
        /\ \A u \in DOMAIN exported : getObject(exported[u]) \in Actual
    BY DEF m, b, AccessCore, OwnEntry, AccessTypeOK
  <2>4. \A u \in DOMAIN exported' : getObject(exported'[u]) \in Actual
    BY <1>1, <2>3
  <2> QED BY <1>1, <1>5, <2>1, <2>2, <2>3, <2>4 DEF AccessTypeOK, getObject
<1>10. OwnEntry'
  <2>1. \A u \in DOMAIN exported :
           exported[u].alive =>
              /\ exported[u].registerIndex \in DOMAIN q[OBJECT_REGISTRY]
              /\ q[OBJECT_REGISTRY][exported[u].registerIndex] = <<"userdata", u>>
              /\ b[u] = exported[u].actualObject
              /\ m[u] = <<"table", ClassOf[exported[u].actualObject]>>
    <3> SUFFICES ASSUME NEW u \in DOMAIN exported, exported[u].alive
                 PROVE  /\ exported[u].registerIndex \in DOMAIN q[OBJECT_REGISTRY]
                        /\ q[OBJECT_REGISTRY][exported[u].registerIndex] = <<"userdata", u>>
                        /\ b[u] = exported[u].actualObject
                        /\ m[u] = <<"table", ClassOf[exported[u].actualObject]>>
      OBVIOUS
    <3>1. q[OBJECT_REGISTRY] = r[OBJECT_REGISTRY]
      BY <1>6, LiveObject, NamesDiffer DEF r
    <3> QED BY <3>1, LiveObject DEF r, m, b
  <2> QED BY <1>1, <1>5, <1>9, <2>1 DEF OwnEntry, getObject
<1>11. StatesAreWellFormed'
  <2>1. /\ exported \in Seq(ObjectRecord)
        /\ exported # << >> => OBJECT_REGISTRY \in DOMAIN r
    BY DEF AccessCore, StatesAreWellFormed, r
  <2>2. exported # << >> => OBJECT_REGISTRY \in DOMAIN q
    BY <1>6, <2>1
  <2> QED BY <1>1, <1>5, <2>1, <2>2 DEF StatesAreWellFormed
<1>12. lua'.stack = lua.stack
  BY <1>5 DEF s
<1>13. ClassesAreRegistered'
  <2>1. /\ \A d \in Class :
             classIndex[d] > 0 =>
                 /\ CLASS_REGISTRY \in DOMAIN r
                 /\ classIndex[d] \in DOMAIN r[CLASS_REGISTRY]
                 /\ r[CLASS_REGISTRY][classIndex[d]] = <<"table", d>>
                 /\ d \in DOMAIN f
        /\ \A d \in DOMAIN f : f[d] = Methods(d)
    BY DEF AccessCore, ClassesAreRegistered, Methods, r, f
  <2>2. ASSUME NEW d \in Class, classIndex'[d] > 0
        PROVE  /\ CLASS_REGISTRY \in DOMAIN q
               /\ classIndex'[d] \in DOMAIN q[CLASS_REGISTRY]
               /\ q[CLASS_REGISTRY][classIndex'[d]] = <<"table", d>>
               /\ d \in DOMAIN g
    <3>1. CASE d = c
      BY <1>6, <1>7, <1>8, <3>1
    <3>2. CASE d # c
      BY <1>6, <1>7, <1>8, <2>1, <2>2, <3>2
    <3> QED BY <3>1, <3>2
  <2>3. \A d \in DOMAIN g : g[d] = Methods(d)
    BY <1>7, <2>1
  <2> QED BY <1>5, <2>2, <2>3 DEF ClassesAreRegistered, Methods
<1>14. ObjectsHaveClasses'
  <2>1. \A u \in DOMAIN exported :
           /\ classIndex'[ClassOf[exported[u].actualObject]] > 0
           /\ ~exported[u].alive => m[u] = Nil
    <3> SUFFICES ASSUME NEW u \in DOMAIN exported
                 PROVE  /\ classIndex'[ClassOf[exported[u].actualObject]] > 0
                        /\ ~exported[u].alive => m[u] = Nil
      OBVIOUS
    <3>1. ClassOf[exported[u].actualObject] \in Class
      BY LiveObject
    <3>2. /\ classIndex[ClassOf[exported[u].actualObject]] > 0
          /\ ~exported[u].alive => m[u] = Nil
      BY DEF AccessCore, ObjectsHaveClasses, getObject, m
    <3> QED BY <1>3, <1>8, <3>1, <3>2
  <2> QED BY <1>1, <1>5, <2>1 DEF ObjectsHaveClasses, getObject
<1> QED BY <1>10, <1>11, <1>12, <1>13, <1>14 DEF AccessCore

(* newObject: the box gets a place of its own and the class's metatable.   *)
LEMMA ObjectKeeps ==
  ASSUME AccessCore, NEW a \in Actual, newObject(a)
  PROVE  AccessCore' /\ lua'.stack = lua.stack
<1> DEFINE s == lua.stack
           r == lua.registry
           f == lua.fields
           m == lua.meta
           b == lua.box
           c == ClassOf[a]
           w == Len(exported) + 1
<1>1. /\ lua = LuaState(s, r, f, m, b) /\ s \in Seq(Value)
      /\ classIndex' = classIndex /\ handed' = handed
      /\ exported \in Seq(ObjectRecord)
  BY DEF AccessCore, StatesAreWellFormed, newObject
<1>2. PICK n \in luaL_getn(
                 lua_pushregistry(lua, OBJECT_REGISTRY).registry[OBJECT_REGISTRY]) :
         /\ lua' = registerObject(lua, w, a, classIndex[c], n)
         /\ exported' = Append(exported, ExportedObject(a, n + 1))
  BY DEF newObject
<1>3. n \in 0..MaxExports /\ n + 1 \notin DOMAIN Having(r, OBJECT_REGISTRY)[OBJECT_REGISTRY]
  BY Border DEF AccessCore
<1>4. /\ c \in Class /\ w \in Nat /\ n + 1 \in Nat
      /\ classIndex[c] > 0
      /\ CLASS_REGISTRY \in DOMAIN r /\ classIndex[c] \in DOMAIN r[CLASS_REGISTRY]
      /\ r[CLASS_REGISTRY][classIndex[c]] = <<"table", c>>
  <2>1. c \in Class
    BY OilAccessAssumption
  <2>2. classIndex[c] > 0
    BY DEF newObject
  <2> QED BY <1>1, <1>3, <2>1, <2>2, OilAccessAssumption DEF AccessCore, ClassesAreRegistered
<1> DEFINE q == Inserted(Having(r, OBJECT_REGISTRY), OBJECT_REGISTRY, n, <<"userdata", w>>)
           y == WithEntry(m, w, <<"table", c>>)
           x == WithEntry(b, w, a)
<1>5. lua' = LuaState(s, q, f, y, x)
  <2>1. registerObject(LuaState(s, r, f, m, b), w, a, classIndex[c], n) =
           LuaState(s, q, f, y, x)
    <3> DEFINE i == classIndex[c]
    <3>1. /\ s \in Seq(Value) /\ c \in Class /\ w \in Nat
          /\ CLASS_REGISTRY \in DOMAIN r /\ i \in DOMAIN r[CLASS_REGISTRY]
          /\ r[CLASS_REGISTRY][i] = <<"table", c>>
      BY <1>1, <1>4
    <3> HIDE DEF s, r, f, m, b, c, w, i
    <3>2. registerObject(LuaState(s, r, f, m, b), w, a, i, n) = LuaState(s, q, f, y, x)
      BY ONLY <3>1, ObjectRegistered
    <3> QED BY <3>2 DEF i
  <2> HIDE DEF s, r, f, m, b, q, y, x, w, c
  <2> QED BY ONLY <1>1, <1>2, <2>1, Zenon
<1>6. /\ lua'.stack = s /\ lua'.registry = q /\ lua'.fields = f /\ lua'.meta = y
      /\ lua'.box = x
      /\ (lua = LuaState(lua.stack, lua.registry, lua.fields, lua.meta, lua.box))'
  BY <1>5, NextState
<1>7. /\ DOMAIN q = DOMAIN r \cup {OBJECT_REGISTRY}
      /\ n + 1 \in DOMAIN q[OBJECT_REGISTRY]
      /\ q[OBJECT_REGISTRY][n + 1] = <<"userdata", w>>
      /\ \A other \in DOMAIN r : other # OBJECT_REGISTRY => q[other] = r[other]
      /\ OBJECT_REGISTRY \in DOMAIN r =>
           \A k \in DOMAIN r[OBJECT_REGISTRY] :
              /\ k # n + 1 /\ k \in DOMAIN q[OBJECT_REGISTRY]
              /\ q[OBJECT_REGISTRY][k] = r[OBJECT_REGISTRY][k]
  <2>1. OneEntryMore(q, r, OBJECT_REGISTRY, n + 1, <<"userdata", w>>)
    BY ONLY <1>3, InsertedFacts
  <2> HIDE DEF q, r, w
  <2> QED BY <2>1 DEF OneEntryMore
<1>8. /\ DOMAIN y = DOMAIN m \cup {w} /\ y[w] = <<"table", c>>
      /\ \A u \in DOMAIN m : u # w => y[u] = m[u]
  <2> HIDE DEF w, c, m
  <2> QED BY DEF WithEntry
<1>9. /\ DOMAIN x = DOMAIN b \cup {w} /\ x[w] = a
      /\ \A u \in DOMAIN b : u # w => x[u] = b[u]
  <2> HIDE DEF w, b
  <2> QED BY DEF WithEntry
<1>10. /\ exported' \in Seq(ObjectRecord)
       /\ DOMAIN exported' = DOMAIN exported \cup {w} /\ w \notin DOMAIN exported
       /\ \A u \in DOMAIN exported : exported'[u] = exported[u]
       /\ exported'[w] = [actualObject |-> a, registerIndex |-> n + 1, alive |-> TRUE]
  <2>1. ExportedObject(a, n + 1) \in ObjectRecord
    BY <1>4 DEF ExportedObject, ObjectRecord
  <2> QED BY <1>1, <1>2, <2>1 DEF ExportedObject
<1> HIDE DEF s, r, f, m, b, q, y, x, w, c
<1>11. AccessTypeOK'
  <2>1. classIndex' \in [Class -> 0..MaxExports + 1]
    BY <1>1 DEF AccessCore, OwnEntry, AccessTypeOK
  <2>2. DOMAIN q \subseteq {CLASS_REGISTRY, OBJECT_REGISTRY}
    BY <1>7 DEF r, AccessCore, OwnEntry, AccessTypeOK
  <2>3. DOMAIN x = DOMAIN exported' /\ DOMAIN y = DOMAIN exported'
    BY <1>8, <1>9, <1>10 DEF m, b, AccessCore, OwnEntry, AccessTypeOK
  <2>4. \A u \in DOMAIN exported' : exported'[u].actualObject \in Actual
    <3>1. \A u \in DOMAIN exported' : exported'[u] \in ObjectRecord
      BY <1>10
    <3> QED BY <3>1 DEF ObjectRecord
  <2> QED BY <1>6, <2>1, <2>2, <2>3, <2>4 DEF AccessTypeOK, getObject
<1>12. OwnEntry'
  <2>1. ASSUME NEW u \in DOMAIN exported', exported'[u].alive
        PROVE  /\ exported'[u].registerIndex \in DOMAIN q[OBJECT_REGISTRY]
               /\ q[OBJECT_REGISTRY][exported'[u].registerIndex] = <<"userdata", u>>
               /\ x[u] = exported'[u].actualObject
               /\ y[u] = <<"table", ClassOf[exported'[u].actualObject]>>
    <3>1. CASE u = w
      BY <1>7, <1>8, <1>9, <1>10, <3>1 DEF c
    <3>2. CASE u # w
      <4>1. u \in DOMAIN exported /\ exported'[u] = exported[u] /\ exported[u].alive
        BY <1>10, <2>1, <3>2
      <4>2. /\ u \in DOMAIN b /\ u \in DOMAIN m /\ OBJECT_REGISTRY \in DOMAIN r
            /\ exported[u].registerIndex \in DOMAIN r[OBJECT_REGISTRY]
            /\ r[OBJECT_REGISTRY][exported[u].registerIndex] = <<"userdata", u>>
            /\ b[u] = exported[u].actualObject
            /\ m[u] = <<"table", ClassOf[exported[u].actualObject]>>
        BY <4>1, LiveObject DEF r, m, b
      <4> QED BY <1>7, <1>8, <1>9, <3>2, <4>1, <4>2
    <3> QED BY <3>1, <3>2
  <2> QED BY <1>6, <1>11, <2>1 DEF OwnEntry, getObject
<1>13. StatesAreWellFormed'
  <2>1. OBJECT_REGISTRY \in DOMAIN q
    BY <1>7
  <2> QED BY <1>1, <1>6, <1>10, <2>1 DEF StatesAreWellFormed
<1>14. lua'.stack = lua.stack
  BY <1>6 DEF s
<1>15. ClassesAreRegistered'
  <2>1. CLASS_REGISTRY \in DOMAIN q /\ q[CLASS_REGISTRY] = r[CLASS_REGISTRY]
    BY <1>4, <1>7, NamesDiffer
  <2> QED BY <1>1, <1>6, <2>1 DEF ClassesAreRegistered, AccessCore, r, f
<1>16. ObjectsHaveClasses'
  <2>1. ASSUME NEW u \in DOMAIN exported'
        PROVE  /\ classIndex[ClassOf[exported'[u].actualObject]] > 0
               /\ ~exported'[u].alive => y[u] = Nil
    <3>1. CASE u = w
      BY <1>4, <1>10, <3>1 DEF c
    <3>2. CASE u # w
      <4>1. u \in DOMAIN exported /\ exported'[u] = exported[u] /\ u \in DOMAIN m
        BY <1>10, <3>2, LiveObject DEF m
      <4>2. /\ classIndex[ClassOf[exported[u].actualObject]] > 0
            /\ ~exported[u].alive => m[u] = Nil
        BY <4>1 DEF AccessCore, ObjectsHaveClasses, getObject, m
      <4> QED BY <1>8, <3>2, <4>1, <4>2
    <3> QED BY <3>1, <3>2
  <2> QED BY <1>1, <1>6, <2>1 DEF ObjectsHaveClasses, getObject
<1> QED BY <1>12, <1>13, <1>14, <1>15, <1>16 DEF AccessCore

(* The destructor: no other object is at the place that is given up.       *)
LEMMA DeleteKeeps ==
  ASSUME AccessCore, NEW u \in DOMAIN exported, DeleteObject(u)
  PROVE  AccessCore' /\ lua'.stack = lua.stack
<1> DEFINE s == lua.stack
           r == lua.registry
           f == lua.fields
           m == lua.meta
           b == lua.box
           n == exported[u].registerIndex
           q == Removed(r, OBJECT_REGISTRY, n)
           y == Bared(m, u)
<1>1. /\ lua = LuaState(s, r, f, m, b) /\ s \in Seq(Value)
      /\ classIndex' = classIndex /\ handed' = handed
      /\ exported \in Seq(ObjectRecord) /\ exported[u].alive
      /\ lua' = unregisterObject(lua, n)
      /\ exported' = [exported EXCEPT ![u].alive = FALSE]
  BY DEF AccessCore, StatesAreWellFormed, DeleteObject
<1>2. /\ u \in Nat /\ OBJECT_REGISTRY \in DOMAIN r /\ n \in DOMAIN r[OBJECT_REGISTRY]
      /\ r[OBJECT_REGISTRY][n] = <<"userdata", u>> /\ u \in DOMAIN m
  BY <1>1, LiveObject
<1>3. lua' = LuaState(s, q, f, y, b)
  <2>1. unregisterObject(LuaState(s, r, f, m, b), n) = LuaState(s, q, f, y, b)
    <3> HIDE DEF s, r, f, m, b, n
    <3> QED BY ONLY <1>1, <1>2, ObjectUnregistered
  <2> HIDE DEF s, r, f, m, b, q, y, n
  <2> QED BY ONLY <1>1, <2>1, Zenon
<1>4. /\ lua'.stack = s /\ lua'.registry = q /\ lua'.fields = f /\ lua'.meta = y
      /\ lua'.box = b
      /\ (lua = LuaState(lua.stack, lua.registry, lua.fields, lua.meta, lua.box))'
  BY <1>3, NextState
<1>5. /\ DOMAIN q = DOMAIN r
      /\ \A other \in DOMAIN r : other # OBJECT_REGISTRY => q[other] = r[other]
      /\ \A k \in DOMAIN r[OBJECT_REGISTRY] :
            k # n => /\ k \in DOMAIN q[OBJECT_REGISTRY]
                     /\ q[OBJECT_REGISTRY][k] = r[OBJECT_REGISTRY][k]
  <2> HIDE DEF r, n
  <2> QED BY <1>2 DEF Removed
<1>6. DOMAIN y = DOMAIN m /\ y[u] = Nil /\ \A v \in DOMAIN m : v # u => y[v] = m[v]
  <2> HIDE DEF m
  <2> QED BY <1>2 DEF Bared
<1>7. /\ exported' \in Seq(ObjectRecord) /\ DOMAIN exported' = DOMAIN exported
      /\ \A v \in DOMAIN exported :
            /\ exported'[v].actualObject = exported[v].actualObject
            /\ v # u => exported'[v] = exported[v]
      /\ ~exported'[u].alive
  <2>1. exported[u] \in ObjectRecord /\ [exported[u] EXCEPT !.alive = FALSE] \in ObjectRecord
    <3> DEFINE o == exported[u]
    <3>1. o \in ObjectRecord
      BY LiveObject
    <3> HIDE DEF o
    <3>2. [o EXCEPT !.alive = FALSE] \in ObjectRecord
      BY <3>1 DEF ObjectRecord
    <3> QED BY <3>1, <3>2 DEF o
  <2>2. exported' \in Seq(ObjectRecord)
    BY <1>1, <2>1
  <2>3. exported'[u] = [exported[u] EXCEPT !.alive = FALSE]
    BY <1>1
  <2>4. /\ DOMAIN exported' = DOMAIN exported
        /\ \A v \in DOMAIN exported : v # u => exported'[v] = exported[v]
    BY <1>1
  <2>5. exported'[u].actualObject = exported[u].actualObject /\ ~exported'[u].alive
    BY <2>1, <2>3 DEF ObjectRecord
  <2> QED BY <2>2, <2>4, <2>5
<1> HIDE DEF s, r, f, m, b, q, y, n
<1>8. AccessTypeOK'
  <2>1. /\ classIndex \in [Class -> 0..MaxExports + 1]
        /\ \A v \in DOMAIN exported : exported[v].actualObject \in Actual
        /\ DOMAIN r \subseteq {CLASS_REGISTRY, OBJECT_REGISTRY}
        /\ DOMAIN b = DOMAIN exported /\ DOMAIN m = DOMAIN exported
    BY DEF AccessCore, OwnEntry, AccessTypeOK, getObject, r, m, b
  <2> QED BY <1>1, <1>4, <1>5, <1>6, <1>7, <2>1 DEF AccessTypeOK, getObject
<1>9. OwnEntry'
  <2>1. ASSUME NEW v \in DOMAIN exported', exported'[v].alive
        PROVE  /\ exported'[v].registerIndex \in DOMAIN q[OBJECT_REGISTRY]
               /\ q[OBJECT_REGISTRY][exported'[v].registerIndex] = <<"userdata", v>>
               /\ b[v] = exported'[v].actualObject
               /\ y[v] = <<"table", ClassOf[exported'[v].actualObject]>>
    <3>1. v # u
      BY <1>7, <2>1
    <3>2. v \in DOMAIN exported /\ exported'[v] = exported[v] /\ exported[v].alive
      BY <1>7, <2>1, <3>1
    <3>3. /\ v \in DOMAIN m
          /\ exported[v].registerIndex \in DOMAIN r[OBJECT_REGISTRY]
          /\ r[OBJECT_REGISTRY][exported[v].registerIndex] = <<"userdata", v>>
          /\ b[v] = exported[v].actualObject
          /\ m[v] = <<"table", ClassOf[exported[v].actualObject]>>
      BY <3>2, LiveObject DEF r, m, b
    <3>4. exported[v].registerIndex # n
      BY <1>2, <3>1, <3>3
    <3> QED BY <1>5, <1>6, <3>1, <3>2, <3>3, <3>4
  <2> QED BY <1>4, <1>8, <2>1 DEF OwnEntry, getObject
<1>10. StatesAreWellFormed'
  BY <1>1, <1>2, <1>4, <1>5, <1>7 DEF StatesAreWellFormed
<1>11. lua'.stack = lua.stack
  BY <1>4 DEF s
<1>12. ClassesAreRegistered'
  <2>1. CLASS_REGISTRY \in DOMAIN r =>
          CLASS_REGISTRY \in DOMAIN q /\ q[CLASS_REGISTRY] = r[CLASS_REGISTRY]
    BY <1>5, NamesDiffer
  <2> QED BY <1>1, <1>4, <2>1 DEF ClassesAreRegistered, AccessCore, r, f
<1>13. ObjectsHaveClasses'
  <2>1. ASSUME NEW v \in DOMAIN exported'
        PROVE  /\ classIndex[ClassOf[exported'[v].actualObject]] > 0
               /\ ~exported'[v].alive => y[v] = Nil
    <3>1. /\ v \in DOMAIN exported /\ v \in DOMAIN m
          /\ exported'[v].actualObject = exported[v].actualObject
      BY <1>7, LiveObject DEF m
    <3>2. /\ classIndex[ClassOf[exported[v].actualObject]] > 0
          /\ ~exported[v].alive => m[v] = Nil
      BY <3>1 DEF AccessCore, ObjectsHaveClasses, getObject, m
    <3>3. ~exported'[v].alive => y[v] = Nil
      BY <1>6, <1>7, <3>1, <3>2
    <3> QED BY <3>1, <3>2, <3>3
  <2> QED BY <1>1, <1>4, <2>1 DEF ObjectsHaveClasses, getObject
<1> QED BY <1>9, <1>10, <1>11, <1>12, <1>13 DEF AccessCore

(* A step that changes nothing but the stack and what Lua keeps.           *)
LEMMA StackKeeps ==
  ASSUME AccessCore, NEW s, lua' = LuaState(s, lua.registry, lua.fields, lua.meta, lua.box),
         s \in Seq(Value), UNCHANGED <<classIndex, exported>>
  PROVE  AccessCore' /\ lua'.stack = s
<1>1. /\ lua'.stack = s /\ lua'.registry = lua.registry /\ lua'.fields = lua.fields
      /\ lua'.meta = lua.meta /\ lua'.box = lua.box
      /\ (lua = LuaState(lua.stack, lua.registry, lua.fields, lua.meta, lua.box))'
      /\ classIndex' = classIndex /\ exported' = exported
  BY NextState
<1>2. OwnEntry'
  BY <1>1 DEF AccessCore, OwnEntry, AccessTypeOK, getObject
<1>3. StatesAreWellFormed'
  BY <1>1 DEF AccessCore, StatesAreWellFormed
<1>5. ClassesAreRegistered'
  BY <1>1 DEF AccessCore, ClassesAreRegistered
<1>6. ObjectsHaveClasses'
  BY <1>1 DEF AccessCore, ObjectsHaveClasses, getObject
<1> QED BY <1>1, <1>2, <1>3, <1>5, <1>6 DEF AccessCore

(* pushOnStack: Lua is given the box of the object.                        *)
LEMMA PushKeeps ==
  ASSUME AccessInv, NEW u \in DOMAIN exported, pushOnStack(u)
  PROVE  AccessInv'
<1> DEFINE s == lua.stack
           n == exported[u].registerIndex
           v == <<"userdata", u>>
<1>1. /\ lua = LuaState(s, lua.registry, lua.fields, lua.meta, lua.box)
      /\ s = << >> /\ s \in Seq(Value) /\ exported[u].alive
      /\ lua' = pushObject(lua, n) /\ handed' = handed /\ handed \subseteq Userdata
      /\ UNCHANGED <<classIndex, exported>>
  BY DEF AccessInv, AccessCore, StatesAreWellFormed, LuaHoldsUserdata, pushOnStack
<1>2. /\ OBJECT_REGISTRY \in DOMAIN lua.registry
      /\ n \in DOMAIN lua.registry[OBJECT_REGISTRY]
      /\ lua.registry[OBJECT_REGISTRY][n] = v /\ u \in Nat
  BY <1>1, LiveObject DEF AccessInv
<1>3. v \in Value /\ v \in Userdata
  BY <1>2, Values DEF Userdata
<1>4. lua' = LuaState(Append(s, v), lua.registry, lua.fields, lua.meta, lua.box)
  <2> DEFINE L == LuaState(s, lua.registry, lua.fields, lua.meta, lua.box)
  <2>1. pushObject(L, n) =
           LuaState(Append(s, v), lua.registry, lua.fields, lua.meta, lua.box)
    <3> DEFINE r == lua.registry
               f == lua.fields
               m == lua.meta
               b == lua.box
    <3>1. /\ s \in Seq(Value) /\ v \in Value
          /\ OBJECT_REGISTRY \in DOMAIN r /\ n \in DOMAIN r[OBJECT_REGISTRY]
          /\ r[OBJECT_REGISTRY][n] = v
      BY <1>1, <1>2, <1>3
    <3> HIDE DEF s, v, n, r, f, m, b
    <3>2. pushObject(LuaState(s, r, f, m, b), n) = LuaState(Append(s, v), r, f, m, b)
      BY ONLY <3>1, ObjectPushed
    <3> QED BY <3>2 DEF r, f, m, b
  <2>2. lua = L
    BY <1>1
  <2> HIDE DEF L, n, s, v
  <2> QED BY ONLY <1>1, <2>1, <2>2, Zenon
<1>5. Append(s, v) \in Seq(Value) /\ \A i \in 1..Len(Append(s, v)) : Append(s, v)[i] \in Userdata
  <2> HIDE DEF v
  <2> QED BY <1>1, <1>3
<1> HIDE DEF s, v
<1>6. AccessCore' /\ lua'.stack = Append(s, v)
  BY <1>1, <1>4, <1>5, StackKeeps DEF AccessInv
<1> QED BY <1>1, <1>5, <1>6 DEF AccessInv, LuaHoldsUserdata, Userdata

(* Lua code takes what is on the stack, which is a box.                    *)
LEMMA TakesKeeps ==
  ASSUME AccessInv, LuaTakes
  PROVE  AccessInv'
<1> DEFINE s == lua.stack
           t == lua_pop(s, 1)
<1>1. /\ lua = LuaState(s, lua.registry, lua.fields, lua.meta, lua.box)
      /\ s # << >> /\ s \in Seq(Value)
      /\ \A i \in 1..Len(s) : s[i] \in Userdata
      /\ lua' = Popped(lua, 1) /\ handed \subseteq Userdata
      /\ handed' = handed \cup {ValueAt(s, -1)}
      /\ UNCHANGED <<classIndex, exported>>
  BY DEF AccessInv, AccessCore, StatesAreWellFormed, LuaHoldsUserdata, LuaTakes
<1>2. lua' = LuaState(t, lua.registry, lua.fields, lua.meta, lua.box)
  <2> DEFINE L == LuaState(s, lua.registry, lua.fields, lua.meta, lua.box)
  <2>1. L.stack = s
    BY DEF LuaState
  <2>2. [L EXCEPT !.stack = t] = LuaState(t, lua.registry, lua.fields, lua.meta, lua.box)
    <3> HIDE DEF s, t
    <3> QED BY DEF LuaState
  <2>3. Popped(L, 1) = [L EXCEPT !.stack = t]
    <3> HIDE DEF L, s
    <3> QED BY ONLY <2>1, Zenon DEF Popped
  <2>4. lua = L
    BY <1>1
  <2> HIDE DEF L, s, t
  <2> QED BY ONLY <1>1, <2>2, <2>3, <2>4, Zenon
<1>3. Len(s) \in Nat /\ Len(s) > 0
  BY <1>1
<1>4. t \in Seq(Value) /\ \A i \in 1..Len(t) : t[i] \in Userdata
  <2> HIDE DEF s
  <2> QED BY <1>1, <1>3 DEF lua_pop
<1>5. ValueAt(s, -1) \in Userdata
  <2> HIDE DEF s
  <2> QED BY <1>1, <1>3 DEF ValueAt, AbsIndex
<1> HIDE DEF s, t
<1>6. AccessCore' /\ lua'.stack = t
  BY <1>1, <1>2, <1>4, StackKeeps DEF AccessInv
<1> QED BY <1>1, <1>4, <1>5, <1>6 DEF AccessInv, LuaHoldsUserdata, Userdata

(* What Lua holds stays that, where neither the stack changes nor an object *)
(* is forgotten.                                                           *)
LEMMA UserdataKept ==
  ASSUME LuaHoldsUserdata, lua'.stack = lua.stack, handed' = handed,
         DOMAIN exported \subseteq DOMAIN exported'
  PROVE  LuaHoldsUserdata'
BY DEF LuaHoldsUserdata, Userdata

(* A step that changes neither the state of Lua nor the objects.           *)
LEMMA CoreKept ==
  ASSUME AccessCore, UNCHANGED <<lua, classIndex, exported>>
  PROVE  AccessCore'
BY DEF AccessCore, OwnEntry, AccessTypeOK, StatesAreWellFormed, ClassesAreRegistered,
       ObjectsHaveClasses, getObject

(* One step per action.                                                    *)
LEMMA AccessStep == AccessInv /\ [Next]_accessVars => AccessInv'
<1> SUFFICES ASSUME AccessInv, [Next]_accessVars PROVE AccessInv'
  OBVIOUS
<1>1. ASSUME NEW c \in Class, NewExported(c) PROVE AccessInv'
  <2>1. AccessCore' /\ lua'.stack = lua.stack
    BY <1>1, ClassKeeps DEF AccessInv
  <2>2. handed' = handed /\ exported' = exported
    BY <1>1 DEF NewExported
  <2> QED BY <2>1, <2>2, UserdataKept DEF AccessInv
<1>2. ASSUME NEW a \in Actual, newObject(a) PROVE AccessInv'
  <2>1. AccessCore' /\ lua'.stack = lua.stack
    BY <1>2, ObjectKeeps DEF AccessInv
  <2>2. exported \in Seq(ObjectRecord) /\ exported' \in Seq(ObjectRecord)
    BY <2>1 DEF AccessInv, AccessCore, StatesAreWellFormed
  <2>3. handed' = handed /\ \E object : exported' = Append(exported, object)
    BY <1>2 DEF newObject
  <2>4. DOMAIN exported \subseteq DOMAIN exported'
    BY <2>2, <2>3
  <2> QED BY <2>1, <2>3, <2>4, UserdataKept DEF AccessInv
<1>3. ASSUME NEW u \in DOMAIN exported, DeleteObject(u) PROVE AccessInv'
  <2>1. AccessCore' /\ lua'.stack = lua.stack
    BY <1>3, DeleteKeeps DEF AccessInv
  <2>2. handed' = handed /\ DOMAIN exported' = DOMAIN exported
    BY <1>3 DEF DeleteObject
  <2> QED BY <2>1, <2>2, UserdataKept DEF AccessInv
<1>4. ASSUME NEW u \in DOMAIN exported, pushOnStack(u) PROVE AccessInv'
  BY <1>4, PushKeeps
<1>5. CASE LuaTakes
  BY <1>5, TakesKeeps
<1>6. ASSUME UNCHANGED <<lua, classIndex, exported, handed>> PROVE AccessInv'
  BY <1>6, CoreKept, UserdataKept DEF AccessInv
<1>7. ASSUME NEW value, NEW m, NEW argument, MethodCall(value, m, argument) PROVE AccessInv'
  BY <1>6, <1>7 DEF MethodCall
<1>8. CASE UNCHANGED accessVars
  BY <1>6, <1>8 DEF accessVars
<1> QED BY <1>1, <1>2, <1>3, <1>4, <1>5, <1>7, <1>8 DEF Next

(* The invariant holds in every state.                                     *)
LEMMA AccessInvariance == Spec => []AccessInv
BY AccessBeginning, AccessStep, PTL DEF Spec

(***************************************************************************)
(* However objects are exported and deleted, one that is exported is found *)
(* where its ExportedObject says, as a box with that very object in it and *)
(* with the methods of its class (registerObject, unregisterObject).       *)
(***************************************************************************)
THEOREM EntriesStayInPlace == Spec => []OwnEntry
<1>1. AccessInv => OwnEntry
  BY DEF AccessInv, AccessCore
<1> QED BY <1>1, AccessInvariance, PTL

-----------------------------------------------------------------------------
(* Of two values, the first is removed: the second is left.                *)
LEMMA FirstRemoved ==
  ASSUME NEW value, NEW argument
  PROVE  lua_remove(<<value, argument>>, 1) = <<argument>>
<1> DEFINE frame == <<value, argument>>
<1>1. frame \in Seq({value, argument}) /\ Len(frame) = 2 /\ frame[2] = argument
  OBVIOUS
<1> HIDE DEF frame
<1>2. lua_remove(frame, 1) = SubSeq(frame, 1, 0) \o SubSeq(frame, 2, 2)
  BY <1>1 DEF lua_remove, AbsIndex
<1>3. SubSeq(frame, 1, 0) = << >>
  BY <1>1
<1> DEFINE q == SubSeq(frame, 2, 2)
<1>4. q \in Seq({value, argument}) /\ Len(q) = 1 /\ q[1] = argument
  BY <1>1, SubSeqProperties
<1>5. q = <<argument>> /\ << >> \o q = q
  <2> HIDE DEF q
  <2> QED BY <1>4
<1> QED BY ONLY <1>2, <1>3, <1>5, Zenon DEF frame

(* A call takes the method of the object's class, the object in the box,   *)
(* and hands over the argument and nothing else.                           *)
LEMMA CallReaches ==
  ASSUME AccessInv, NEW value \in handed, NEW m, NEW argument,
         MethodCall(value, m, argument)
  PROVE  LET u == call'.userdata
             a == getObject(exported[u])
         IN  /\ exported[u].alive
             /\ call'.done = [ok |-> TRUE, method |-> <<ClassOf[a], call'.method>>,
                              object |-> a, args |-> <<call'.argument>>]
<1>1. PICK u \in DOMAIN exported : value = <<"userdata", u>>
  BY DEF AccessInv, LuaHoldsUserdata, Userdata
<1> DEFINE a == exported[u].actualObject
           c == ClassOf[a]
<1>2. /\ exported[u].alive
      /\ lua.meta[u] = <<"table", c>> /\ lua.box[u] = a
      /\ c \in DOMAIN lua.fields
      /\ lua.fields[c] = Methods(c)
  <2>1. lua.meta[u] # Nil
    BY <1>1 DEF MethodCall
  <2>2. classIndex[c] > 0 /\ exported[u].alive
    BY <2>1, LiveObject DEF AccessInv, AccessCore, ObjectsHaveClasses, getObject,
                           ObjectRecord
  <2>3. c \in Class /\ lua.meta[u] = <<"table", c>> /\ lua.box[u] = a
    BY <2>2, LiveObject DEF AccessInv
  <2> QED BY <2>2, <2>3 DEF AccessInv, AccessCore, ClassesAreRegistered, Methods
<1>3. /\ m \in Method[c] /\ lua.fields[lua.meta[value[2]][2]] = Methods(c)
      /\ Methods(c)[m] = [upvalue |-> <<"userdata", [box |-> <<c, m>>]>>]
  <2>1. value[2] = u /\ lua.meta[value[2]][2] = c
    BY <1>1, <1>2
  <2>2. lua.fields[lua.meta[value[2]][2]] = Methods(c)
    BY <1>2, <2>1
  <2>3. m \in DOMAIN Methods(c)
    BY <2>2 DEF MethodCall
  <2> QED BY <2>2, <2>3 DEF Methods, lua_boxmember
<1> DEFINE closure == Methods(c)[m]
           frame == <<value, argument>>
<1>4. call' = [userdata |-> u, method |-> m, argument |-> argument,
               done |-> lua_wrapper(lua, frame, closure)]
  BY <1>1, <1>3 DEF MethodCall
<1>5. lua_type(frame, 1) = "userdata" /\ ValueAt(frame, 1) = value
  BY <1>1 DEF lua_type, Valid, ValueAt, AbsIndex
<1>6. lua_unboxmember(closure.upvalue) = <<c, m>>
  BY <1>3 DEF lua_unboxmember
<1>7. lua_unboxobject(lua, frame, 1) = a
  BY <1>1, <1>2, <1>5 DEF lua_unboxobject
<1>8. lua_remove(frame, 1) = <<argument>>
  BY FirstRemoved
<1>9. lua_wrapper(lua, frame, closure) =
         [ok |-> TRUE, method |-> <<c, m>>, object |-> a, args |-> <<argument>>]
  <2> HIDE DEF frame, closure, a, c
  <2> QED BY <1>5, <1>6, <1>7, <1>8 DEF lua_wrapper
<1> HIDE DEF frame, closure
<1> QED BY <1>2, <1>4, <1>9 DEF getObject

(***************************************************************************)
(* Whatever userdata Lua code holds on to, a call through it reaches a     *)
(* method of the class of an object that is exported at that time, with    *)
(* the caller's argument (lua_wrapper).                                    *)
(***************************************************************************)
THEOREM CallsReachLiveObjects == Spec => OnlyLiveObjectsAreCalled
<1> DEFINE Reaches == call' \notin {call, NoCall} =>
                        LET u == call'.userdata
                            a == getObject(exported[u])
                        IN  /\ exported[u].alive
                            /\ call'.done = [ok |-> TRUE,
                                             method |-> <<ClassOf[a], call'.method>>,
                                             object |-> a, args |-> <<call'.argument>>]
<1>1. AccessInv /\ [Next]_accessVars => [Reaches]_accessVars
  <2> SUFFICES ASSUME AccessInv, Next, call' \notin {call, NoCall} PROVE Reaches
    OBVIOUS
  <2>1. PICK value \in handed, m \in UNION {Method[c] : c \in Class} :
           MethodCall(value, m, String("argument"))
    BY DEF Next, NewExported, newObject, DeleteObject, pushOnStack, LuaTakes
  <2> QED BY <2>1, CallReaches
<1> QED BY <1>1, AccessInvariance, PTL DEF Spec, OnlyLiveObjectsAreCalled

-----------------------------------------------------------------------------
(* The Hello object.  What it does depends on its calls alone, not on the  *)
(* stack of the program nor on how far its script has come.                *)

\* What clients have asked, and that the object is what they made it.
AskedInv ==
    /\ program \in {"c++", "tolua++", "run"}
    /\ asked.quiet \in BOOLEAN
    /\ asked.says \in 0..MaxSays /\ asked.loud \in 0..asked.says
    /\ RepliesAreRight

(* A method called through Lua finds the argument alone on its stack, in   *)
(* both programs.                                                          *)
LEMMA ArgumentArrives ==
  ASSUME NEW value, NEW m, NEW argument,
         IF program = "c++"
         THEN MethodCall(value, m, argument) /\ call'.done.ok
         ELSE call' = [done |-> [args |-> <<argument>>]]
  PROVE  call'.done.args = <<argument>>
<1>1. CASE program # "c++"
  BY <1>1
<1>2. CASE program = "c++"
  <2> DEFINE frame == <<value, argument>>
             closure == lua.fields[lua.meta[value[2]][2]][m]
  <2>1. value[1] = "userdata" /\ call'.done = lua_wrapper(lua, frame, closure)
    BY <1>2 DEF MethodCall
  <2>2. lua_type(frame, 1) = "userdata"
    BY <2>1 DEF lua_type, Valid, ValueAt, AbsIndex
  <2>3. call'.done.args = lua_remove(frame, 1)
    <3> HIDE DEF frame, closure
    <3> QED BY <2>1, <2>2 DEF lua_wrapper
  <2> QED BY <2>3, FirstRemoved
<1> QED BY <1>1, <1>2

(* What a Wrapper and the binding of tolua++ read from the argument.       *)
LEMMA ArgumentIsRead ==
  /\ \A b \in BOOLEAN : lua_toboolean(<<Boolean(b)>>, 1) = b
  /\ \A s : ValueAt(<<String(s)>>, 1)[2] = s /\ lua_type(<<String(s)>>, 1) = "string"
<1>1. \A v : Valid(<<v>>, 1) /\ ValueAt(<<v>>, 1) = v
  BY DEF Valid, ValueAt, AbsIndex
<1>2. ASSUME NEW b \in BOOLEAN PROVE lua_toboolean(<<Boolean(b)>>, 1) = b
  <2>1. Boolean(b) # Nil
    BY DEF Boolean, Nil
  <2>2. Boolean(b) = Boolean(FALSE) <=> b = FALSE
    BY DEF Boolean
  <2>3. lua_toboolean(<<Boolean(b)>>, 1) <=> b
    BY <1>1, <2>1, <2>2 DEF lua_toboolean
  <2>4. lua_toboolean(<<Boolean(b)>>, 1) \in BOOLEAN
    BY <1>1 DEF lua_toboolean
  <2> QED BY <2>3, <2>4
<1>3. ASSUME NEW s
      PROVE  ValueAt(<<String(s)>>, 1)[2] = s /\ lua_type(<<String(s)>>, 1) = "string"
  BY <1>1 DEF lua_type, String
<1> QED BY <1>2, <1>3

(* A greeting counts, and is printed unless the object is quiet.           *)
LEMMA Greets ==
  ASSUME NEW q, NEW n, NEW p
  PROVE  say_hello_to([quiet |-> q, count |-> n, printed |-> p]) =
            [quiet |-> q, count |-> n + 1, printed |-> IF q THEN p ELSE p + 1]
<1> DEFINE h == [quiet |-> q, count |-> n, printed |-> p]
           x == n + 1
           y == IF q THEN p ELSE p + 1
<1>1. h.quiet = q /\ h.count = n /\ h.printed = p
  OBVIOUS
<1>2. [h EXCEPT !.count = x] = [quiet |-> q, count |-> x, printed |-> p]
  <2> HIDE DEF x
  <2> QED OBVIOUS
<1>3. [[quiet |-> q, count |-> x, printed |-> p] EXCEPT !.printed = y] =
         [quiet |-> q, count |-> x, printed |-> y]
  <2> HIDE DEF x, y
  <2> QED OBVIOUS
<1>4. say_hello_to(h) = [h EXCEPT !.count = x, !.printed = y]
  <2> HIDE DEF h
  <2> QED BY ONLY <1>1, Zenon DEF say_hello_to
<1> QED BY ONLY <1>2, <1>3, <1>4, Zenon

\* What a method does to the object and what it returns, in either program.
MethodDone(h, m, argument) ==
    IF program = "c++" THEN Executed(h, m, <<argument>>)
                       ELSE HelloWorld(h, m, <<argument>>)

\* How the greetings begin.
Words == IF program = "c++" THEN "C++: Hello" ELSE "Hello"

(* The four methods, in the program with a Wrapper and in the other.       *)
LEMMA MethodsDo ==
  ASSUME NEW q, NEW n, NEW p,
         NEW h, h = [quiet |-> q, count |-> n, printed |-> p]
  PROVE  /\ \A b \in BOOLEAN :
              MethodDone(h, "_set_quiet", Boolean(b)) =
                 [hello |-> [quiet |-> b, count |-> n, printed |-> p], results |-> << >>]
         /\ \A v : MethodDone(h, "_get_quiet", v) =
                      [hello |-> h, results |-> <<Boolean(q)>>]
         /\ \A v : MethodDone(h, "_get_count", v) =
                      [hello |-> h, results |-> <<Number(n)>>]
         /\ \A s : MethodDone(h, "say_hello_to", String(s)) =
                      [hello |-> say_hello_to(h), results |-> <<String(<<Words, s>>)>>]
<1>1. ASSUME NEW b \in BOOLEAN
      PROVE  MethodDone(h, "_set_quiet", Boolean(b)) =
                [hello |-> [quiet |-> b, count |-> n, printed |-> p], results |-> << >>]
  <2>1. lua_toboolean(<<Boolean(b)>>, 1) = b
    BY ArgumentIsRead
  <2>2. [h EXCEPT !.quiet = b] = [quiet |-> b, count |-> n, printed |-> p]
    OBVIOUS
  <2> DEFINE g == [quiet |-> b, count |-> n, printed |-> p]
             stack == <<Boolean(b)>>
  <2>3. [h EXCEPT !.quiet = lua_toboolean(stack, 1)] = g
    <3> HIDE DEF g, stack
    <3> QED BY ONLY <2>1, <2>2, Zenon DEF stack, g
  <2> HIDE DEF g, stack
  <2>4. Executed(h, "_set_quiet", stack) = [hello |-> g, results |-> << >>]
    BY <2>3 DEF Executed, WrapperSetQuiet
  <2>5. HelloWorld(h, "_set_quiet", stack) = [hello |-> g, results |-> << >>]
    BY <2>3 DEF HelloWorld
  <2> QED BY <2>4, <2>5 DEF MethodDone, stack, g
<1>2. h.quiet = q /\ h.count = n
  OBVIOUS
<1>3. \A v : MethodDone(h, "_get_quiet", v) = [hello |-> h, results |-> <<Boolean(q)>>]
  BY <1>2 DEF MethodDone, Executed, HelloWorld, WrapperGet
<1>4. \A v : MethodDone(h, "_get_count", v) = [hello |-> h, results |-> <<Number(n)>>]
  BY <1>2 DEF MethodDone, Executed, HelloWorld, WrapperGet
<1>5. ASSUME NEW s
      PROVE  MethodDone(h, "say_hello_to", String(s)) =
                [hello |-> say_hello_to(h), results |-> <<String(<<Words, s>>)>>]
  <2> DEFINE stack == <<String(s)>>
  <2>1. ValueAt(stack, 1)[2] = s /\ lua_type(stack, 1) = "string"
    BY ArgumentIsRead
  <2> HIDE DEF stack
  <2>2. Executed(h, "say_hello_to", stack) =
           [hello |-> say_hello_to(h), results |-> <<String(<<"C++: Hello", s>>)>>]
    BY <2>1 DEF Executed, WrapperSay, Greeting
  <2>3. HelloWorld(h, "say_hello_to", stack) =
           [hello |-> say_hello_to(h), results |-> <<String(<<"Hello", s>>)>>]
    BY <2>1 DEF HelloWorld, Greeting
  <2> QED BY <2>2, <2>3 DEF MethodDone, Words, stack
<1> QED BY <1>1, <1>3, <1>4, <1>5

(* A call of a client, whichever it is.                                    *)
LEMMA ServeAnswers ==
  ASSUME AskedInv, Serve
  PROVE  AskedInv'
<1> DEFINE q == asked.quiet
           n == asked.says
           p == asked.loud
           h == [quiet |-> q, count |-> n, printed |-> p]
<1>1. /\ program \in {"c++", "tolua++", "run"} /\ hello = h
      /\ q \in BOOLEAN /\ n \in 0..MaxSays /\ p \in 0..n
  BY DEF AskedInv, RepliesAreRight
<1>2. PICK m \in HelloMethods :
        \E argument \in IF m = "_set_quiet" THEN {Boolean(b) : b \in BOOLEAN}
                        ELSE {String(s) : s \in Message} :
          /\ m = "say_hello_to" => asked.says < MaxSays
          /\ IF program = "c++"
             THEN MethodCall(servant, m, argument) /\ call'.done.ok
             ELSE call' = [done |-> [args |-> <<argument>>]]
          /\ LET done == IF program = "c++" THEN Executed(hello, m, call'.done.args)
                         ELSE HelloWorld(hello, m, call'.done.args)
             IN  /\ hello' = done.hello
                 /\ asked' =
                      [quiet |-> IF m = "_set_quiet" THEN argument[2] ELSE asked.quiet,
                       says  |-> asked.says + (IF m = "say_hello_to" THEN 1 ELSE 0),
                       loud  |-> asked.loud + (IF m = "say_hello_to" /\ ~asked.quiet
                                               THEN 1 ELSE 0),
                       reply |-> <<m, argument, done.results>>]
  BY Zenon DEF Serve
<1>3. PICK argument \in IF m = "_set_quiet" THEN {Boolean(b) : b \in BOOLEAN}
                        ELSE {String(s) : s \in Message} :
        /\ m = "say_hello_to" => asked.says < MaxSays
        /\ IF program = "c++"
           THEN MethodCall(servant, m, argument) /\ call'.done.ok
           ELSE call' = [done |-> [args |-> <<argument>>]]
        /\ LET done == IF program = "c++" THEN Executed(hello, m, call'.done.args)
                       ELSE HelloWorld(hello, m, call'.done.args)
           IN  /\ hello' = done.hello
               /\ asked' =
                    [quiet |-> IF m = "_set_quiet" THEN argument[2] ELSE asked.quiet,
                     says  |-> asked.says + (IF m = "say_hello_to" THEN 1 ELSE 0),
                     loud  |-> asked.loud + (IF m = "say_hello_to" /\ ~asked.quiet
                                             THEN 1 ELSE 0),
                     reply |-> <<m, argument, done.results>>]
  BY ONLY <1>2, Zenon
<1>4. call'.done.args = <<argument>>
  BY <1>3, ArgumentArrives
<1> DEFINE done == MethodDone(hello, m, argument)
<1>5. /\ hello' = done.hello
      /\ asked'.quiet = IF m = "_set_quiet" THEN argument[2] ELSE q
      /\ asked'.says = n + (IF m = "say_hello_to" THEN 1 ELSE 0)
      /\ asked'.loud = p + (IF m = "say_hello_to" /\ ~q THEN 1 ELSE 0)
      /\ asked'.reply[1] = m /\ asked'.reply[2] = argument
      /\ asked'.reply[3] = done.results
  BY <1>3, <1>4 DEF MethodDone
<1>6. program' = program
  BY DEF Serve
<1> SUFFICES /\ asked'.quiet \in BOOLEAN
             /\ asked'.says \in 0..MaxSays /\ asked'.loud \in 0..asked'.says
             /\ hello' = [quiet |-> asked'.quiet, count |-> asked'.says,
                          printed |-> asked'.loud]
             /\ done.results =
                  CASE m = "_set_quiet"   -> << >>
                    [] m = "_get_quiet"   -> <<Boolean(asked'.quiet)>>
                    [] m = "_get_count"   -> <<Number(asked'.says)>>
                    [] m = "say_hello_to" -> <<String(<<Words, argument[2]>>)>>
  BY <1>1, <1>5, <1>6 DEF AskedInv, RepliesAreRight, Words
<1> HIDE DEF q, n, p, done
<1>7. MaxSays \in Nat
  BY HelloHostAssumption
<1>8. /\ \A b \in BOOLEAN :
           MethodDone(h, "_set_quiet", Boolean(b)) =
              [hello |-> [quiet |-> b, count |-> n, printed |-> p], results |-> << >>]
      /\ \A v : MethodDone(h, "_get_quiet", v) = [hello |-> h, results |-> <<Boolean(q)>>]
      /\ \A v : MethodDone(h, "_get_count", v) = [hello |-> h, results |-> <<Number(n)>>]
      /\ \A s : MethodDone(h, "say_hello_to", String(s)) =
                   [hello |-> say_hello_to(h), results |-> <<String(<<Words, s>>)>>]
  <2>1. h = [quiet |-> q, count |-> n, printed |-> p]
    OBVIOUS
  <2> HIDE DEF h
  <2> QED BY ONLY <2>1, MethodsDo
<1>9. done = MethodDone(h, m, argument)
  BY <1>1 DEF done
<1>10. CASE m = "_set_quiet"
  <2>1. PICK b \in BOOLEAN : argument = Boolean(b)
    BY <1>10
  <2>2. argument[2] = b
    BY <2>1 DEF Boolean
  <2>3. done = [hello |-> [quiet |-> b, count |-> n, printed |-> p], results |-> << >>]
    BY ONLY <1>10, <1>8, <1>9, <2>1, Zenon
  <2> QED BY <1>1, <1>5, <1>10, <2>2, <2>3
<1>11. CASE m = "_get_quiet"
  <2>1. done = [hello |-> h, results |-> <<Boolean(q)>>]
    BY ONLY <1>11, <1>8, <1>9, Zenon
  <2> QED BY <1>1, <1>5, <1>11, <2>1
<1>12. CASE m = "_get_count"
  <2>1. done = [hello |-> h, results |-> <<Number(n)>>]
    BY ONLY <1>12, <1>8, <1>9, Zenon
  <2> QED BY <1>1, <1>5, <1>12, <2>1
<1>13. CASE m = "say_hello_to"
  <2>1. PICK s \in Message : argument = String(s)
    BY <1>13
  <2>2. argument[2] = s
    BY <2>1 DEF String
  <2>3. done = [hello |-> say_hello_to(h), results |-> <<String(<<Words, s>>)>>]
    BY ONLY <1>13, <1>8, <1>9, <2>1, Zenon
  <2>4. say_hello_to(h) = [quiet |-> q, count |-> n + 1, printed |-> IF q THEN p ELSE p + 1]
    BY Greets
  <2>5. done.hello = [quiet |-> q, count |-> n + 1, printed |-> IF q THEN p ELSE p + 1]
    BY <2>3, <2>4
  <2>6. done.results = <<String(<<Words, argument[2]>>)>>
    BY <2>2, <2>3
  <2> HIDE DEF h
  <2> QED BY <1>1, <1>3, <1>5, <1>7, <1>13, <2>5, <2>6 DEF n
<1> QED BY <1>2, <1>10, <1>11, <1>12, <1>13 DEF HelloMethods

(* The object and what was asked of it change in a call of a client only.  *)
LEMMA AskedStep == AskedInv /\ [HostNext]_vars => AskedInv'
<1> SUFFICES ASSUME AskedInv, [HostNext]_vars PROVE AskedInv'
  OBVIOUS
<1>1. ASSUME UNCHANGED <<program, hello, asked>> PROVE AskedInv'
  BY <1>1 DEF AskedInv, RepliesAreRight
<1>2. CASE Serve
  BY <1>2, ServeAnswers
<1>3. CASE newstate \/ Export \/ PushValue \/ PushObject \/ PushOilField
  BY <1>1, <1>3 DEF newstate, Export, PushValue, PushObject, PushOilField, SameWorld
<1>4. CASE CallBegins \/ CallReturns \/ CallFails
  BY <1>1, <1>4 DEF CallBegins, CallReturns, CallFails
<1>5. CASE Usage \/ LoadFile \/ CallChunk \/ Exit
  BY <1>1, <1>5 DEF Usage, LoadFile, CallChunk, Exit, SameWorld
<1>6. CASE UNCHANGED vars
  BY <1>1, <1>6 DEF vars, hostVars
<1> QED BY <1>2, <1>3, <1>4, <1>5, <1>6 DEF HostNext

(***************************************************************************)
(* However often clients call the Hello object and whatever they set, it   *)
(* counts every greeting, tells the flag that was last set, greets by the  *)
(* name it was given and prints what was asked for while it was not quiet  *)
(* (the Wrapper of the server in C++, and the class bound by tolua++).     *)
(***************************************************************************)
THEOREM ObjectRepliesRight == HostSpec => []RepliesAreRight
<1>1. HostInit => AskedInv
  BY HelloHostAssumption DEF HostInit, AskedInv, RepliesAreRight, NewHello
<1>2. AskedInv => RepliesAreRight
  BY DEF AskedInv
<1> QED BY <1>1, <1>2, AskedStep, PTL DEF HostSpec

-----------------------------------------------------------------------------
(* What callfield does to the stack of the program.                        *)

(* Two stacks, one on the other, and each of them back.                    *)
LEMMA Slices ==
  ASSUME NEW S, NEW a \in Seq(S), NEW b \in Seq(S)
  PROVE  /\ a \o b \in Seq(S) /\ Len(a \o b) = Len(a) + Len(b)
         /\ SubSeq(a \o b, 1, Len(a)) = a
         /\ SubSeq(a \o b, Len(a) + 1, Len(a) + Len(b)) = b
<1>1. /\ a \o b \in Seq(S) /\ Len(a \o b) = Len(a) + Len(b)
      /\ Len(a) \in Nat /\ Len(b) \in Nat
      /\ \A i \in 1..Len(a) : (a \o b)[i] = a[i]
      /\ \A i \in 1..Len(b) : (a \o b)[Len(a) + i] = b[i]
  BY ConcatProperties
<1> DEFINE c == a \o b
<1> HIDE DEF c
<1>2. SubSeq(c, 1, Len(a)) = a
  BY <1>1 DEF c
<1>3. SubSeq(c, Len(a) + 1, Len(a) + Len(b)) = b
  BY <1>1 DEF c
<1> QED BY <1>1, <1>2, <1>3 DEF c

(* A value, alone or in front of others.                                   *)
LEMMA Fronted ==
  ASSUME NEW S, NEW v \in S, NEW r \in Seq(S)
  PROVE  /\ <<v>> \in Seq(S) /\ <<v>> \o r \in Seq(S)
         /\ Len(<<v>> \o r) = Len(r) + 1 /\ (<<v>> \o r)[1] = v
         /\ \A i \in 1..Len(r) : (<<v>> \o r)[i + 1] = r[i]
<1>1. <<v>> \in Seq(S) /\ Len(<<v>>) = 1 /\ <<v>>[1] = v
  OBVIOUS
<1> DEFINE w == <<v>>
<1> HIDE DEF w
<1>2. w \in Seq(S) /\ Len(w) = 1 /\ w[1] = v
  BY <1>1 DEF w
<1>3. /\ w \o r \in Seq(S) /\ Len(w \o r) = Len(r) + 1 /\ (w \o r)[1] = v
      /\ \A i \in 1..Len(r) : (w \o r)[i + 1] = r[i]
  <2> DEFINE c == w \o r
  <2>1. /\ c \in Seq(S) /\ Len(c) = Len(w) + Len(r) /\ Len(r) \in Nat
        /\ \A i \in 1..Len(w) + Len(r) : c[i] = IF i <= Len(w) THEN w[i] ELSE r[i - Len(w)]
    BY ONLY <1>2, ConcatProperties, r \in Seq(S), LenProperties
  <2> HIDE DEF c
  <2>2. ASSUME NEW i \in 1..Len(r) PROVE c[i + 1] = r[i]
    <3>1. /\ i + 1 \in 1..Len(w) + Len(r) /\ ~(i + 1 <= Len(w))
          /\ i + 1 - Len(w) = i
      BY <1>2, <2>1
    <3> QED BY <2>1, <3>1
  <2>3. c[1] = v
    BY <1>2, <2>1
  <2>4. Len(c) = Len(r) + 1
    BY <1>2, <2>1
  <2> QED BY <2>1, <2>2, <2>3, <2>4 DEF c
<1> QED BY <1>2, <1>3 DEF w

(* lua_insert moves the top under the r that lies on s.                    *)
LEMMA TopInserted ==
  ASSUME NEW S, NEW s \in Seq(S), NEW r \in Seq(S), NEW v \in S
  PROVE  lua_insert(Append(s \o r, v), Len(s) + 1) = s \o (<<v>> \o r)
<1> DEFINE c == s \o r
           t == Append(c, v)
<1>1. /\ c \in Seq(S) /\ Len(c) = Len(s) + Len(r) /\ Len(s) \in Nat /\ Len(r) \in Nat
      /\ SubSeq(c, 1, Len(s)) = s /\ SubSeq(c, Len(s) + 1, Len(s) + Len(r)) = r
  BY Slices
<1> HIDE DEF c
<1>2. /\ t \in Seq(S) /\ Len(t) = Len(s) + Len(r) + 1 /\ t[Len(t)] = v
      /\ \A i \in 1..(Len(s) + Len(r)) : t[i] = c[i]
  BY <1>1
<1> HIDE DEF t
<1>3. SubSeq(t, 1, Len(s)) = SubSeq(c, 1, Len(s))
  BY <1>1, <1>2
<1>4. SubSeq(t, Len(s) + 1, Len(s) + Len(r)) = SubSeq(c, Len(s) + 1, Len(s) + Len(r))
  BY <1>1, <1>2
<1>5. AbsIndex(t, Len(s) + 1) = Len(s) + 1 /\ AbsIndex(t, Len(s) + 1) - 1 = Len(s)
  BY <1>1 DEF AbsIndex
<1>6. Len(t) - 1 = Len(s) + Len(r)
  BY <1>1, <1>2
<1>7. lua_insert(t, Len(s) + 1) = s \o <<v>> \o r
  <2>1. SubSeq(t, AbsIndex(t, Len(s) + 1), Len(t) - 1) = r
    BY ONLY <1>1, <1>4, <1>5, <1>6, Zenon
  <2>2. SubSeq(t, 1, AbsIndex(t, Len(s) + 1) - 1) = s
    BY ONLY <1>1, <1>3, <1>5, Zenon
  <2> QED BY ONLY <1>2, <2>1, <2>2, Zenon DEF lua_insert
<1>8. s \o <<v>> \o r = s \o (<<v>> \o r)
  BY Fronted, ConcatAssociative
<1> QED BY <1>7, <1>8 DEF t, c

(* lua_remove takes out the v between s and r.                             *)
LEMMA MiddleRemoved ==
  ASSUME NEW S, NEW s \in Seq(S), NEW r \in Seq(S), NEW v \in S
  PROVE  lua_remove(s \o (<<v>> \o r), Len(s) + 1) = s \o r
<1> DEFINE w == <<v>> \o r
           t == s \o w
<1>1. /\ w \in Seq(S) /\ Len(w) = Len(r) + 1 /\ \A i \in 1..Len(r) : w[i + 1] = r[i]
      /\ Len(s) \in Nat /\ Len(r) \in Nat
  BY Fronted
<1> HIDE DEF w
<1>2. /\ t \in Seq(S) /\ Len(t) = Len(s) + Len(r) + 1 /\ SubSeq(t, 1, Len(s)) = s
      /\ \A i \in 1..Len(r) : t[Len(s) + 1 + i] = r[i]
  <2>1. t \in Seq(S) /\ Len(t) = Len(s) + Len(w) /\ SubSeq(t, 1, Len(s)) = s
    BY <1>1, Slices
  <2>2. \A i \in 1..Len(r) : t[Len(s) + (i + 1)] = w[i + 1]
    BY <1>1, ConcatProperties
  <2> QED BY <1>1, <2>1, <2>2
<1> HIDE DEF t
<1>3. SubSeq(t, Len(s) + 2, Len(t)) = r
  BY <1>1, <1>2
<1>4. /\ AbsIndex(t, Len(s) + 1) - 1 = Len(s) /\ AbsIndex(t, Len(s) + 1) + 1 = Len(s) + 2
  BY <1>1 DEF AbsIndex
<1>5. lua_remove(t, Len(s) + 1) = s \o r
  BY ONLY <1>2, <1>3, <1>4, Zenon DEF lua_remove
<1> QED BY <1>5 DEF t, w

(* lua_pop takes off what lies on s.                                       *)
LEMMA TopPopped ==
  ASSUME NEW S, NEW s \in Seq(S), NEW r \in Seq(S)
  PROVE  lua_pop(s \o r, Len(r)) = s
<1>1. Len(s \o r) - Len(r) = Len(s) /\ SubSeq(s \o r, 1, Len(s)) = s
  BY Slices
<1> QED BY ONLY <1>1, Zenon DEF lua_pop

\* The stack during a call: handler, function and arguments on what was there.
Frame(s, f, args) == s \o (<<Traceback>> \o (<<f>> \o args))

(* A value is pushed on a stack, and what lies on it.                      *)
LEMMA PushedOn ==
  \A s, r \in Seq(Value), v \in Value : Append(s \o r, v) = s \o Append(r, v)
<1> SUFFICES ASSUME NEW s \in Seq(Value), NEW r \in Seq(Value), NEW v \in Value
             PROVE  Append(s \o r, v) = s \o Append(r, v)
  OBVIOUS
<1>1. s \o r \in Seq(Value) /\ <<v>> \in Seq(Value)
  OBVIOUS
<1>2. Append(s \o r, v) = (s \o r) \o <<v>>
  BY <1>1, AppendIsConcat
<1>3. Append(r, v) = r \o <<v>>
  BY AppendIsConcat
<1>4. (s \o r) \o <<v>> = s \o (r \o <<v>>)
  BY <1>1, ConcatAssociative
<1> QED BY ONLY <1>2, <1>3, <1>4, Zenon

(* Before lua_pcall: callfield puts the function under its arguments and   *)
(* the handler under the function, and knows where that is.                *)
LEMMA CallArranged ==
  ASSUME NEW S, NEW s \in Seq(S), NEW args \in Seq(S), NEW f \in S, Traceback \in S
  PROVE  /\ Arranged(Append(s \o args, f), Len(args)) = Frame(s, f, args)
         /\ ArgBase(Append(s \o args, f), Len(args)) = Len(s) + 1
<1> DEFINE stack == Append(s \o args, f)
           n == Len(args)
           w == <<f>> \o args
<1>1. ArgBase(stack, n) = Len(s) + 1
  <2>1. s \o args \in Seq(S) /\ Len(s \o args) = Len(s) + n /\ Len(s) \in Nat /\ n \in Nat
    BY Slices
  <2>2. Len(stack) = Len(s) + n + 1
    BY <2>1
  <2> QED BY <2>1, <2>2 DEF ArgBase
<1>2. lua_insert(stack, Len(s) + 1) = s \o w
  BY TopInserted
<1>3. w \in Seq(S)
  BY Fronted
<1> HIDE DEF stack, n, w
<1>4. lua_insert(Append(s \o w, Traceback), Len(s) + 1) = s \o (<<Traceback>> \o w)
  BY <1>3, TopInserted
<1>5. Arranged(stack, n) = s \o (<<Traceback>> \o w)
  BY ONLY <1>1, <1>2, <1>4, Zenon DEF Arranged
<1> QED BY <1>1, <1>5 DEF Frame, stack, n, w

(* What a call finds in its frame.                                         *)
LEMMA FrameFacts ==
  ASSUME NEW S, NEW s \in Seq(S), NEW args \in Seq(S), NEW f \in S, Traceback \in S
  PROVE  LET stack == Frame(s, f, args)
             n == Len(args)
         IN  /\ stack \in Seq(S)
             /\ Callee(stack, n) = f /\ Arguments(stack, n) = args
             /\ Valid(stack, Len(s) + 1) /\ stack[Len(s) + 1] = Traceback
<1> DEFINE stack == Frame(s, f, args)
           n == Len(args)
           w == <<f>> \o args
           t == <<Traceback>> \o w
           u == s \o <<Traceback>>
<1>1. w \in Seq(S) /\ Len(w) = n + 1 /\ w[1] = f /\ n \in Nat /\ Len(s) \in Nat
  BY Fronted
<1>2. u \in Seq(S) /\ Len(u) = Len(s) + 1 /\ u[Len(s) + 1] = Traceback /\ <<Traceback>> \in Seq(S)
  BY <1>1
<1>3. stack = u \o w
  BY <1>1, <1>2, ConcatAssociative DEF Frame
<1> HIDE DEF stack, w, t, u
<1>4. /\ stack \in Seq(S) /\ Len(stack) = Len(s) + n + 2
      /\ stack[Len(s) + 1] = Traceback /\ stack[Len(s) + 2] = f
  <2>1. stack \in Seq(S) /\ Len(stack) = Len(u) + Len(w)
    BY <1>1, <1>2, <1>3, ConcatProperties
  <2>2. stack[Len(s) + 1] = u[Len(s) + 1]
    BY <1>1, <1>2, <1>3, ConcatProperties
  <2>3. stack[Len(s) + 2] = w[1]
    BY <1>1, <1>2, <1>3, ConcatProperties
  <2> QED BY <1>1, <1>2, <2>1, <2>2, <2>3
<1>5. Callee(stack, n) = f
  <2>1. Len(stack) - n = Len(s) + 2
    BY <1>1, <1>4
  <2> QED BY <1>4, <2>1 DEF Callee
<1>6. Valid(stack, Len(s) + 1)
  BY <1>1, <1>4 DEF Valid, AbsIndex
<1>7. Arguments(stack, n) = args
  <2>1. u \o <<f>> \in Seq(S) /\ Len(u \o <<f>>) = Len(s) + 2
    BY <1>1, <1>2
  <2>2. stack = (u \o <<f>>) \o args
    BY <1>1, <1>2, <1>3, ConcatAssociative DEF w
  <2> DEFINE v == u \o <<f>>
  <2> HIDE DEF v
  <2>3. SubSeq(v \o args, Len(v) + 1, Len(v) + Len(args)) = args
    BY <2>1, Slices DEF v
  <2>4. Len(stack) - n + 1 = Len(v) + 1 /\ Len(stack) = Len(v) + Len(args)
    BY <1>1, <1>4, <2>1 DEF v, n
  <2> QED BY ONLY <2>2, <2>3, <2>4, Zenon DEF Arguments, v
<1> QED BY <1>4, <1>5, <1>6, <1>7 DEF stack, n

(* After lua_pcall: the handler is gone, and an error but nil with it.     *)
LEMMA CallReported ==
  ASSUME NEW S, NEW s \in Seq(S), Traceback \in S
  PROVE  /\ \A results \in Seq(S) :
              Reported(s \o (<<Traceback>> \o results), Len(s) + 1, TRUE) = s \o results
         /\ \A e \in S :
              Reported(s \o (<<Traceback>> \o <<e>>), Len(s) + 1, FALSE) =
                 IF e[1] = "nil" THEN s \o <<e>> ELSE s
<1>1. ASSUME NEW results \in Seq(S)
      PROVE  Reported(s \o (<<Traceback>> \o results), Len(s) + 1, TRUE) = s \o results
  <2>1. lua_remove(s \o (<<Traceback>> \o results), Len(s) + 1) = s \o results
    BY MiddleRemoved
  <2> QED BY ONLY <2>1, Zenon DEF Reported
<1>2. ASSUME NEW e \in S
      PROVE  Reported(s \o (<<Traceback>> \o <<e>>), Len(s) + 1, FALSE) =
                IF e[1] = "nil" THEN s \o <<e>> ELSE s
  <2> DEFINE t == s \o (<<Traceback>> \o <<e>>)
  <2>1. <<e>> \in Seq(S) /\ Len(<<e>>) = 1
    OBVIOUS
  <2>2. lua_remove(t, Len(s) + 1) = s \o <<e>>
    BY <2>1, MiddleRemoved
  <2>3. lua_pop(s \o <<e>>, 1) = s
    BY <2>1, TopPopped
  <2>4. t \in Seq(S) /\ Len(t) = Len(s) + 2 /\ t[Len(s) + 2] = e /\ Len(s) \in Nat
    <3>1. /\ <<Traceback>> \o <<e>> \in Seq(S) /\ Len(<<Traceback>> \o <<e>>) = 2
          /\ (<<Traceback>> \o <<e>>)[2] = e
      OBVIOUS
    <3> DEFINE w == <<Traceback>> \o <<e>>
    <3> HIDE DEF w
    <3>2. s \o w \in Seq(S) /\ Len(s \o w) = Len(s) + 2 /\ (s \o w)[Len(s) + 2] = w[2]
      BY <3>1, ConcatProperties DEF w
    <3> QED BY <3>1, <3>2 DEF w
  <2> HIDE DEF t
  <2>5. lua_isnil(t, -1) <=> e[1] = "nil"
    BY <2>4 DEF lua_isnil, lua_type, Valid, ValueAt, AbsIndex
  <2>6. Reported(t, Len(s) + 1, FALSE) = IF e[1] = "nil" THEN s \o <<e>> ELSE s
    BY ONLY <2>2, <2>3, <2>5, Zenon DEF Reported
  <2> QED BY <2>6 DEF t
<1> QED BY <1>1, <1>2

-----------------------------------------------------------------------------
(* The programs that publish the object, step by step.                     *)

\* The file for the reference to the object, and the object, of program p.
Ior(p) == String(IF p = "c++" THEN "ref.ior" ELSE "hello.ref")
Object(p) == IF p = "c++" THEN <<"userdata", 1>> ELSE <<"userdata", "tolua">>

\* What both have in common begins behind step Start(p).
Start(p) == IF p = "c++" THEN 2 ELSE 1
\* The steps of p behind that one.
Published(p) ==
    Publish(IF p = "c++" THEN "ref.ior" ELSE "hello.ref",
            IF p = "c++" THEN [op |-> "pushOnStack"] ELSE Push(Object(p)))

(* The steps that both have in common.                                     *)
LEMMA PublishSteps ==
  ASSUME NEW ior, NEW object, NEW p, p = Publish(ior, object)
  PROVE  /\ p[1] = Push(String("oil"))
         /\ p[2] = CallField("require", 1, 0)
         /\ p[3] = Push(String("idl"))
         /\ p[4] = CallField("oil.loadidl", 1, 0)
         /\ p[5] = Push(String(ior))
         /\ p[6] = object
         /\ p[7] = Push(String("::Hello"))
         /\ p[8] = CallField("oil.newservant", 2, 1)
         /\ p[9] = CallField("oil.tostring", 1, 1)
         /\ p[10] = CallField("oil.writeto", 2, 0)
         /\ p[11] = PushField("oil.run")
         /\ p[12] = CallField("oil.main", 1, 0)
         /\ Len(p) = 12
         /\ \A S : (\A k \in 1..12 : p[k] \in S) => p \in Seq(S)
<1>1. /\ p[1] = Push(String("oil")) /\ p[2] = CallField("require", 1, 0)
      /\ p[3] = Push(String("idl")) /\ p[4] = CallField("oil.loadidl", 1, 0)
      /\ p[5] = Push(String(ior)) /\ p[6] = object
      /\ p[7] = Push(String("::Hello")) /\ p[8] = CallField("oil.newservant", 2, 1)
      /\ p[9] = CallField("oil.tostring", 1, 1) /\ p[10] = CallField("oil.writeto", 2, 0)
      /\ p[11] = PushField("oil.run") /\ p[12] = CallField("oil.main", 1, 0)
      /\ Len(p) = 12
  BY DEF Publish
<1>2. ASSUME NEW S, \A k \in 1..12 : p[k] \in S PROVE p \in Seq(S)
  BY <1>2 DEF Publish
<1> QED BY <1>1, <1>2

\* Sequence c is a followed by b.
Joined(c, a, b) ==
    /\ Len(c) = Len(a) + Len(b)
    /\ \A i \in 1..Len(a) + Len(b) : c[i] = IF i <= Len(a) THEN a[i] ELSE b[i - Len(a)]

(* What comes before them.                                                 *)
LEMMA ScriptSteps ==
  ASSUME program \in {"c++", "tolua++"}
  PROVE  /\ Len(Script) = Start(program) + 12
         /\ \A k \in 1..12 : Script[Start(program) + k] = Published(program)[k]
         /\ Script[1] = [op |-> "newstate"]
         /\ program = "c++" => Script[2] = [op |-> "export"]
<1> DEFINE steps == {[op |-> "newstate"], [op |-> "export"]} \cup {Published(program)[k] : k \in 1..12}
<1>1. Published(program) \in Seq(steps) /\ Len(Published(program)) = 12
  <2>1. \A k \in 1..12 : Published(program)[k] \in steps
    OBVIOUS
  <2> HIDE DEF steps
  <2> QED BY ONLY <2>1, PublishSteps DEF Published
<1> DEFINE n == <<[op |-> "newstate"]>>
           e == <<[op |-> "newstate"], [op |-> "export"]>>
<1>2. n \in Seq(steps) /\ Len(n) = 1 /\ n[1] = [op |-> "newstate"]
  OBVIOUS
<1>3. e \in Seq(steps) /\ Len(e) = 2 /\ e[1] = [op |-> "newstate"] /\ e[2] = [op |-> "export"]
  OBVIOUS
<1>4. Script = IF program = "c++" THEN e \o Published(program) ELSE n \o Published(program)
  BY DEF Script, CppMain, ToluaMain, Published, Object
<1> HIDE DEF n, e, steps
<1>5. CASE program = "c++"
  <2>1. Script = e \o Published(program) /\ Start(program) = 2
    BY <1>4, <1>5 DEF Start
  <2>2. Joined(Script, e, Published(program))
    BY ONLY <1>1, <1>3, <2>1, ConcatProperties DEF Joined
  <2>3. Len(Script) = 2 + 12 /\ \A i \in 1..2 : Script[i] = e[i]
    BY <1>1, <1>3, <2>2 DEF Joined
  <2>4. ASSUME NEW k \in 1..12 PROVE Script[2 + k] = Published(program)[k]
    <3>1. /\ 2 + k \in 1..Len(e) + Len(Published(program)) /\ ~(2 + k <= Len(e))
          /\ 2 + k - Len(e) = k
      BY <1>1, <1>3
    <3> QED BY ONLY <2>2, <3>1 DEF Joined
  <2>5. \A k \in 1..12 : Script[Start(program) + k] = Published(program)[k]
    BY ONLY <2>1, <2>4, Zenon
  <2>6. Script[1] = [op |-> "newstate"] /\ Script[2] = [op |-> "export"]
    BY ONLY <1>3, <2>3
  <2>7. Len(Script) = Start(program) + 12
    BY ONLY <2>1, <2>3
  <2> QED BY ONLY <1>5, <2>5, <2>6, <2>7, Zenon
<1>6. CASE program # "c++"
  <2>1. Script = n \o Published(program) /\ Start(program) = 1
    BY <1>4, <1>6 DEF Start
  <2>2. Joined(Script, n, Published(program))
    BY ONLY <1>1, <1>2, <2>1, ConcatProperties DEF Joined
  <2>3. Len(Script) = 1 + 12 /\ \A i \in 1..1 : Script[i] = n[i]
    BY <1>1, <1>2, <2>2 DEF Joined
  <2>4. ASSUME NEW k \in 1..12 PROVE Script[1 + k] = Published(program)[k]
    <3>1. /\ 1 + k \in 1..Len(n) + Len(Published(program)) /\ ~(1 + k <= Len(n))
          /\ 1 + k - Len(n) = k
      BY <1>1, <1>2
    <3> QED BY ONLY <2>2, <3>1 DEF Joined
  <2>5. \A k \in 1..12 : Script[Start(program) + k] = Published(program)[k]
    BY ONLY <2>1, <2>4, Zenon
  <2>6. Script[1] = [op |-> "newstate"]
    BY ONLY <1>2, <2>3
  <2>7. Len(Script) = Start(program) + 12
    BY ONLY <2>1, <2>3
  <2> QED BY ONLY <1>6, <2>5, <2>6, <2>7, Zenon
<1> QED BY <1>5, <1>6

(* What the stack holds before step k of Published(p), on what newstate()  *)
(* left, when no call has failed.                                          *)
Awaiting(p, k) ==
    CASE k \in {0, 1, 3, 5, 11, 13} -> << >>
      [] k = 2  -> <<String("oil")>>
      [] k = 4  -> <<String("idl")>>
      [] k = 6  -> <<Ior(p)>>
      [] k = 7  -> <<Ior(p), Object(p)>>
      [] k = 8  -> <<Ior(p), Object(p), String("::Hello")>>
      [] k = 9  -> <<Ior(p), ResultOf("oil.newservant")>>
      [] k = 10 -> <<Ior(p), ResultOf("oil.tostring")>>
      [] k = 12 -> <<<<"function", "oil.run">>>>

\* What of it a call leaves below the function and its arguments.
Front(p, k) == IF k \in {8, 9} THEN <<Ior(p)>> ELSE << >>

\* At least so many values are on the stack before step k.
Least(k) ==
    CASE k \in {11, 13}         -> 0
      [] k = 12                 -> 1
      [] k \in {0, 1, 3, 5, 10} -> 2
      [] k \in {2, 4, 6, 9}     -> 3
      [] k = 7                  -> 4
      [] k = 8                  -> 5

(* All that the programs push is a value, and only callfield the handler.  *)
LEMMA PushedValues ==
  /\ \A v \in {String("oil"), String("idl"), String("::Hello"), Ior(program),
               Object(program), <<"function", "oil.run">>, ResultOf("oil.newservant"),
               ResultOf("oil.tostring")} : v \in Value /\ v # Traceback
  /\ \A v \in Errors \cup {String("message and traceback")} : v \in Value /\ v # Traceback
  /\ \A name \in OilFields \cup {"require"} :
        /\ <<"function", name>> \in Value /\ <<"function", name>> # Traceback
        /\ <<"function", name>> # Nil
        /\ ResultOf(name) \in Value /\ ResultOf(name) # Traceback
  /\ Nil \in Value /\ Nil # Traceback /\ Traceback \in Value
<1> DEFINE N == {"oil", "idl", "ref.ior", "hello.ref", "::Hello", "tolua", "reference",
                 "message", "message and traceback", "exception", "traceback", "require"}
<1>1. \A v \in {"string", "table", "function", "nil", "userdata"} : v \in LuaTypes
  BY DEF LuaTypes
<1>2. \A s \in N \cup OilFields : s \in Names
  BY DEF Names
<1>3. \A v \in {"string", "table", "function", "nil", "userdata"} :
        /\ \A s \in N \cup OilFields : <<v, s>> \in Value
        /\ \A n \in Nat : <<v, n>> \in Value
  <2> HIDE DEF N
  <2> QED BY ONLY <1>1, <1>2 DEF Value
<1>4. /\ \A v : v[1] # "function" => v # Traceback
      /\ \A v : v[2] # "traceback" => v # Traceback
  BY DEF Traceback
<1>5. "traceback" \notin OilFields \cup {"require"} /\ \A s \in OilFields : s # "traceback"
  BY DEF OilFields
<1>6. {"oil.run", "oil.newservant", "oil.tostring"} \subseteq OilFields
  BY DEF OilFields
<1>7. \A v \in {String("oil"), String("idl"), String("::Hello"), Ior(program),
               Object(program), <<"function", "oil.run">>, ResultOf("oil.newservant"),
               ResultOf("oil.tostring")} : v \in Value /\ v # Traceback
  <2>1. ASSUME NEW s \in N \cup OilFields
        PROVE  String(s) \in Value /\ String(s) # Traceback
    <3>1. <<"string", s>> \in Value
      BY ONLY <1>3, s \in N \cup OilFields
    <3>2. <<"string", s>> # Traceback
      <4>1. <<"string", s>>[1] # "function"
        OBVIOUS
      <4> QED BY ONLY <4>1, <1>4, Zenon
    <3> QED BY ONLY <3>1, <3>2, Zenon DEF String
  <2>2. Ior(program) \in Value /\ Ior(program) # Traceback
    BY <2>1 DEF Ior
  <2>3. Object(program) \in Value /\ Object(program) # Traceback
    <3>1. <<"userdata", 1>> \in Value /\ <<"userdata", "tolua">> \in Value
      BY <1>3
    <3> QED BY <1>4, <3>1 DEF Object
  <2>4. ResultOf("oil.newservant") \in Value /\ ResultOf("oil.newservant") # Traceback
    BY <1>3, <1>4, <1>6 DEF ResultOf
  <2>5. ResultOf("oil.tostring") \in Value /\ ResultOf("oil.tostring") # Traceback
    BY <2>1 DEF ResultOf
  <2>6. <<"function", "oil.run">> \in Value /\ <<"function", "oil.run">> # Traceback
    BY <1>3, <1>4, <1>5, <1>6
  <2>7. /\ String("oil") \in Value /\ String("oil") # Traceback
        /\ String("idl") \in Value /\ String("idl") # Traceback
        /\ String("::Hello") \in Value /\ String("::Hello") # Traceback
    BY <2>1
  <2> QED BY <2>2, <2>3, <2>4, <2>5, <2>6, <2>7
<1>8. \A v \in Errors \cup {String("message and traceback")} : v \in Value /\ v # Traceback
  <2>1. /\ String("message") \in Value /\ String("message") # Traceback
        /\ String("message and traceback") \in Value
        /\ String("message and traceback") # Traceback
    BY <1>3, <1>4 DEF String
  <2>2. <<"table", "exception">> \in Value /\ <<"table", "exception">> # Traceback
    BY <1>3, <1>4
  <2>3. Nil \in Value /\ Nil # Traceback
    <3>1. Nil[1] # "function"
      BY DEF Nil
    <3>2. Nil \in Value
      BY ONLY <1>3 DEF Nil
    <3> QED BY <1>4, <3>1, <3>2
  <2> QED BY <2>1, <2>2, <2>3 DEF Errors
<1>9. \A name \in OilFields \cup {"require"} :
        /\ <<"function", name>> \in Value /\ <<"function", name>> # Traceback
        /\ <<"function", name>> # Nil
        /\ ResultOf(name) \in Value /\ ResultOf(name) # Traceback
  <2> SUFFICES ASSUME NEW name \in OilFields \cup {"require"}
               PROVE  /\ <<"function", name>> \in Value /\ <<"function", name>> # Traceback
                      /\ <<"function", name>> # Nil
                      /\ ResultOf(name) \in Value /\ ResultOf(name) # Traceback
    OBVIOUS
  <2>1. name \in N \cup OilFields /\ name # "traceback"
    BY <1>5
  <2>2. <<"function", name>> \in Value /\ <<"table", name>> \in Value
    BY ONLY <1>3, <2>1
  <2>3. <<"function", name>> # Traceback /\ <<"table", name>> # Traceback
    BY <1>4, <2>1
  <2>4. <<"function", name>> # Nil
    BY DEF Nil
  <2>5. String("reference") \in Value /\ String("reference") # Traceback
    BY <1>3, <1>4 DEF String
  <2> QED BY <2>2, <2>3, <2>4, <2>5 DEF ResultOf
<1>10. Nil \in Value /\ Nil # Traceback /\ Traceback \in Value
  BY <1>3, <1>4 DEF Nil, Traceback
<1> QED BY <1>7, <1>8, <1>9, <1>10

(* The steps of a program, one by one.                                     *)
LEMMA StepByStep ==
  /\ Published(program)[1] = Push(String("oil"))
  /\ Published(program)[2] = CallField("require", 1, 0)
  /\ Published(program)[3] = Push(String("idl"))
  /\ Published(program)[4] = CallField("oil.loadidl", 1, 0)
  /\ Published(program)[5] = Push(Ior(program))
  /\ Published(program)[6] = IF program = "c++" THEN [op |-> "pushOnStack"]
                                                ELSE Push(Object(program))
  /\ Published(program)[7] = Push(String("::Hello"))
  /\ Published(program)[8] = CallField("oil.newservant", 2, 1)
  /\ Published(program)[9] = CallField("oil.tostring", 1, 1)
  /\ Published(program)[10] = CallField("oil.writeto", 2, 0)
  /\ Published(program)[11] = PushField("oil.run")
  /\ Published(program)[12] = CallField("oil.main", 1, 0)
BY ONLY PublishSteps DEF Published, Ior

(* The operations of the steps.                                            *)
LEMMA Operations ==
  LET op(k) == Published(program)[k].op
  IN  /\ \A k \in {1, 3, 5, 7} : op(k) = "push"
      /\ op(6) = IF program = "c++" THEN "pushOnStack" ELSE "push"
      /\ \A k \in {2, 4, 8, 9, 10, 12} : op(k) = "callfield"
      /\ op(11) = "pushfield"
<1> DEFINE P == Published(program)
<1>1. /\ P[1].op = "push" /\ P[3].op = "push" /\ P[5].op = "push" /\ P[7].op = "push"
      /\ P[2].op = "callfield" /\ P[4].op = "callfield" /\ P[8].op = "callfield"
      /\ P[9].op = "callfield" /\ P[10].op = "callfield" /\ P[12].op = "callfield"
      /\ P[11].op = "pushfield"
      /\ P[6].op = IF program = "c++" THEN "pushOnStack" ELSE "push"
  BY StepByStep DEF Push, CallField, PushField
<1> HIDE DEF P
<1>2. /\ \A k \in {1, 3, 5, 7} : P[k].op = "push"
      /\ \A k \in {2, 4, 8, 9, 10, 12} : P[k].op = "callfield"
  BY <1>1
<1> QED BY ONLY <1>1, <1>2, Zenon DEF P

\* A step after which k + 1 comes pushes v.
Pushes(k, v) ==
    /\ Awaiting(program, k + 1) = Append(Awaiting(program, k), v)
    /\ Least(k + 1) = Least(k) + 1
    /\ v \in Value /\ v # Traceback

(* A step that pushes a value.                                             *)
LEMMA PushSteps ==
  ASSUME NEW k \in 1..12, Published(program)[k].op = "push"
  PROVE  Pushes(k, Published(program)[k].value) /\ k # 2 /\ k # 11
<1>1. k = 1 \/ k = 3 \/ k = 5 \/ k = 7 \/ (k = 6 /\ program # "c++")
  <2>1. k \notin {2, 4, 8, 9, 10, 11, 12} /\ (k = 6 => program # "c++")
    BY Operations
  <2> QED BY <2>1
<1>2. /\ Published(program)[1].value = String("oil")
      /\ Published(program)[3].value = String("idl")
      /\ Published(program)[5].value = Ior(program)
      /\ program # "c++" => Published(program)[6].value = Object(program)
      /\ Published(program)[7].value = String("::Hello")
  BY StepByStep DEF Push
<1>3. /\ String("oil") \in Value /\ String("oil") # Traceback
      /\ String("idl") \in Value /\ String("idl") # Traceback
      /\ Ior(program) \in Value /\ Ior(program) # Traceback
      /\ Object(program) \in Value /\ Object(program) # Traceback
      /\ String("::Hello") \in Value /\ String("::Hello") # Traceback
  BY PushedValues
<1>4. CASE k = 1
  BY <1>2, <1>3, <1>4 DEF Pushes, Awaiting, Least
<1>5. CASE k = 3
  BY <1>2, <1>3, <1>5 DEF Pushes, Awaiting, Least
<1>6. CASE k = 5
  BY <1>2, <1>3, <1>6 DEF Pushes, Awaiting, Least
<1>7. CASE k = 7
  BY <1>2, <1>3, <1>7 DEF Pushes, Awaiting, Least
<1>8. CASE k = 6 /\ program # "c++"
  BY <1>2, <1>3, <1>8 DEF Pushes, Awaiting, Least
<1> QED BY <1>1, <1>4, <1>5, <1>6, <1>7, <1>8

(* The steps that push the box of the object, and the function oil.run.    *)
LEMMA OtherPushSteps ==
  ASSUME NEW k \in 1..12
  PROVE  /\ Published(program)[k].op = "pushOnStack" =>
              k = 6 /\ program = "c++" /\ Pushes(6, <<"userdata", 1>>)
         /\ Published(program)[k].op = "pushfield" =>
              /\ k = 11 /\ Published(program)[k].name = "oil.run"
              /\ Pushes(11, <<"function", "oil.run">>)
<1>1. ASSUME Published(program)[k].op = "pushOnStack"
      PROVE  k = 6 /\ program = "c++" /\ Pushes(6, <<"userdata", 1>>)
  <2>1. k = 6 /\ program = "c++"
    <3>1. k \notin {1, 2, 3, 4, 5, 7, 8, 9, 10, 11, 12}
      BY <1>1, Operations
    <3>2. k = 6
      BY <3>1
    <3> QED BY <1>1, <3>2, Operations
  <2>2. Object(program) = <<"userdata", 1>>
    BY <2>1 DEF Object
  <2>3. Object(program) \in Value /\ Object(program) # Traceback
    BY PushedValues
  <2>4. Awaiting(program, 7) = Append(Awaiting(program, 6), Object(program))
    BY DEF Awaiting
  <2> QED BY <2>1, <2>2, <2>3, <2>4 DEF Pushes, Least
<1>2. ASSUME Published(program)[k].op = "pushfield"
      PROVE  /\ k = 11 /\ Published(program)[k].name = "oil.run"
             /\ Pushes(11, <<"function", "oil.run">>)
  <2>1. k \notin {1, 2, 3, 4, 5, 6, 7, 8, 9, 10, 12}
    BY <1>2, Operations
  <2>2. k = 11
    BY <2>1
  <2>3. Published(program)[11].name = "oil.run"
    BY StepByStep DEF PushField
  <2>4. <<"function", "oil.run">> \in Value /\ <<"function", "oil.run">> # Traceback
    BY PushedValues
  <2> QED BY <2>2, <2>3, <2>4 DEF Pushes, Awaiting, Least
<1> QED BY <1>1, <1>2

\* Step k calls that function with what is meant for it, which lies on the
\* stack; its result takes the place of that.
Calls(k, name, narg, nres) ==
    /\ name \in OilFields \cup {"require"} /\ (name = "require" <=> k = 2) /\ k \in 2..12
    /\ Meant(name) \in Seq(Value) /\ Len(Meant(name)) = narg
    /\ Front(program, k) \in Seq(Value)
    /\ \A i \in 1..Len(Front(program, k)) : Front(program, k)[i] # Traceback
    /\ Awaiting(program, k) = Front(program, k) \o Meant(name)
    /\ Awaiting(program, k + 1) =
          Front(program, k) \o (IF nres = 0 THEN << >> ELSE <<ResultOf(name)>>)
    /\ narg \in Nat /\ Least(k) \in Nat /\ Least(k + 1) \in Nat
    /\ Least(k + 1) + narg <= Least(k)

(* A sequence of one or two, and one more.                                 *)
LEMMA TwoThree ==
  ASSUME NEW S, NEW a \in S, NEW b \in S
  PROVE  /\ Append(<<a>>, b) = <<a, b>>
         /\ \A c \in S : Append(<<a, b>>, c) = <<a, b, c>>
<1>1. Append(<<a>>, b) = <<a, b>>
  <2> DEFINE x == Append(<<a>>, b)
             y == <<a, b>>
  <2>1. x \in Seq(S) /\ Len(x) = 2 /\ x[1] = a /\ x[2] = b
    OBVIOUS
  <2>2. y \in Seq(S) /\ Len(y) = 2 /\ y[1] = a /\ y[2] = b
    OBVIOUS
  <2> HIDE DEF x, y
  <2>3. \A i \in 1..2 : x[i] = y[i]
    BY <2>1, <2>2
  <2>4. x = y
    BY <2>1, <2>2, <2>3, SeqEqual
  <2> QED BY <2>4 DEF x, y
<1>2. ASSUME NEW c \in S
      PROVE  Append(<<a, b>>, c) = <<a, b, c>>
  <2> DEFINE x == Append(<<a, b>>, c)
             y == <<a, b, c>>
  <2>1. x \in Seq(S) /\ Len(x) = 3 /\ x[1] = a /\ x[2] = b /\ x[3] = c
    OBVIOUS
  <2>2. y \in Seq(S) /\ Len(y) = 3 /\ y[1] = a /\ y[2] = b /\ y[3] = c
    OBVIOUS
  <2> HIDE DEF x, y
  <2>3. \A i \in 1..3 : x[i] = y[i]
    BY <2>1, <2>2
  <2>4. x = y
    BY <2>1, <2>2, <2>3, SeqEqual
  <2> QED BY <2>4 DEF x, y
<1> QED BY <1>1, <1>2

(* Short sequences, one after the other.                                    *)
LEMMA One ==
  ASSUME NEW S, NEW a \in S
  PROVE  /\ <<a>> \in Seq(S) /\ Len(<<a>>) = 1
         /\ << >> \o <<a>> = <<a>> /\ <<a>> \o << >> = <<a>>
<1>1. <<a>> \in Seq(S) /\ Len(<<a>>) = 1
  OBVIOUS
<1> QED BY <1>1, ConcatEmptySeq

(* Two values, one appended to the other.                                  *)
LEMMA OneAndOne ==
  ASSUME NEW S, NEW a \in S, NEW b \in S
  PROVE  /\ <<a, b>> \in Seq(S) /\ Len(<<a, b>>) = 2
         /\ << >> \o <<a, b>> = <<a, b>> /\ <<a>> \o <<b>> = <<a, b>>
<1>1. <<a>> \in Seq(S) /\ <<a, b>> \in Seq(S) /\ Len(<<a, b>>) = 2
  OBVIOUS
<1>2. << >> \o <<a, b>> = <<a, b>>
  BY <1>1, ConcatEmptySeq
<1>3. Append(<<a>>, b) = <<a, b>>
  BY TwoThree
<1>4. \A s \in Seq(S) : Append(s, b) = s \o <<b>>
  BY AppendIsConcat
<1> QED BY ONLY <1>1, <1>2, <1>3, <1>4, Zenon

(* Three values, two appended to one.                                      *)
LEMMA OneAndTwo ==
  ASSUME NEW a \in Value, NEW b \in Value, NEW c \in Value
  PROVE  <<a>> \o <<b, c>> = <<a, b, c>>
<1>1. Append(<<b>>, c) = <<b, c>> /\ Append(<<a, b>>, c) = <<a, b, c>>
  BY TwoThree
<1>2. <<a>> \in Seq(Value) /\ <<b>> \in Seq(Value)
  OBVIOUS
<1>3. Append(<<a>> \o <<b>>, c) = <<a>> \o Append(<<b>>, c)
  BY ONLY <1>2, c \in Value, PushedOn, Zenon
<1>4. <<a>> \o <<b>> = <<a, b>>
  BY OneAndOne
<1> QED BY ONLY <1>1, <1>3, <1>4, Zenon

(* A step that calls a function.                                           *)
LEMMA CallSteps ==
  ASSUME NEW k \in 1..12, Published(program)[k].op = "callfield"
  PROVE  Calls(k, Published(program)[k].name, Published(program)[k].narg,
               Published(program)[k].nres)
<1>1. k \in {2, 4, 8, 9, 10, 12}
  <2>1. k \notin {1, 3, 5, 6, 7, 11}
    BY Operations
  <2> QED BY <2>1
<1>2. /\ Published(program)[2] = CallField("require", 1, 0)
      /\ Published(program)[4] = CallField("oil.loadidl", 1, 0)
      /\ Published(program)[8] = CallField("oil.newservant", 2, 1)
      /\ Published(program)[9] = CallField("oil.tostring", 1, 1)
      /\ Published(program)[10] = CallField("oil.writeto", 2, 0)
      /\ Published(program)[12] = CallField("oil.main", 1, 0)
  BY StepByStep
<1>3. /\ {"require", "oil.loadidl", "oil.newservant", "oil.tostring", "oil.writeto",
          "oil.main"} \subseteq OilFields \cup {"require"}
      /\ "require" \notin OilFields
  BY DEF OilFields
<1>4. /\ Meant("require") = <<String("oil")>>
      /\ Meant("oil.loadidl") = <<String("idl")>>
      /\ Meant("oil.newservant") = <<Object(program), String("::Hello")>>
      /\ Meant("oil.tostring") = <<ResultOf("oil.newservant")>>
      /\ Meant("oil.writeto") = <<Ior(program), ResultOf("oil.tostring")>>
      /\ Meant("oil.main") = <<<<"function", "oil.run">>>>
  <2>1. OfferedObject = Object(program)
    BY DEF OfferedObject, Object
  <2>2. Ior(program) = String(IF program = "c++" THEN "ref.ior" ELSE "hello.ref")
    BY DEF Ior
  <2>3. ResultOf("oil.tostring") = String("reference")
    BY DEF ResultOf
  <2> QED BY ONLY <2>1, <2>2, <2>3 DEF Meant
<1>5. /\ String("oil") \in Value /\ String("idl") \in Value /\ String("::Hello") \in Value
      /\ Ior(program) \in Value /\ Ior(program) # Traceback
      /\ Object(program) \in Value /\ ResultOf("oil.newservant") \in Value
      /\ ResultOf("oil.tostring") \in Value /\ <<"function", "oil.run">> \in Value
  BY PushedValues
<1>12. ASSUME NEW v \in Value
       PROVE  /\ <<v>> \in Seq(Value) /\ Len(<<v>>) = 1
              /\ << >> \o <<v>> = <<v>> /\ <<v>> \o << >> = <<v>>
  BY One
<1>13. ASSUME NEW v \in Value, NEW w \in Value
       PROVE  /\ <<v, w>> \in Seq(Value) /\ Len(<<v, w>>) = 2
              /\ << >> \o <<v, w>> = <<v, w>> /\ <<v>> \o <<w>> = <<v, w>>
  BY OneAndOne
<1>14. ASSUME NEW v \in Value, NEW w \in Value, NEW x \in Value
       PROVE  <<v>> \o <<w, x>> = <<v, w, x>>
  BY OneAndTwo
<1>15. << >> \o << >> = << >>
  BY EmptySeq, ConcatEmptySeq
<1>6. CASE k = 2
  <2>1. Calls(2, "require", 1, 0)
    <3>1. Meant("require") \in Seq(Value) /\ Len(Meant("require")) = 1
      BY ONLY <1>4, <1>5, <1>12, <1>13, Zenon
    <3>2. /\ Front(program, 2) \in Seq(Value)
          /\ \A j \in 1..Len(Front(program, 2)) : Front(program, 2)[j] # Traceback
      BY <1>5 DEF Front
    <3>3. /\ Awaiting(program, 2) = Front(program, 2) \o Meant("require")
          /\ Awaiting(program, 2 + 1) =
                Front(program, 2) \o << >>
      BY ONLY <1>4, <1>5, <1>12, <1>15 DEF Awaiting, Front
    <3> QED BY ONLY <1>3, <3>1, <3>2, <3>3 DEF Calls, Least
  <2>2. /\ Published(program)[2].name = "require" /\ Published(program)[2].narg = 1
        /\ Published(program)[2].nres = 0
    BY ONLY <1>2 DEF CallField
  <2> QED BY ONLY <1>6, <2>1, <2>2, Zenon
<1>7. CASE k = 4
  <2>1. Calls(4, "oil.loadidl", 1, 0)
    <3>1. Meant("oil.loadidl") \in Seq(Value) /\ Len(Meant("oil.loadidl")) = 1
      BY ONLY <1>4, <1>5, <1>12, <1>13, Zenon
    <3>2. /\ Front(program, 4) \in Seq(Value)
          /\ \A j \in 1..Len(Front(program, 4)) : Front(program, 4)[j] # Traceback
      BY <1>5 DEF Front
    <3>3. /\ Awaiting(program, 4) = Front(program, 4) \o Meant("oil.loadidl")
          /\ Awaiting(program, 4 + 1) =
                Front(program, 4) \o << >>
      BY ONLY <1>4, <1>5, <1>12, <1>15 DEF Awaiting, Front
    <3> QED BY ONLY <1>3, <3>1, <3>2, <3>3 DEF Calls, Least
  <2>2. /\ Published(program)[4].name = "oil.loadidl" /\ Published(program)[4].narg = 1
        /\ Published(program)[4].nres = 0
    BY ONLY <1>2 DEF CallField
  <2> QED BY ONLY <1>7, <2>1, <2>2, Zenon
<1>8. CASE k = 8
  <2>1. Calls(8, "oil.newservant", 2, 1)
    <3>1. Meant("oil.newservant") \in Seq(Value) /\ Len(Meant("oil.newservant")) = 2
      BY ONLY <1>4, <1>5, <1>12, <1>13, Zenon
    <3>2. /\ Front(program, 8) \in Seq(Value)
          /\ \A j \in 1..Len(Front(program, 8)) : Front(program, 8)[j] # Traceback
      BY <1>5 DEF Front
    <3>3. /\ Awaiting(program, 8) = Front(program, 8) \o Meant("oil.newservant")
          /\ Awaiting(program, 8 + 1) =
                Front(program, 8) \o <<ResultOf("oil.newservant")>>
      <4>1. /\ Awaiting(program, 8) = <<Ior(program), Object(program), String("::Hello")>>
            /\ Awaiting(program, 8 + 1) = <<Ior(program), ResultOf("oil.newservant")>>
            /\ Front(program, 8) = <<Ior(program)>>
        BY DEF Awaiting, Front
      <4>2. /\ <<Ior(program)>> \o <<Object(program), String("::Hello")>> =
                  <<Ior(program), Object(program), String("::Hello")>>
            /\ <<Ior(program)>> \o <<ResultOf("oil.newservant")>> =
                  <<Ior(program), ResultOf("oil.newservant")>>
        BY ONLY <1>5, <1>13, <1>14
      <4> QED BY ONLY <1>4, <4>1, <4>2, Zenon
    <3> QED BY ONLY <1>3, <3>1, <3>2, <3>3 DEF Calls, Least
  <2>2. /\ Published(program)[8].name = "oil.newservant" /\ Published(program)[8].narg = 2
        /\ Published(program)[8].nres = 1
    BY ONLY <1>2 DEF CallField
  <2> QED BY ONLY <1>8, <2>1, <2>2, Zenon
<1>9. CASE k = 9
  <2>1. Calls(9, "oil.tostring", 1, 1)
    <3>1. Meant("oil.tostring") \in Seq(Value) /\ Len(Meant("oil.tostring")) = 1
      BY ONLY <1>4, <1>5, <1>12, <1>13, Zenon
    <3>2. /\ Front(program, 9) \in Seq(Value)
          /\ \A j \in 1..Len(Front(program, 9)) : Front(program, 9)[j] # Traceback
      BY <1>5 DEF Front
    <3>3. /\ Awaiting(program, 9) = Front(program, 9) \o Meant("oil.tostring")
          /\ Awaiting(program, 9 + 1) =
                Front(program, 9) \o <<ResultOf("oil.tostring")>>
      <4>1. /\ Awaiting(program, 9) = <<Ior(program), ResultOf("oil.newservant")>>
            /\ Awaiting(program, 9 + 1) = <<Ior(program), ResultOf("oil.tostring")>>
            /\ Front(program, 9) = <<Ior(program)>>
        BY DEF Awaiting, Front
      <4>2. /\ <<Ior(program)>> \o <<ResultOf("oil.newservant")>> =
                  <<Ior(program), ResultOf("oil.newservant")>>
            /\ <<Ior(program)>> \o <<ResultOf("oil.tostring")>> =
                  <<Ior(program), ResultOf("oil.tostring")>>
        BY ONLY <1>5, <1>13
      <4> QED BY ONLY <1>4, <4>1, <4>2, Zenon
    <3> QED BY ONLY <1>3, <3>1, <3>2, <3>3 DEF Calls, Least
  <2>2. /\ Published(program)[9].name = "oil.tostring" /\ Published(program)[9].narg = 1
        /\ Published(program)[9].nres = 1
    BY ONLY <1>2 DEF CallField
  <2> QED BY ONLY <1>9, <2>1, <2>2, Zenon
<1>10. CASE k = 10
  <2>1. Calls(10, "oil.writeto", 2, 0)
    <3>1. Meant("oil.writeto") \in Seq(Value) /\ Len(Meant("oil.writeto")) = 2
      BY ONLY <1>4, <1>5, <1>12, <1>13, Zenon
    <3>2. /\ Front(program, 10) \in Seq(Value)
          /\ \A j \in 1..Len(Front(program, 10)) : Front(program, 10)[j] # Traceback
      BY <1>5 DEF Front
    <3>3. /\ Awaiting(program, 10) = Front(program, 10) \o Meant("oil.writeto")
          /\ Awaiting(program, 10 + 1) =
                Front(program, 10) \o << >>
      <4>1. /\ Awaiting(program, 10) = <<Ior(program), ResultOf("oil.tostring")>>
            /\ Awaiting(program, 10 + 1) = << >>
            /\ Front(program, 10) = << >>
        BY DEF Awaiting, Front
      <4>2. << >> \o <<Ior(program), ResultOf("oil.tostring")>> =
               <<Ior(program), ResultOf("oil.tostring")>>
        BY ONLY <1>5, <1>13
      <4> QED BY ONLY <1>4, <1>15, <4>1, <4>2, Zenon
    <3> QED BY ONLY <1>3, <3>1, <3>2, <3>3 DEF Calls, Least
  <2>2. /\ Published(program)[10].name = "oil.writeto" /\ Published(program)[10].narg = 2
        /\ Published(program)[10].nres = 0
    BY ONLY <1>2 DEF CallField
  <2> QED BY ONLY <1>10, <2>1, <2>2, Zenon
<1>11. CASE k = 12
  <2>1. Calls(12, "oil.main", 1, 0)
    <3>1. Meant("oil.main") \in Seq(Value) /\ Len(Meant("oil.main")) = 1
      BY ONLY <1>4, <1>5, <1>12, <1>13, Zenon
    <3>2. /\ Front(program, 12) \in Seq(Value)
          /\ \A j \in 1..Len(Front(program, 12)) : Front(program, 12)[j] # Traceback
      BY <1>5 DEF Front
    <3>3. /\ Awaiting(program, 12) = Front(program, 12) \o Meant("oil.main")
          /\ Awaiting(program, 12 + 1) =
                Front(program, 12) \o << >>
      BY ONLY <1>4, <1>5, <1>12, <1>15 DEF Awaiting, Front
    <3> QED BY ONLY <1>3, <3>1, <3>2, <3>3 DEF Calls, Least
  <2>2. /\ Published(program)[12].name = "oil.main" /\ Published(program)[12].narg = 1
        /\ Published(program)[12].nres = 0
    BY ONLY <1>2 DEF CallField
  <2> QED BY ONLY <1>11, <2>1, <2>2, Zenon
<1> QED BY <1>1, <1>6, <1>7, <1>8, <1>9, <1>10, <1>11

-----------------------------------------------------------------------------
(***************************************************************************)
(* The inductive invariant of the programs.  Whether callfield finds the   *)
(* handler depends on how much is on the stack, which is bounded from      *)
(* below by Least: calls that failed may have left less than the program   *)
(* counts on.  As long as none failed, the stack is known value by value.  *)
(***************************************************************************)
\* The step of Published(p) that statement at of p is.
Place(p, at) == at - Start(p)

\* The types of the variables, and which steps are calls.
HostTypes ==
    /\ program \in {"c++", "tolua++", "run"}
    /\ pc \in 1..Len(Script) + 1
    /\ status \in {"run", "called", "panic", "exit"}
    /\ oil \subseteq OilFields
    /\ failed \in BOOLEAN
    /\ status = "called" =>
          /\ program # "run" /\ Place(program, pc) \in 1..12
          /\ Published(program)[Place(program, pc)].op = "callfield"
    /\ status = "exit" /\ program # "run" => Place(program, pc) = 13

\* What the object is offered by is there while the program runs.
ObjectStays ==
    /\ \A u \in DOMAIN exported : exported[u].alive
    /\ program = "c++" /\ pc > 2 => exported # << >>

\* The module has its functions once require has returned.
OilIsThere(k) == k > 2 => oil = OilFields

\* traceback is nowhere on the stack.
NoHandlerIn(stack) == \A i \in 1..Len(stack) : stack[i] # Traceback

\* No handler is left over, and the stack is high enough for what follows.
BetweenCalls ==
    status # "called" =>
        /\ NoHandlerIn(lua.stack)
        /\ program # "run" /\ pc > 1 =>
              /\ Len(lua.stack) >= Least(Place(program, pc))
              /\ ~failed => /\ lua.stack = Opened \o Awaiting(program, Place(program, pc))
                            /\ OilIsThere(Place(program, pc))

\* During the call of step k the frame lies on s.
InCall(s, args, f, k) ==
    /\ lua.stack = Frame(s, f, args) /\ base = Len(s) + 1
    /\ Len(args) = Published(program)[k].narg
    /\ NoHandlerIn(s) /\ Len(s) + Len(args) >= Least(k)
    /\ ~failed => /\ s = Opened \o Front(program, k)
                  /\ args = Meant(Published(program)[k].name)
                  /\ f = <<"function", Published(program)[k].name>>
                  /\ OilIsThere(k)

\* callfield has put the handler below the function and its arguments.
DuringCall ==
    status = "called" =>
        \E s, args \in Seq(Value), f \in Value : InCall(s, args, f, Place(program, pc))

\* Every function has got what main() means for it.
ReceivedAsMeant ==
    ~failed => \A name \in DOMAIN received : received[name] = Meant(name)

\* All of it.
HostInv == /\ AccessCore
           /\ HostTypes
           /\ ObjectStays
           /\ BetweenCalls
           /\ DuringCall
           /\ ReceivedAsMeant

(* The step that a program that publishes the object is at.                *)
LEMMA Located ==
  ASSUME HostTypes, program # "run", NEW op, AtStep(op), NEW k, k = Place(program, pc)
  PROVE  \/ op = "newstate" /\ pc = 1
         \/ op = "export" /\ pc = 2 /\ program = "c++"
         \/ /\ k \in 1..12 /\ Step = Published(program)[k] /\ Published(program)[k].op = op
            /\ pc > 1
<1>1. /\ Len(Script) = Start(program) + 12
      /\ \A j \in 1..12 : Script[Start(program) + j] = Published(program)[j]
      /\ Script[1] = [op |-> "newstate"]
      /\ program = "c++" => Script[2] = [op |-> "export"]
  BY ScriptSteps DEF HostTypes
<1>2. pc \in 1..Len(Script) /\ Script[pc].op = op /\ Step = Script[pc]
  BY <1>1 DEF HostTypes, AtStep, Step, Start
<1>3. CASE pc = 1
  BY <1>1, <1>2, <1>3
<1>4. CASE pc = 2 /\ program = "c++"
  BY <1>1, <1>2, <1>4
<1>5. CASE pc # 1 /\ ~(pc = 2 /\ program = "c++")
  <2>1. k \in 1..12 /\ pc = Start(program) + k /\ pc > 1
    BY <1>1, <1>2, <1>5 DEF Place, Start
  <2> QED BY <1>1, <1>2, <2>1
<1> QED BY <1>3, <1>4, <1>5

(* The step after it.                                                      *)
LEMMA NextPlace ==
  ASSUME HostTypes, program # "run", NEW k \in 1..12, k = Place(program, pc)
  PROVE  /\ Place(program, pc + 1) = k + 1 /\ pc + 1 \in 1..Len(Script) + 1
         /\ pc > 1 /\ pc + 1 > 1 /\ k + 1 \in 2..13
         /\ program = "c++" => pc > 2
<1>1. Len(Script) = Start(program) + 12
  BY ScriptSteps DEF HostTypes
<1> QED BY <1>1 DEF Place, Start, HostTypes

(* The steps of the program that runs a file.                              *)
LEMMA RunSteps ==
  ASSUME program = "run"
  PROVE  /\ Len(Script) = 5
         /\ Script[1].op = "usage" /\ Script[2].op = "push" /\ Script[3].op = "push"
         /\ Script[4].op = "loadfile" /\ Script[5].op = "pcall"
         /\ \A i \in 2..3 : Script[i].value \in Value /\ Script[i].value # Traceback
<1>1. Script = RunMain
  BY DEF Script
<1>2. /\ Len(RunMain) = 5
      /\ RunMain[1] = [op |-> "usage"] /\ RunMain[2] = Push(<<"table", "package.loaded">>)
      /\ RunMain[3] = Push(<<"table", "oil.bit">>)
      /\ RunMain[4] = [op |-> "loadfile"] /\ RunMain[5] = [op |-> "pcall"]
  BY DEF RunMain
<1>3. /\ <<"table", "package.loaded">> \in Value /\ <<"table", "oil.bit">> \in Value
      /\ <<"table", "package.loaded">> # Traceback /\ <<"table", "oil.bit">> # Traceback
  <2>1. "table" \in LuaTypes /\ "package.loaded" \in Names /\ "oil.bit" \in Names
    BY DEF LuaTypes, Names
  <2> QED BY <2>1 DEF Value, Traceback
<1>4. /\ RunMain[2].value = <<"table", "package.loaded">>
      /\ RunMain[3].value = <<"table", "oil.bit">>
      /\ RunMain[2].op = "push" /\ RunMain[3].op = "push"
  BY ONLY <1>2 DEF Push
<1>5. \A i \in 2..3 : RunMain[i].value \in Value /\ RunMain[i].value # Traceback
  <2> SUFFICES ASSUME NEW i \in 2..3
               PROVE  RunMain[i].value \in Value /\ RunMain[i].value # Traceback
    OBVIOUS
  <2>1. i = 2 \/ i = 3
    OBVIOUS
  <2> QED BY ONLY <1>3, <1>4, <2>1, Zenon
<1>6. RunMain[1].op = "usage" /\ RunMain[4].op = "loadfile" /\ RunMain[5].op = "pcall"
  BY ONLY <1>2
<1> QED BY ONLY <1>1, <1>2, <1>4, <1>5, <1>6, Zenon

(* Another stack, and nothing else of what Lua holds.                      *)
LEMMA StackSet ==
  ASSUME AccessCore, NEW s \in Seq(Value), LuaStackBecomes(s),
         UNCHANGED <<classIndex, exported>>
  PROVE  AccessCore' /\ lua'.stack = s
<1>1. lua = LuaState(lua.stack, lua.registry, lua.fields, lua.meta, lua.box)
  BY DEF AccessCore, StatesAreWellFormed
<1> DEFINE r == lua.registry
           f == lua.fields
           m == lua.meta
           b == lua.box
           t == lua.stack
<1>2. lua' = LuaState(s, r, f, m, b)
  <2>1. lua = LuaState(t, r, f, m, b) /\ lua' = [lua EXCEPT !.stack = s]
    BY <1>1 DEF LuaStackBecomes
  <2>2. [LuaState(t, r, f, m, b) EXCEPT !.stack = s] = LuaState(s, r, f, m, b)
    <3> HIDE DEF t, r, f, m, b
    <3> QED BY DEF LuaState
  <2> QED BY ONLY <2>1, <2>2, Zenon
<1> QED BY <1>2, StackKeeps

(* The same program has the same script.                                   *)
LEMMA SameProgram ==
  ASSUME program' = program
  PROVE  /\ Script' = Script
         /\ \A name : Meant(name)' = Meant(name)
<1>1. Script' = Script
  BY DEF Script
<1>2. ASSUME NEW name PROVE Meant(name)' = Meant(name)
  BY DEF Meant, OfferedObject
<1> QED BY <1>1, <1>2

\* Where a step that is not within a call leads to.
Goes(to, stack) ==
    /\ NoHandlerIn(stack)
    /\ program # "run" /\ to > 1 =>
          /\ Len(stack) >= Least(Place(program, to))
          /\ ~failed => /\ stack = Opened \o Awaiting(program, Place(program, to))
                        /\ OilIsThere(Place(program, to))

(* A step outside the calls that leads where the invariant says.           *)
LEMMA Rests ==
  ASSUME HostInv, AccessCore', ObjectStays', Goes(pc, lua.stack)',
         UNCHANGED <<program, received>>, failed' \in BOOLEAN, failed => failed',
         pc' \in 1..Len(Script) + 1, oil' \subseteq OilFields,
         \/ status' = "run" \/ status' = "panic"
         \/ status' = "exit" /\ (program # "run" => Place(program, pc') = 13)
  PROVE  HostInv'
<1>1. Script' = Script /\ \A name : Meant(name)' = Meant(name)
  BY SameProgram
<1>2. HostTypes'
  BY <1>1 DEF HostInv, HostTypes, Place
<1>3. BetweenCalls'
  BY DEF BetweenCalls, Goes
<1>4. DuringCall'
  BY DEF DuringCall
<1>5. ReceivedAsMeant'
  <2>1. ReceivedAsMeant
    BY DEF HostInv
  <2> QED BY <1>1, <2>1 DEF ReceivedAsMeant
<1> QED BY <1>2, <1>3, <1>4, <1>5 DEF HostInv

(* A value that is not the handler is pushed.                              *)
LEMMA NoneAdded ==
  ASSUME NEW S, NEW s \in Seq(S), NoHandlerIn(s)
  PROVE  \A v \in S : v # Traceback =>
            Append(s, v) \in Seq(S) /\ NoHandlerIn(Append(s, v))
                /\ Len(Append(s, v)) = Len(s) + 1
BY DEF NoHandlerIn

(* What newstate leaves.                                                   *)
LEMMA OpenedIs ==
  /\ Opened \in Seq(Value) /\ NoHandlerIn(Opened) /\ Len(Opened) >= 2
  /\ Opened \o << >> = Opened
<1>1. Opened \in Seq({"table"} \X STRING) /\ Len(Opened) >= 2
  BY HelloHostAssumption
<1>2. \A v \in {"table"} \X STRING : v \in Value /\ v # Traceback
  <2>1. "table" \in LuaTypes
    BY DEF LuaTypes
  <2> QED BY <2>1 DEF Value, Traceback
<1>3. NoHandlerIn(Opened)
  BY <1>1, <1>2 DEF NoHandlerIn
<1>4. Opened \in Seq(Value)
  BY <1>1, <1>2
<1> QED BY <1>1, <1>3, <1>4, ConcatEmptySeq

(* Which program, and where, is at a step of an operation.                 *)
LEMMA ByOperation ==
  ASSUME HostTypes, NEW op, AtStep(op), NEW k, k = Place(program, pc)
  PROVE  /\ op = "newstate" => program # "run" /\ pc = 1
         /\ op = "export" => program = "c++" /\ pc = 2
         /\ op \in {"pushOnStack", "pushfield", "callfield"} => program # "run"
         /\ op \in {"usage", "loadfile", "pcall"} => program = "run"
         /\ program # "run" /\ op \notin {"newstate", "export"} =>
               /\ k \in 1..12 /\ Step = Published(program)[k]
               /\ Published(program)[k].op = op
         /\ program = "run" /\ op = "push" => Step.value \in Value /\ Step.value # Traceback
<1>1. CASE program = "run"
  <2>1. pc \in 1..5
    <3>1. Len(Script) = 5
      BY ONLY <1>1, RunSteps
    <3>2. pc \in 1..Len(Script) + 1 /\ pc <= Len(Script)
      BY DEF AtStep, HostTypes
    <3> QED BY ONLY <3>1, <3>2
  <2>2. pc = 1 \/ pc \in 2..3 \/ pc = 4 \/ pc = 5
    BY <2>1
  <2>3. Step = Script[pc] /\ Step.op = op
    BY DEF AtStep, Step
  <2>4. /\ Script[1].op = "usage" /\ Script[2].op = "push" /\ Script[3].op = "push"
        /\ Script[4].op = "loadfile" /\ Script[5].op = "pcall"
    BY ONLY <1>1, RunSteps
  <2>5. op \in {"usage", "push", "loadfile", "pcall"}
    <3>1. pc = 1 \/ pc = 2 \/ pc = 3 \/ pc = 4 \/ pc = 5
      BY <2>1
    <3> QED BY ONLY <2>3, <2>4, <3>1
  <2>6. op = "push" => pc \in 2..3
    BY ONLY <2>2, <2>3, <2>4
  <2>7. op = "push" => Step.value \in Value /\ Step.value # Traceback
    BY ONLY <1>1, <2>3, <2>6, RunSteps
  <2> QED BY <1>1, <2>5, <2>7
<1>2. CASE program # "run"
  <2>1. \/ op = "newstate" /\ pc = 1
        \/ op = "export" /\ pc = 2 /\ program = "c++"
        \/ /\ k \in 1..12 /\ Step = Published(program)[k] /\ Published(program)[k].op = op
    BY <1>2, Located
  <2>2. ASSUME k \in 1..12
        PROVE  Published(program)[k].op \in {"push", "pushOnStack", "callfield", "pushfield"}
    <3>1. k \in {1, 3, 5, 7} \/ k = 6 \/ k \in {2, 4, 8, 9, 10, 12} \/ k = 11
      BY <2>2
    <3> QED BY <3>1, Operations
  <2> QED BY <1>2, <2>1, <2>2
<1> QED BY <1>1, <1>2

(* The new state has what luaL_openlibs and the library openers leave.     *)
LEMMA NewstateKeeps == ASSUME HostInv, newstate PROVE HostInv'
<1>1. AtStep("newstate") /\ status = "run"
  BY DEF newstate, AtStep
<1>2. program # "run" /\ pc = 1
  BY <1>1, ByOperation DEF HostInv
<1>3. AccessCore' /\ lua'.stack = Opened
  BY OpenedIs, StackSet DEF newstate, SameExports, HostInv
<1>4. Goes(pc', Opened)
  <2>1. pc' = 2 /\ (Place(program, pc') = 0 \/ Place(program, pc') = 1)
    BY <1>2 DEF newstate, Place, Start
  <2>2. \A k \in {0, 1} : Awaiting(program, k) = << >> /\ Least(k) = 2 /\ OilIsThere(k)
    BY DEF Awaiting, Least, OilIsThere
  <2> QED BY <2>1, <2>2, OpenedIs DEF Goes
<1>5. Goes(pc, lua.stack)'
  BY <1>3, <1>4 DEF Goes, newstate, SameWorld, OilIsThere
<1>6. ObjectStays'
  BY <1>2 DEF newstate, SameWorld, SameExports, ObjectStays, HostInv
<1>7. pc' \in 1..Len(Script) + 1
  BY <1>2, ScriptSteps DEF newstate, HostInv, HostTypes, Start
<1> QED BY <1>1, <1>3, <1>5, <1>6, <1>7, Rests DEF newstate, SameWorld, HostInv, HostTypes

(* What is awaited is a stack.                                             *)
LEMMA AwaitingIs == \A k \in 0..13 : Awaiting(program, k) \in Seq(Value)
<1> SUFFICES ASSUME NEW k \in 0..13 PROVE Awaiting(program, k) \in Seq(Value)
  OBVIOUS
<1>1. /\ String("oil") \in Value /\ String("idl") \in Value /\ String("::Hello") \in Value
      /\ Ior(program) \in Value /\ Object(program) \in Value
      /\ ResultOf("oil.newservant") \in Value /\ ResultOf("oil.tostring") \in Value
      /\ <<"function", "oil.run">> \in Value
  BY PushedValues
<1> DEFINE i == Ior(program)
           o == Object(program)
           h == String("::Hello")
           n == ResultOf("oil.newservant")
           t == ResultOf("oil.tostring")
           f == <<"function", "oil.run">>
           a == String("oil")
           b == String("idl")
<1>2. /\ Awaiting(program, 2) = <<a>> /\ Awaiting(program, 4) = <<b>>
      /\ Awaiting(program, 6) = <<i>> /\ Awaiting(program, 7) = <<i, o>>
      /\ Awaiting(program, 8) = <<i, o, h>> /\ Awaiting(program, 9) = <<i, n>>
      /\ Awaiting(program, 10) = <<i, t>> /\ Awaiting(program, 12) = <<f>>
      /\ \A j \in {0, 1, 3, 5, 11, 13} : Awaiting(program, j) = << >>
  BY DEF Awaiting
<1> HIDE DEF i, o, h, n, t, f, a, b
<1>3. /\ <<a>> \in Seq(Value) /\ <<b>> \in Seq(Value) /\ <<i>> \in Seq(Value)
      /\ <<i, o>> \in Seq(Value) /\ <<i, n>> \in Seq(Value) /\ <<i, t>> \in Seq(Value)
      /\ <<f>> \in Seq(Value) /\ <<i, o, h>> \in Seq(Value) /\ << >> \in Seq(Value)
  BY <1>1 DEF i, o, h, n, t, f, a, b
<1>4. \/ k \in {0, 1, 3, 5, 11, 13}
      \/ k = 2 \/ k = 4 \/ k = 6 \/ k = 7 \/ k = 8 \/ k = 9 \/ k = 10 \/ k = 12
  OBVIOUS
<1> QED BY ONLY <1>2, <1>3, <1>4, Zenon

(* A push leads to the next step.                                          *)
LEMMA PushGoes ==
  ASSUME HostInv, status # "called", program # "run", NEW k \in 1..12,
         k = Place(program, pc), k # 2, NEW v \in Value, v # Traceback,
         NEW w, Pushes(k, w), ~failed => v = w
  PROVE  Append(lua.stack, v) \in Seq(Value) /\ Goes(pc + 1, Append(lua.stack, v))
<1>1. /\ lua.stack \in Seq(Value) /\ NoHandlerIn(lua.stack)
      /\ Len(lua.stack) >= Least(k) /\ Len(lua.stack) \in Nat
      /\ ~failed => lua.stack = Opened \o Awaiting(program, k) /\ OilIsThere(k)
  BY NextPlace DEF HostInv, BetweenCalls, AccessCore, StatesAreWellFormed
<1>2. /\ Append(lua.stack, v) \in Seq(Value) /\ NoHandlerIn(Append(lua.stack, v))
      /\ Len(Append(lua.stack, v)) = Len(lua.stack) + 1
  BY <1>1, NoneAdded
<1>3. Place(program, pc + 1) = k + 1
  BY NextPlace DEF HostInv
<1>4. Least(k) \in Nat /\ Least(k + 1) = Least(k) + 1
  BY DEF Pushes, Least
<1>5. ASSUME ~failed
      PROVE  /\ Append(lua.stack, v) = Opened \o Awaiting(program, k + 1)
             /\ OilIsThere(k + 1)
  <2>1. Append(Opened \o Awaiting(program, k), v) = Opened \o Append(Awaiting(program, k), v)
    <3>1. Opened \in Seq(Value) /\ Awaiting(program, k) \in Seq(Value)
      <4>1. k \in 0..13
        OBVIOUS
      <4> QED BY ONLY <4>1, OpenedIs, AwaitingIs, Zenon
    <3> QED BY ONLY <3>1, v \in Value, PushedOn, Zenon
  <2>2. OilIsThere(k + 1)
    BY <1>1, <1>5 DEF OilIsThere
  <2> QED BY <1>1, <1>5, <2>1, <2>2 DEF Pushes
<1>6. Len(Append(lua.stack, v)) >= Least(Place(program, pc + 1))
  BY ONLY <1>1, <1>2, <1>3, <1>4
<1> QED BY <1>2, <1>3, <1>5, <1>6 DEF Goes

(* A step of the script that pushes a value.                               *)
LEMMA PushValueKeeps == ASSUME HostInv, PushValue PROVE HostInv'
<1> DEFINE k == Place(program, pc)
           s == Append(lua.stack, Step.value)
<1>1. AtStep("push") /\ status = "run" /\ HostTypes
  BY DEF PushValue, AtStep, HostInv
<1>2. s \in Seq(Value) /\ Goes(pc + 1, s) /\ (program = "c++" /\ pc + 1 > 2 => pc > 2)
      /\ pc + 1 \in 1..Len(Script) + 1
  <2>1. CASE program = "run"
    <3>1. Step.value \in Value /\ Step.value # Traceback
      BY <1>1, <2>1, ByOperation
    <3>2. lua.stack \in Seq(Value) /\ NoHandlerIn(lua.stack)
      BY <1>1 DEF HostInv, BetweenCalls, AccessCore, StatesAreWellFormed
    <3>3. s \in Seq(Value) /\ NoHandlerIn(s)
      BY <3>1, <3>2, NoneAdded
    <3>4. pc + 1 \in 1..Len(Script) + 1
      <4>1. Len(Script) = 5
        BY ONLY <2>1, RunSteps
      <4> QED BY <1>1, <4>1 DEF AtStep, HostTypes
    <3> QED BY <2>1, <3>3, <3>4 DEF Goes
  <2>2. CASE program # "run"
    <3>1. k \in 1..12 /\ Step = Published(program)[k] /\ Published(program)[k].op = "push"
      BY <1>1, <2>2, ByOperation
    <3>2. Pushes(k, Step.value) /\ k # 2
      BY <3>1, PushSteps
    <3> QED BY <1>1, <2>2, <3>1, <3>2, PushGoes, NextPlace DEF Pushes
  <2> QED BY <2>1, <2>2
<1> HIDE DEF s
<1>3. AccessCore' /\ lua'.stack = s
  BY <1>2, StackSet DEF PushValue, SameExports, HostInv, s
<1>4. Goes(pc, lua.stack)'
  BY <1>2, <1>3 DEF Goes, PushValue, SameWorld, OilIsThere
<1>5. ObjectStays'
  BY <1>2 DEF PushValue, SameWorld, SameExports, ObjectStays, HostInv
<1> QED BY <1>1, <1>2, <1>3, <1>4, <1>5, Rests DEF PushValue, SameWorld, HostInv, HostTypes

(* The box of the object is pushed.                                        *)
LEMMA PushObjectKeeps == ASSUME HostInv, PushObject PROVE HostInv'
<1> DEFINE k == Place(program, pc)
           v == <<"userdata", 1>>
           s == Append(lua.stack, v)
<1>1. AtStep("pushOnStack") /\ status = "run" /\ HostTypes /\ AccessCore
  BY DEF PushObject, AtStep, HostInv
<1>2. program # "run" /\ k \in 1..12 /\ Published(program)[k].op = "pushOnStack"
  BY <1>1, ByOperation
<1>3. k = 6 /\ program = "c++" /\ Pushes(k, v)
  BY <1>2, OtherPushSteps
<1>4. v \in Value /\ v # Traceback
  BY <1>3 DEF Pushes
<1>5. s \in Seq(Value) /\ Goes(pc + 1, s) /\ pc > 2 /\ pc + 1 \in 1..Len(Script) + 1
  BY <1>1, <1>2, <1>3, <1>4, PushGoes, NextPlace
<1>6. 1 \in DOMAIN exported /\ exported[1].alive
  <2>1. exported # << >> /\ exported \in Seq(ObjectRecord)
    BY <1>1, <1>3, <1>5 DEF ObjectStays, HostInv, AccessCore, StatesAreWellFormed
  <2>2. 1 \in DOMAIN exported
    BY <2>1
  <2> QED BY <2>2 DEF ObjectStays, HostInv
<1>7. lua' = LuaState(s, lua.registry, lua.fields, lua.meta, lua.box)
  <2>1. /\ lua = LuaState(lua.stack, lua.registry, lua.fields, lua.meta, lua.box)
        /\ lua.stack \in Seq(Value)
    BY <1>1 DEF AccessCore, StatesAreWellFormed
  <2> DEFINE n == exported[1].registerIndex
  <2>2. /\ OBJECT_REGISTRY \in DOMAIN lua.registry
        /\ n \in DOMAIN lua.registry[OBJECT_REGISTRY]
        /\ lua.registry[OBJECT_REGISTRY][n] = v
    BY <1>1, <1>6, LiveObject
  <2>3. lua' = pushObject(lua, n)
    BY DEF PushObject
  <2>4. pushObject(LuaState(lua.stack, lua.registry, lua.fields, lua.meta, lua.box), n) =
           LuaState(Append(lua.stack, v), lua.registry, lua.fields, lua.meta, lua.box)
    BY <1>4, <2>1, <2>2, ObjectPushed
  <2> QED BY ONLY <2>1, <2>3, <2>4, Zenon
<1> HIDE DEF s
<1>8. AccessCore' /\ lua'.stack = s
  BY <1>1, <1>5, <1>7, StackKeeps DEF PushObject, SameExports
<1>9. Goes(pc, lua.stack)'
  BY <1>5, <1>8 DEF Goes, PushObject, SameWorld, OilIsThere
<1>10. ObjectStays'
  BY <1>5 DEF PushObject, SameWorld, SameExports, ObjectStays, HostInv
<1> QED BY <1>1, <1>5, <1>8, <1>9, <1>10, Rests DEF PushObject, SameWorld, HostInv, HostTypes

(* The function oil.run is pushed, or nil.                                 *)
LEMMA PushOilFieldKeeps == ASSUME HostInv, PushOilField PROVE HostInv'
<1> DEFINE k == Place(program, pc)
           v == IF "oil.run" \in oil \cup {"require"} THEN <<"function", "oil.run">>
                                                      ELSE Nil
           s == Append(lua.stack, v)
<1>1. AtStep("pushfield") /\ status = "run" /\ HostTypes
  BY DEF PushOilField, AtStep, HostInv
<1>2. /\ program # "run" /\ k \in 1..12 /\ Step = Published(program)[k]
      /\ Published(program)[k].op = "pushfield"
  BY <1>1, ByOperation
<1>3. k = 11 /\ Step.name = "oil.run" /\ Pushes(k, <<"function", "oil.run">>)
  BY <1>2, OtherPushSteps
<1>4. v \in Value /\ v # Traceback
  <2>1. Nil \in Value /\ Nil # Traceback
    BY PushedValues
  <2> QED BY <1>3, <2>1 DEF Pushes
<1>5. ~failed => v = <<"function", "oil.run">>
  <2> SUFFICES ASSUME ~failed PROVE oil = OilFields
    BY DEF OilFields
  <2>1. OilIsThere(k)
    BY <1>1, <1>2, NextPlace DEF HostInv, BetweenCalls
  <2> QED BY <1>3, <2>1 DEF OilIsThere
<1>6. s \in Seq(Value) /\ Goes(pc + 1, s) /\ pc > 1 /\ pc + 1 \in 1..Len(Script) + 1
      /\ (program = "c++" => pc > 2)
  <2>1. s \in Seq(Value) /\ Goes(pc + 1, s)
    <3> HIDE DEF v
    <3> QED BY <1>1, <1>2, <1>3, <1>4, <1>5, PushGoes
  <2> QED BY <1>1, <1>2, <2>1, NextPlace
<1>7. LuaStackBecomes(s)
  BY <1>3 DEF PushOilField, pushfield
<1> HIDE DEF s
<1>8. AccessCore' /\ lua'.stack = s
  BY <1>6, <1>7, StackSet DEF PushOilField, SameExports, HostInv
<1>9. Goes(pc, lua.stack)'
  BY <1>6, <1>8 DEF Goes, PushOilField, SameWorld, OilIsThere
<1>10. ObjectStays'
  BY <1>6 DEF PushOilField, SameWorld, SameExports, ObjectStays, HostInv
<1> QED BY <1>1, <1>6, <1>8, <1>9, <1>10, Rests DEF PushOilField, SameWorld, HostInv, HostTypes

(* The class and the object are exported before anything is published.     *)
LEMMA ExportKeeps == ASSUME HostInv, Export PROVE HostInv'
<1>1. AtStep("export") /\ status = "run" /\ HostTypes /\ AccessCore
  BY DEF Export, AtStep, HostInv
<1>2. program = "c++" /\ pc = 2 /\ Len(Script) = 14
  BY <1>1, ByOperation, ScriptSteps DEF Start
<1>3. Goes(2, lua.stack) /\ Goes(3, lua.stack)
  <2>1. Place(program, 2) = 0 /\ Place(program, 3) = 1
    BY <1>2 DEF Place, Start
  <2>2. /\ Awaiting(program, 0) = Awaiting(program, 1) /\ Least(0) = Least(1)
        /\ OilIsThere(0) /\ OilIsThere(1)
    BY DEF Awaiting, Least, OilIsThere
  <2>3. Goes(2, lua.stack)
    <3>1. BetweenCalls /\ status # "called"
      BY <1>1 DEF HostInv
    <3>2. Goes(pc, lua.stack)
      BY ONLY <3>1 DEF BetweenCalls, Goes
    <3> QED BY ONLY <1>2, <3>2
  <2>4. Goes(3, lua.stack)
    <3>1. NoHandlerIn(lua.stack)
      BY ONLY <2>3 DEF Goes
    <3>2. /\ Len(lua.stack) >= Least(0)
          /\ ~failed => lua.stack = Opened \o Awaiting(program, 0)
      BY ONLY <1>2, <2>1, <2>3 DEF Goes
    <3>3. /\ Len(lua.stack) >= Least(1)
          /\ ~failed => lua.stack = Opened \o Awaiting(program, 1)
      BY ONLY <2>2, <3>2
    <3> QED BY ONLY <2>1, <2>2, <3>1, <3>3 DEF Goes
  <2> QED BY <2>3, <2>4
<1>4. /\ UNCHANGED <<program, received, oil, failed, status>> /\ pc' \in {2, 3}
      /\ failed' \in BOOLEAN /\ oil' \subseteq OilFields
  BY <1>1, <1>2 DEF Export, SameWorld, HostTypes
<1>5. AccessCore' /\ lua'.stack = lua.stack /\ ObjectStays'
  <2>1. \A u \in DOMAIN exported : exported[u].alive
    BY DEF HostInv, ObjectStays
  <2>2. ASSUME NEW c \in Class, NewExported(c), pc' = pc
        PROVE  AccessCore' /\ lua'.stack = lua.stack /\ ObjectStays'
    <3>1. AccessCore' /\ lua'.stack = lua.stack
      BY <1>1, <2>2, ClassKeeps
    <3>2. exported' = exported
      BY <2>2 DEF NewExported
    <3> QED BY <1>2, <2>1, <2>2, <3>1, <3>2 DEF ObjectStays
  <2>3. ASSUME NEW a \in Actual, newObject(a)
        PROVE  AccessCore' /\ lua'.stack = lua.stack /\ ObjectStays'
    <3>1. AccessCore' /\ lua'.stack = lua.stack
      BY <1>1, <2>3, ObjectKeeps
    <3>2. PICK o : exported' = Append(exported, o) /\ o.alive
      BY <2>3 DEF newObject, ExportedObject
    <3>3. exported \in Seq(ObjectRecord)
      BY <1>1 DEF AccessCore, StatesAreWellFormed
    <3>4. exported' \in Seq(ObjectRecord)
      BY <3>1 DEF AccessCore, StatesAreWellFormed
    <3>5. exported' # << >> /\ \A u \in DOMAIN exported' : exported'[u].alive
      <4>1. /\ DOMAIN exported' = 1..Len(exported) + 1 /\ Len(exported) \in Nat
            /\ \A i \in 1..Len(exported) : exported'[i] = exported[i]
            /\ exported'[Len(exported) + 1] = o /\ DOMAIN exported = 1..Len(exported)
        BY <3>2, <3>3, AppendProperties
      <4>2. ASSUME NEW u \in DOMAIN exported' PROVE exported'[u].alive
        <5>1. u \in 1..Len(exported) \/ u = Len(exported) + 1
          BY <4>1
        <5> QED BY <2>1, <3>2, <4>1, <5>1
      <4>3. exported' # << >>
        BY <3>2, <3>3
      <4> QED BY <4>2, <4>3
    <3> QED BY <3>1, <3>5 DEF ObjectStays
  <2> QED BY <2>2, <2>3 DEF Export
<1>6. Goes(pc, lua.stack)'
  BY <1>3, <1>4, <1>5 DEF Goes, OilIsThere
<1> QED BY <1>1, <1>2, <1>4, <1>5, <1>6, Rests

(* Stacks without the handler, one on the other, and one without its top.  *)
LEMMA NoneJoined ==
  ASSUME NEW s \in Seq(Value), NEW r \in Seq(Value), NoHandlerIn(s), NoHandlerIn(r)
  PROVE  s \o r \in Seq(Value) /\ NoHandlerIn(s \o r) /\ Len(s \o r) = Len(s) + Len(r)
<1>1. Joined(s \o r, s, r) /\ s \o r \in Seq(Value)
  BY ConcatProperties DEF Joined
<1>2. Len(s) \in Nat /\ Len(r) \in Nat
  OBVIOUS
<1>3. ASSUME NEW i \in 1..Len(s) + Len(r) PROVE (s \o r)[i] # Traceback
  <2>1. CASE i <= Len(s)
    <3>1. i \in 1..Len(s) /\ (s \o r)[i] = s[i]
      BY <1>1, <1>2, <2>1 DEF Joined
    <3> QED BY <3>1 DEF NoHandlerIn
  <2>2. CASE ~(i <= Len(s))
    <3>1. i - Len(s) \in 1..Len(r) /\ (s \o r)[i] = r[i - Len(s)]
      BY <1>1, <1>2, <2>2 DEF Joined
    <3> QED BY <3>1 DEF NoHandlerIn
  <2> QED BY <2>1, <2>2
<1> QED BY <1>1, <1>3 DEF NoHandlerIn, Joined

(* A stack without the handler, without its top.                           *)
LEMMA NonePopped ==
  ASSUME NEW s \in Seq(Value), NoHandlerIn(s)
  PROVE  lua_pop(s, 1) \in Seq(Value) /\ NoHandlerIn(lua_pop(s, 1))
<1>1. CASE s = << >>
  BY <1>1 DEF lua_pop, NoHandlerIn
<1>2. CASE s # << >>
  BY <1>2 DEF lua_pop, NoHandlerIn
<1> QED BY <1>1, <1>2

(* The steps of the program that runs a file.                              *)
LEMMA UsageKeeps == ASSUME HostInv, Usage PROVE HostInv'
<1>1. AtStep("usage") /\ status = "run" /\ HostTypes /\ AccessCore
  BY DEF Usage, AtStep, HostInv
<1>2. program = "run"
  BY <1>1, ByOperation
<1>3. Len(Script) = 5 /\ pc \in 1..5
  <2>1. Len(Script) = 5
    BY <1>2, RunSteps
  <2> QED BY <1>1, <2>1 DEF AtStep, HostTypes
<1>4. AccessCore'
  BY <1>1, CoreKept DEF Usage, SameExports
<1>5. NoHandlerIn(lua.stack)
  BY <1>1 DEF HostInv, BetweenCalls
<1>6. Goes(pc, lua.stack)'
  BY <1>2, <1>5 DEF Goes, Usage, SameWorld, NoHandlerIn
<1>7. ObjectStays'
  BY <1>2 DEF Usage, SameWorld, SameExports, ObjectStays, HostInv
<1> QED BY <1>1, <1>2, <1>3, <1>4, <1>6, <1>7, Rests DEF Usage, SameWorld, HostTypes

(* luaL_loadfile pushes the chunk or a message.                            *)
LEMMA LoadFileKeeps == ASSUME HostInv, LoadFile PROVE HostInv'
<1>1. AtStep("loadfile") /\ status = "run" /\ HostTypes /\ AccessCore
  BY DEF LoadFile, AtStep, HostInv
<1>2. program = "run"
  BY <1>1, ByOperation
<1>3. Len(Script) = 5 /\ pc \in 1..5
  <2>1. Len(Script) = 5
    BY <1>2, RunSteps
  <2> QED BY <1>1, <2>1 DEF AtStep, HostTypes
<1>4. lua.stack \in Seq(Value) /\ NoHandlerIn(lua.stack)
  BY <1>1 DEF HostInv, BetweenCalls, AccessCore, StatesAreWellFormed
<1>5. PICK v \in {<<"function", "chunk">>, String("message")} :
         LuaStackBecomes(Append(lua.stack, v))
  BY DEF LoadFile
<1>6. v \in Value /\ v # Traceback
  <2>1. <<"function", "chunk">> \in Value /\ <<"function", "chunk">> # Traceback
    <3>1. "function" \in LuaTypes /\ "chunk" \in Names
      BY DEF LuaTypes, Names
    <3> QED BY <3>1 DEF Value, Traceback
  <2>2. String("message") \in Value /\ String("message") # Traceback
    BY PushedValues DEF Errors
  <2> QED BY <1>5, <2>1, <2>2
<1>7. Append(lua.stack, v) \in Seq(Value) /\ NoHandlerIn(Append(lua.stack, v))
  BY <1>4, <1>6, NoneAdded
<1>8. AccessCore' /\ lua'.stack = Append(lua.stack, v)
  BY <1>1, <1>5, <1>7, StackSet DEF LoadFile, SameExports
<1>9. Goes(pc, lua.stack)'
  BY <1>2, <1>7, <1>8 DEF Goes, LoadFile, SameWorld, NoHandlerIn
<1>10. ObjectStays'
  BY <1>2 DEF LoadFile, SameWorld, SameExports, ObjectStays, HostInv
<1>11. /\ UNCHANGED <<program, received, oil, status>> /\ failed' \in BOOLEAN
       /\ (failed => failed') /\ pc' \in 1..Len(Script) + 1
  <2>1. /\ UNCHANGED <<program, received, oil, status>>
        /\ failed' = failed \/ failed' = TRUE
        /\ pc' = pc + 1 \/ pc' = Len(Script) + 1
    BY DEF LoadFile, SameWorld
  <2>2. failed \in BOOLEAN
    BY <1>1 DEF HostTypes
  <2>3. pc' \in 1..Len(Script) + 1
    BY ONLY <1>3, <2>1
  <2>4. failed' \in BOOLEAN /\ (failed => failed')
    <3>1. CASE failed' = failed
      BY ONLY <2>2, <3>1
    <3>2. CASE failed' = TRUE
      BY ONLY <3>2
    <3> QED BY ONLY <2>1, <3>1, <3>2, Zenon
  <2> QED BY <2>1, <2>3, <2>4
<1>12. oil' \subseteq OilFields
  BY <1>1, <1>11 DEF HostTypes
<1> QED BY <1>1, <1>8, <1>9, <1>10, <1>11, <1>12, Rests

(* lua_pcall takes the chunk off the stack; an error leaves its value.     *)
LEMMA CallChunkKeeps == ASSUME HostInv, CallChunk PROVE HostInv'
<1>1. AtStep("pcall") /\ status = "run" /\ HostTypes /\ AccessCore
  BY DEF CallChunk, AtStep, HostInv
<1>2. program = "run"
  BY <1>1, ByOperation
<1>3. Len(Script) = 5 /\ pc \in 1..5
  <2>1. Len(Script) = 5
    BY <1>2, RunSteps
  <2> QED BY <1>1, <2>1 DEF AtStep, HostTypes
<1>4. lua.stack \in Seq(Value) /\ NoHandlerIn(lua.stack)
  BY <1>1 DEF HostInv, BetweenCalls, AccessCore, StatesAreWellFormed
<1>5. PICK r : /\ LuaStackBecomes(Called(lua.stack, 0, r))
               /\ r \in Seq(Value) /\ NoHandlerIn(r)
  <2>1. << >> \in Seq(Value) /\ NoHandlerIn(<< >>)
    BY EmptySeq DEF NoHandlerIn
  <2>2. ASSUME NEW error \in Errors
        PROVE  <<error>> \in Seq(Value) /\ NoHandlerIn(<<error>>)
    <3>1. error \in Value /\ error # Traceback
      BY PushedValues
    <3> QED BY <3>1 DEF NoHandlerIn
  <2> QED BY <2>1, <2>2 DEF CallChunk
<1> DEFINE s == lua_pop(lua.stack, 1) \o r
<1>6. s \in Seq(Value) /\ NoHandlerIn(s)
  BY <1>4, <1>5, NonePopped, NoneJoined
<1>7. LuaStackBecomes(s)
  BY <1>5 DEF Called
<1> HIDE DEF s
<1>8. AccessCore' /\ lua'.stack = s
  BY <1>1, <1>6, <1>7, StackSet DEF CallChunk, SameExports
<1>9. Goes(pc, lua.stack)'
  BY <1>2, <1>6, <1>8 DEF Goes, CallChunk, SameWorld, NoHandlerIn
<1>10. ObjectStays'
  BY <1>2 DEF CallChunk, SameWorld, SameExports, ObjectStays, HostInv
<1>11. /\ UNCHANGED <<program, received, oil, status>> /\ failed' \in BOOLEAN
       /\ (failed => failed') /\ pc' \in 1..Len(Script) + 1
  <2>1. /\ UNCHANGED <<program, received, oil, status>>
        /\ failed' = failed \/ failed' = TRUE
        /\ pc' = pc + 1 \/ pc' = Len(Script) + 1
    BY DEF CallChunk, SameWorld
  <2>2. failed \in BOOLEAN
    BY <1>1 DEF HostTypes
  <2>3. pc' \in 1..Len(Script) + 1
    BY ONLY <1>3, <2>1
  <2>4. failed' \in BOOLEAN /\ (failed => failed')
    <3>1. CASE failed' = failed
      BY ONLY <2>2, <3>1
    <3>2. CASE failed' = TRUE
      BY ONLY <3>2
    <3> QED BY ONLY <2>1, <3>1, <3>2, Zenon
  <2> QED BY <2>1, <2>3, <2>4
<1>12. oil' \subseteq OilFields
  BY <1>1, <1>11 DEF HostTypes
<1> QED BY <1>1, <1>8, <1>9, <1>10, <1>11, <1>12, Rests

(* The end of a program.                                                   *)
LEMMA ExitKeeps == ASSUME HostInv, Exit PROVE HostInv'
<1>1. status = "run" /\ HostTypes /\ AccessCore /\ pc > Len(Script)
  BY DEF Exit, HostInv
<1>2. program # "run" => Place(program, pc) = 13
  <2> SUFFICES ASSUME program # "run" PROVE Place(program, pc) = 13
    OBVIOUS
  <2>1. Len(Script) = Start(program) + 12 /\ Start(program) \in Nat
    BY <1>1, ScriptSteps DEF HostTypes, Start
  <2> QED BY <1>1, <2>1 DEF Place, HostTypes
<1>3. AccessCore'
  BY <1>1, CoreKept DEF Exit, SameExports
<1>4. Goes(pc, lua.stack)
  BY <1>1 DEF HostInv, BetweenCalls, Goes
<1>5. Goes(pc, lua.stack)'
  BY <1>4 DEF Goes, Exit, SameWorld, NoHandlerIn, OilIsThere
<1>6. ObjectStays'
  BY DEF Exit, SameWorld, SameExports, ObjectStays, HostInv
<1> QED BY <1>1, <1>2, <1>3, <1>5, <1>6, Rests DEF Exit, SameWorld, HostTypes

(* A step that leaves the program where it is.                             *)
LEMMA QuietKeeps ==
  ASSUME HostInv, UNCHANGED <<lua, classIndex, exported, program, pc, status, base, oil,
                              received, failed>>
  PROVE  HostInv'
<1>1. Script' = Script /\ \A name : Meant(name)' = Meant(name)
  BY SameProgram
<1>2. AccessCore'
  BY CoreKept DEF HostInv
<1>3. HostTypes'
  BY <1>1 DEF HostInv, HostTypes, Place
<1>4. ObjectStays'
  BY DEF HostInv, ObjectStays
<1>5. BetweenCalls'
  BY DEF HostInv, BetweenCalls, NoHandlerIn, OilIsThere
<1>6. DuringCall'
  <2> SUFFICES ASSUME status = "called" PROVE DuringCall'
    BY DEF DuringCall
  <2>1. PICK s, args \in Seq(Value), f \in Value : InCall(s, args, f, Place(program, pc))
    BY DEF HostInv, DuringCall
  <2>2. InCall(s, args, f, Place(program, pc))'
    BY <1>1, <2>1 DEF InCall, NoHandlerIn, OilIsThere
  <2> QED BY <2>1, <2>2 DEF DuringCall
<1>7. ReceivedAsMeant'
  BY <1>1 DEF HostInv, ReceivedAsMeant
<1> QED BY <1>2, <1>3, <1>4, <1>5, <1>6, <1>7 DEF HostInv

(* The top n values, and what is below them.                               *)
LEMMA Parted ==
  ASSUME NEW stack \in Seq(Value), NoHandlerIn(stack), NEW n \in Nat, n <= Len(stack)
  PROVE  \E s, args \in Seq(Value) :
            /\ stack = s \o args /\ Len(args) = n /\ Len(s) + Len(args) = Len(stack)
            /\ NoHandlerIn(s)
<1> DEFINE l == Len(stack)
           m == l - n
           s == SubSeq(stack, 1, m)
           args == SubSeq(stack, m + 1, l)
<1>1. l \in Nat /\ m \in Nat /\ m <= l /\ \A i \in 1..l : stack[i] \in Value
  OBVIOUS
<1>2. stack = s \o args
  <2>1. SubSeq(stack, 1, m) \o SubSeq(stack, m + 1, l) = SubSeq(stack, 1, l)
    <3>1. 1 \in 1..Len(stack) + 1 /\ m \in 1 - 1..Len(stack) /\ l \in m..Len(stack)
      BY <1>1
    <3> HIDE DEF m, l
    <3> QED BY <3>1, ConcatAdjacentSubSeq
  <2> QED BY <2>1, SubSeqFull
<1>3. s \in Seq(Value) /\ Len(s) = m /\ \A i \in 1..m : s[i] = stack[i]
  BY <1>1
<1>4. args \in Seq(Value) /\ Len(args) = n
  BY <1>1
<1>5. NoHandlerIn(s)
  BY <1>1, <1>3 DEF NoHandlerIn
<1> HIDE DEF s, args
<1>6. Len(s) + Len(args) = Len(stack)
  BY <1>1, <1>3, <1>4
<1> QED BY <1>2, <1>3, <1>4, <1>5, <1>6

(* callfield up to lua_pcall: the frame is built.                          *)
LEMMA CallBeginsKeeps == ASSUME HostInv, CallBegins PROVE HostInv'
<1> DEFINE name == Step.name
           narg == Step.narg
           function == IF name \in oil \cup {"require"} THEN <<"function", name>> ELSE Nil
<1>1. AtStep("callfield") /\ status = "run" /\ HostTypes /\ AccessCore
  BY DEF CallBegins, AtStep, HostInv
<1>2. PICK k : k = Place(program, pc)
  OBVIOUS
<1>3. /\ program # "run" /\ k \in 1..12 /\ Step = Published(program)[k]
      /\ Published(program)[k].op = "callfield" /\ pc > 1
  BY <1>1, <1>2, ByOperation, NextPlace
<1>4. Calls(k, name, narg, Step.nres)
  BY <1>3, CallSteps
<1>5. /\ lua.stack \in Seq(Value) /\ NoHandlerIn(lua.stack) /\ Len(lua.stack) >= Least(k)
      /\ ~failed => lua.stack = Opened \o Awaiting(program, k) /\ OilIsThere(k)
  BY <1>1, <1>2, <1>3 DEF HostInv, BetweenCalls, AccessCore, StatesAreWellFormed
<1>6. narg \in Nat /\ narg <= Least(k)
  BY <1>4 DEF Calls
<1> HIDE DEF name, narg, function
<1>7. PICK s \in Seq(Value), args \in Seq(Value) :
         /\ lua.stack = s \o args /\ Len(args) = narg
         /\ Len(s) + Len(args) = Len(lua.stack) /\ NoHandlerIn(s)
         /\ ~failed => s = Opened \o Front(program, k) /\ args = Meant(name)
  <2>1. CASE failed
    <3>1. narg <= Len(lua.stack)
      BY <1>4, <1>5, <1>6 DEF Calls
    <3> QED BY <1>5, <1>6, <2>1, <3>1, Parted
  <2>2. CASE ~failed
    <3> DEFINE a == Front(program, k)
               b == Meant(name)
               s == Opened \o a
    <3>1. a \in Seq(Value) /\ b \in Seq(Value) /\ NoHandlerIn(a) /\ Len(b) = narg
      BY <1>4 DEF Calls, NoHandlerIn
    <3>2. Awaiting(program, k) = a \o b
      BY <1>4 DEF Calls
    <3> HIDE DEF a, b
    <3>3. s \in Seq(Value) /\ NoHandlerIn(s)
      BY <3>1, OpenedIs, NoneJoined
    <3>4. lua.stack = s \o b
      <4>1. (Opened \o a) \o b = Opened \o (a \o b)
        BY <3>1, OpenedIs, ConcatAssociative
      <4> QED BY ONLY <1>5, <2>2, <3>2, <4>1, Zenon
    <3> HIDE DEF s
    <3>5. Len(s) + Len(b) = Len(lua.stack)
      BY ONLY <3>1, <3>3, <3>4, ConcatProperties
    <3> QED BY <3>1, <3>3, <3>4, <3>5 DEF s, a, b
  <2> QED BY <2>1, <2>2
<1>8. PICK f \in Value : f = function
  <2>1. name \in OilFields \cup {"require"}
    BY <1>4 DEF Calls
  <2> QED BY <2>1, PushedValues DEF function
<1>9. Traceback \in Value
  BY PushedValues
<1>10. /\ Arranged(Append(lua.stack, f), narg) = Frame(s, f, args)
       /\ ArgBase(Append(lua.stack, f), narg) = Len(s) + 1
  <2>1. /\ Arranged(Append(s \o args, f), Len(args)) = Frame(s, f, args)
        /\ ArgBase(Append(s \o args, f), Len(args)) = Len(s) + 1
    BY ONLY <1>9, f \in Value, s \in Seq(Value), args \in Seq(Value), CallArranged
  <2> QED BY ONLY <1>7, <2>1, Zenon
<1>11. /\ Frame(s, f, args) \in Seq(Value)
       /\ Arguments(Frame(s, f, args), Len(args)) = args
  BY ONLY <1>9, f \in Value, s \in Seq(Value), args \in Seq(Value), FrameFacts
<1>12. pushfield(lua.stack, name) = Append(lua.stack, f)
  BY <1>8 DEF pushfield, function
<1>13. LuaStackBecomes(Frame(s, f, args)) /\ base' = Len(s) + 1
  <2>1. /\ LuaStackBecomes(Arranged(pushfield(lua.stack, name), narg))
        /\ base' = ArgBase(pushfield(lua.stack, name), narg)
    BY DEF CallBegins, name, narg
  <2> QED BY ONLY <1>10, <1>12, <2>1, Zenon
<1>14. AccessCore' /\ lua'.stack = Frame(s, f, args)
  BY <1>1, <1>11, <1>13, StackSet DEF CallBegins, SameExports
<1>15. Script' = Script /\ \A x : Meant(x)' = Meant(x)
  BY SameProgram DEF CallBegins
<1>16. HostTypes' /\ ObjectStays' /\ BetweenCalls'
  BY <1>1, <1>2, <1>3, <1>15
     DEF CallBegins, HostTypes, Place, SameExports, ObjectStays, HostInv, BetweenCalls
<1>17. UNCHANGED <<program, pc, oil, failed>> /\ status' = "called"
  BY DEF CallBegins
<1>18. DuringCall'
  <2>1. ~failed => f = <<"function", name>>
    <3> SUFFICES ASSUME ~failed PROVE name \in oil \cup {"require"}
      BY <1>8 DEF function
    <3>1. name \in OilFields \cup {"require"} /\ (name = "require" <=> k = 2) /\ k \in 2..12
      BY <1>4 DEF Calls
    <3> QED BY <1>5, <3>1 DEF OilIsThere
  <2>2. name = Published(program)[k].name /\ narg = Published(program)[k].narg
    BY <1>3 DEF name, narg
  <2>3. /\ NoHandlerIn(s) /\ Len(s) + Len(args) >= Least(k) /\ Len(args) = narg
        /\ ~failed => s = Opened \o Front(program, k) /\ args = Meant(name) /\ OilIsThere(k)
    BY ONLY <1>5, <1>7
  <2>4. /\ Published(program') = Published(program) /\ Front(program', k) = Front(program, k)
        /\ (OilIsThere(k)' <=> OilIsThere(k)) /\ (failed' <=> failed)
        /\ Meant(Published(program)[k].name)' = Meant(name)
    <3>1. /\ Published(program') = Published(program) /\ Front(program', k) = Front(program, k)
          /\ (OilIsThere(k)' <=> OilIsThere(k)) /\ (failed' <=> failed)
      BY <1>17 DEF OilIsThere
    <3>2. Meant(Published(program)[k].name)' = Meant(name)
      BY ONLY <1>15, <2>2, <3>1
    <3> QED BY <3>1, <3>2
  <2>5. InCall(s, args, f, k)'
    <3>1. (lua.stack)' = Frame(s, f, args) /\ base' = Len(s) + 1
      BY <1>13, <1>14
    <3>2. Len(args) = Published(program')[k].narg
      BY ONLY <2>2, <2>3, <2>4
    <3>3. ~failed' => /\ s = Opened \o Front(program', k)
                      /\ args = Meant(Published(program)[k].name)'
                      /\ f = <<"function", Published(program')[k].name>>
                      /\ OilIsThere(k)'
      BY ONLY <2>1, <2>2, <2>3, <2>4, Zenon
    <3>4. NoHandlerIn(s) /\ Len(s) + Len(args) >= Least(k)
      BY <2>3
    <3> QED BY ONLY <3>1, <3>2, <3>3, <3>4 DEF InCall
  <2>6. k = Place(program, pc)'
    BY <1>2, <1>17 DEF Place
  <2> QED BY ONLY <2>5, <2>6, f \in Value, s \in Seq(Value), args \in Seq(Value), Zenon
          DEF DuringCall
<1>19. ReceivedAsMeant'
  <2> SUFFICES ASSUME ~failed', NEW x \in DOMAIN received'
               PROVE  received'[x] = Meant(x)
    BY <1>15 DEF ReceivedAsMeant
  <2>1. ~failed /\ ReceivedAsMeant
    BY DEF CallBegins, HostInv
  <2>2. received' = IF Callee(Frame(s, f, args), narg) = Nil THEN received
                    ELSE WithEntry(received, name, Arguments(Frame(s, f, args), narg))
    BY <1>10, <1>12 DEF CallBegins, name, narg
  <2>3. Arguments(Frame(s, f, args), narg) = args
    BY ONLY <1>7, <1>11
  <2>4. CASE x \in DOMAIN received /\ received'[x] = received[x]
    BY <2>1, <2>4 DEF ReceivedAsMeant
  <2>5. CASE x = name /\ received'[x] = args
    BY <1>7, <2>1, <2>5
  <2> QED BY <2>2, <2>3, <2>4, <2>5 DEF WithEntry
<1> QED BY <1>14, <1>16, <1>18, <1>19 DEF HostInv

(* The results of a call take the place of the function and its arguments. *)
LEMMA FrameCalled ==
  \A s, args, results \in Seq(Value), f \in Value :
     Called(Frame(s, f, args), Len(args), results) = s \o (<<Traceback>> \o results)
<1> SUFFICES ASSUME NEW s \in Seq(Value), NEW args \in Seq(Value),
                    NEW results \in Seq(Value), NEW f \in Value
             PROVE  Called(Frame(s, f, args), Len(args), results) =
                       s \o (<<Traceback>> \o results)
  OBVIOUS
<1>0. Traceback \in Value
  BY PushedValues
<1> DEFINE stack == Frame(s, f, args)
           n == Len(args)
           w == <<f>> \o args
           u == s \o <<Traceback>>
<1>1. w \in Seq(Value) /\ Len(w) = n + 1
  BY Fronted
<1>2. u \in Seq(Value) /\ <<Traceback>> \in Seq(Value)
  BY <1>0
<1>3. stack = u \o w
  BY <1>1, <1>2, ConcatAssociative DEF Frame
<1> HIDE DEF stack, w, u
<1>4. lua_pop(stack, n + 1) = u
  <2>1. lua_pop(u \o w, Len(w)) = u
    BY <1>1, <1>2, TopPopped
  <2> QED BY ONLY <1>1, <1>3, <2>1, Zenon
<1>5. u \o results = s \o (<<Traceback>> \o results)
  BY <1>2, ConcatAssociative DEF u
<1>6. Called(stack, n, results) = s \o (<<Traceback>> \o results)
  BY <1>4, <1>5 DEF Called
<1> QED BY <1>6 DEF stack, n

(* What is put on newstate()'s, step by step.                              *)
LEMMA OnOpened ==
  \A a, b \in Seq(Value) : (Opened \o a) \o b = Opened \o (a \o b)
<1>1. Opened \in Seq(Value)
  BY OpenedIs
<1> QED BY ONLY <1>1, ConcatAssociative

(* What is known during a call.                                            *)
LEMMA InsideCall ==
  ASSUME HostInv, status = "called"
  PROVE  /\ program # "run" /\ Calls(Place(program, pc), Step.name, Step.narg, Step.nres)
         /\ pc + 1 \in 1..Len(Script) + 1 /\ pc > 1 /\ (program = "c++" => pc > 2)
         /\ Place(program, pc + 1) = Place(program, pc) + 1
         /\ Step = Published(program)[Place(program, pc)]
         /\ \E s, args \in Seq(Value), f \in Value :
              /\ InCall(s, args, f, Place(program, pc))
              /\ Len(args) = Step.narg /\ base = Len(s) + 1
              /\ NoHandlerIn(s) /\ Len(s) >= Least(Place(program, pc) + 1)
              /\ \A results \in Seq(Value) :
                   Called(lua.stack, Step.narg, results) = s \o (<<Traceback>> \o results)
<1> DEFINE k == Place(program, pc)
<1>1. /\ program # "run" /\ k \in 1..12 /\ Published(program)[k].op = "callfield" /\ HostTypes
      /\ program \in {"c++", "tolua++"}
  BY DEF HostInv, HostTypes
<1>2. Step = Published(program)[k]
  <2>1. Script[Start(program) + k] = Published(program)[k]
    BY <1>1, ScriptSteps
  <2>2. pc = Start(program) + k
    BY <1>1 DEF Place, Start, HostTypes
  <2> QED BY <2>1, <2>2 DEF Step
<1>3. Calls(k, Step.name, Step.narg, Step.nres)
  BY <1>1, <1>2, CallSteps
<1>4. /\ pc + 1 \in 1..Len(Script) + 1 /\ pc > 1 /\ (program = "c++" => pc > 2)
      /\ Place(program, pc + 1) = k + 1
  BY <1>1, NextPlace
<1> HIDE DEF k
<1>5. PICK s, args \in Seq(Value), f \in Value : InCall(s, args, f, k)
  BY DEF HostInv, DuringCall, k
<1>6. Len(args) = Step.narg /\ base = Len(s) + 1 /\ NoHandlerIn(s)
  BY <1>2, <1>5 DEF InCall
<1>7. Len(s) >= Least(k + 1)
  <2>1. Len(s) + Len(args) >= Least(k)
    BY <1>5 DEF InCall
  <2>2. Least(k + 1) + Step.narg <= Least(k) /\ Least(k) \in Nat /\ Least(k + 1) \in Nat
    BY <1>3 DEF Calls
  <2>3. Len(s) \in Nat
    OBVIOUS
  <2> QED BY ONLY <1>6, <2>1, <2>2, <2>3
<1>8. ASSUME NEW results \in Seq(Value)
      PROVE  Called(lua.stack, Step.narg, results) = s \o (<<Traceback>> \o results)
  <2>1. Called(Frame(s, f, args), Len(args), results) = s \o (<<Traceback>> \o results)
    BY ONLY results \in Seq(Value), f \in Value, s \in Seq(Value), args \in Seq(Value),
            FrameCalled, Zenon
  <2>2. lua.stack = Frame(s, f, args)
    BY <1>5 DEF InCall
  <2> QED BY ONLY <1>6, <2>1, <2>2, Zenon
<1> QED BY ONLY <1>1, <1>2, <1>3, <1>4, <1>5, <1>6, <1>7, <1>8, Zenon DEF k

(* lua_pcall returns: the results take the place of the frame.             *)
LEMMA CallReturnsKeeps == ASSUME HostInv, CallReturns PROVE HostInv'
<1> DEFINE name == Step.name
           results == IF Step.nres = 0 THEN << >> ELSE <<ResultOf(Step.name)>>
<1>1. status = "called" /\ HostTypes /\ AccessCore
  BY DEF CallReturns, HostInv
<1>2. PICK k : k = Place(program, pc)
  OBVIOUS
<1>3. /\ program # "run" /\ Calls(k, name, Step.narg, Step.nres)
      /\ pc + 1 \in 1..Len(Script) + 1 /\ pc > 1 /\ (program = "c++" => pc > 2)
      /\ Place(program, pc + 1) = k + 1 /\ Step = Published(program)[k]
  BY <1>1, <1>2, InsideCall
<1>4. PICK s, args \in Seq(Value), f \in Value :
         /\ InCall(s, args, f, k)
         /\ base = Len(s) + 1 /\ NoHandlerIn(s) /\ Len(s) >= Least(k + 1)
         /\ \A r \in Seq(Value) :
              Called(lua.stack, Step.narg, r) = s \o (<<Traceback>> \o r)
  BY <1>1, <1>2, InsideCall
<1> HIDE DEF name, results
<1>5. PICK r \in Seq(Value) : r = results /\ NoHandlerIn(r)
  <2>1. ResultOf(Step.name) \in Value /\ ResultOf(Step.name) # Traceback
    BY <1>3, PushedValues DEF Calls, name
  <2> DEFINE v == ResultOf(Step.name)
  <2> HIDE DEF v
  <2>2. /\ << >> \in Seq(Value) /\ NoHandlerIn(<< >>)
        /\ <<v>> \in Seq(Value) /\ NoHandlerIn(<<v>>)
    BY <2>1 DEF NoHandlerIn, v
  <2> QED BY <2>2 DEF results, v
<1>6. LuaStackBecomes(s \o r)
  <2>1. LuaStackBecomes(Reported(Called(lua.stack, Step.narg, r), base, TRUE))
    BY <1>5 DEF CallReturns, results
  <2>2. Reported(s \o (<<Traceback>> \o r), Len(s) + 1, TRUE) = s \o r
    BY PushedValues, CallReported
  <2> QED BY ONLY <1>4, <2>1, <2>2, Zenon
<1>7. s \o r \in Seq(Value) /\ NoHandlerIn(s \o r) /\ Len(s \o r) >= Least(k + 1)
  <2>1. s \o r \in Seq(Value) /\ NoHandlerIn(s \o r) /\ Len(s \o r) = Len(s) + Len(r)
    BY <1>4, <1>5, NoneJoined
  <2>2. Least(k + 1) \in Nat /\ Len(s) \in Nat /\ Len(r) \in Nat
    BY <1>3 DEF Calls
  <2> QED BY ONLY <1>4, <2>1, <2>2
<1>8. AccessCore' /\ lua'.stack = s \o r
  BY <1>1, <1>6, <1>7, StackSet DEF CallReturns, SameExports
<1>9. /\ UNCHANGED <<program, received, failed>> /\ status' = "run" /\ pc' = pc + 1
      /\ oil' = IF name = "require" THEN OilFields ELSE oil
  BY DEF CallReturns, name
<1>10. ASSUME ~failed
       PROVE  s \o r = Opened \o Awaiting(program, k + 1) /\ OilIsThere(k + 1)'
  <2>1. s = Opened \o Front(program, k) /\ OilIsThere(k)
    BY <1>4, <1>10 DEF InCall
  <2>2. Awaiting(program, k + 1) = Front(program, k) \o r /\ Front(program, k) \in Seq(Value)
    BY <1>3, <1>5 DEF Calls, results, name
  <2>3. (Opened \o Front(program, k)) \o r = Opened \o (Front(program, k) \o r)
    BY ONLY <2>2, r \in Seq(Value), OnOpened, Zenon
  <2>4. OilIsThere(k + 1)'
    <3>1. k \in 2..12 /\ (name = "require" <=> k = 2)
      BY ONLY <1>3 DEF Calls
    <3>2. k > 2 => oil = OilFields
      BY ONLY <2>1 DEF OilIsThere
    <3>3. oil' = OilFields
      BY ONLY <1>9, <3>1, <3>2
    <3> QED BY ONLY <3>3 DEF OilIsThere
  <2> QED BY ONLY <2>1, <2>2, <2>3, <2>4, Zenon
<1>11. Goes(pc, lua.stack)'
  <2>1. Place(program, pc)' = k + 1
    BY <1>3, <1>9 DEF Place
  <2>2. ~failed' => s \o r = Opened \o Awaiting(program', k + 1) /\ OilIsThere(k + 1)'
    BY <1>9, <1>10
  <2> QED BY ONLY <1>7, <1>8, <2>1, <2>2 DEF Goes, NoHandlerIn
<1>12. ObjectStays'
  BY <1>3, <1>9 DEF CallReturns, SameExports, ObjectStays, HostInv
<1>13. oil' \subseteq OilFields /\ failed' \in BOOLEAN /\ (failed => failed')
  BY <1>1, <1>9 DEF HostTypes
<1> QED BY <1>3, <1>8, <1>9, <1>11, <1>12, <1>13, Rests

(* lua_pcall fails: the frame is gone, and a nil that was raised stays.    *)
LEMMA CallFailsKeeps == ASSUME HostInv, CallFails PROVE HostInv'
<1>1. status = "called" /\ HostTypes /\ AccessCore
  BY DEF CallFails, HostInv
<1>2. PICK k : k = Place(program, pc)
  OBVIOUS
<1>3. /\ program # "run" /\ Calls(k, Step.name, Step.narg, Step.nres)
      /\ pc + 1 \in 1..Len(Script) + 1 /\ pc > 1 /\ (program = "c++" => pc > 2)
      /\ Place(program, pc + 1) = k + 1
  BY <1>1, <1>2, InsideCall
<1>4. PICK s \in Seq(Value) :
         /\ base = Len(s) + 1 /\ NoHandlerIn(s) /\ Len(s) >= Least(k + 1)
         /\ \A r \in Seq(Value) :
              Called(lua.stack, Step.narg, r) = s \o (<<Traceback>> \o r)
  BY <1>1, <1>2, InsideCall
<1>5. PICK e \in Value :
         /\ e # Traceback
         /\ LuaStackBecomes(Reported(Called(lua.stack, Step.narg, <<e>>), base, FALSE))
  <2>1. PICK error \in Errors, field \in {Nil, <<"function", "debug.traceback">>} :
           LuaStackBecomes(Reported(Called(lua.stack, Step.narg,
                                           <<traceback(error, field)>>), base, FALSE))
    BY DEF CallFails
  <2>2. traceback(error, field) \in {error, String("message and traceback")}
    BY DEF traceback
  <2>3. traceback(error, field) \in Value /\ traceback(error, field) # Traceback
    BY <2>2, PushedValues
  <2> QED BY <2>1, <2>3
<1>6. PICK r \in Seq(Value) : LuaStackBecomes(s \o r) /\ NoHandlerIn(r)
  <2>1. << >> \in Seq(Value) /\ <<e>> \in Seq(Value) /\ NoHandlerIn(<< >>) /\ NoHandlerIn(<<e>>)
    BY <1>5 DEF NoHandlerIn
  <2>2. Called(lua.stack, Step.narg, <<e>>) = s \o (<<Traceback>> \o <<e>>)
    BY ONLY <1>4, <2>1, Zenon
  <2>3. Reported(s \o (<<Traceback>> \o <<e>>), Len(s) + 1, FALSE) =
           IF e[1] = "nil" THEN s \o <<e>> ELSE s
    BY PushedValues, CallReported
  <2>4. s \o << >> = s
    BY ConcatEmptySeq
  <2>5. LuaStackBecomes(IF e[1] = "nil" THEN s \o <<e>> ELSE s)
    BY ONLY <1>4, <1>5, <2>2, <2>3, Zenon
  <2> QED BY ONLY <2>1, <2>4, <2>5, Zenon
<1>7. s \o r \in Seq(Value) /\ NoHandlerIn(s \o r) /\ Len(s \o r) >= Least(k + 1)
  <2>1. s \o r \in Seq(Value) /\ NoHandlerIn(s \o r) /\ Len(s \o r) = Len(s) + Len(r)
    BY <1>4, <1>6, NoneJoined
  <2>2. Least(k + 1) \in Nat /\ Len(s) \in Nat /\ Len(r) \in Nat
    BY <1>3 DEF Calls
  <2> QED BY ONLY <1>4, <2>1, <2>2
<1>8. AccessCore' /\ lua'.stack = s \o r
  BY <1>1, <1>6, <1>7, StackSet DEF CallFails, SameExports
<1>9. /\ UNCHANGED <<program, received>> /\ failed' = TRUE /\ pc' = pc + 1
      /\ (status' = "run" \/ status' = "panic")
      /\ oil' \in SUBSET OilFields
  <2>1. oil \in SUBSET OilFields
    BY <1>1 DEF HostTypes
  <2> QED BY <2>1 DEF CallFails
<1>10. Goes(pc, lua.stack)'
  <2>1. Place(program, pc)' = k + 1
    BY <1>3, <1>9 DEF Place
  <2> QED BY ONLY <1>7, <1>8, <1>9, <2>1 DEF Goes, NoHandlerIn
<1>11. ObjectStays'
  BY <1>3, <1>9 DEF CallFails, SameExports, ObjectStays, HostInv
<1> QED BY <1>3, <1>8, <1>9, <1>10, <1>11, Rests

(* The programs begin in the invariant.                                    *)
LEMMA HostBeginning == HostInit => HostInv
<1> SUFFICES ASSUME HostInit PROVE HostInv
  OBVIOUS
<1>1. AccessCore
  BY AccessBeginning DEF HostInit, AccessInv
<1>2. lua.stack = << >> /\ exported = << >>
  BY DEF HostInit, Init, EmptyLua
<1>3. HostTypes
  <2>1. Len(Script) \in Nat
    <3>1. CASE program = "run"
      BY <3>1, RunSteps
    <3>2. CASE program # "run"
      BY <3>2, ScriptSteps DEF HostInit, Start
    <3> QED BY <3>1, <3>2
  <2>2. /\ program \in {"c++", "tolua++", "run"} /\ pc = 1 /\ status = "run"
        /\ oil = {} /\ failed = FALSE
    BY DEF HostInit
  <2>3. 1 \in 1..Len(Script) + 1
    BY ONLY <2>1
  <2>4. pc \in 1..Len(Script) + 1
    BY ONLY <2>2, <2>3
  <2> QED BY ONLY <2>2, <2>4 DEF HostTypes
<1>4. ObjectStays /\ BetweenCalls /\ DuringCall /\ ReceivedAsMeant
  BY <1>2 DEF HostInit, ObjectStays, BetweenCalls, DuringCall, ReceivedAsMeant, NoHandlerIn
<1> QED BY <1>1, <1>3, <1>4 DEF HostInv

(* One step per action.                                                    *)
LEMMA HostStep == HostInv /\ [HostNext]_vars => HostInv'
<1> SUFFICES ASSUME HostInv, [HostNext]_vars PROVE HostInv'
  OBVIOUS
<1>1. CASE newstate
  BY <1>1, NewstateKeeps
<1>2. CASE Export
  BY <1>2, ExportKeeps
<1>3. CASE PushValue
  BY <1>3, PushValueKeeps
<1>4. CASE PushObject
  BY <1>4, PushObjectKeeps
<1>5. CASE PushOilField
  BY <1>5, PushOilFieldKeeps
<1>6. CASE CallBegins
  BY <1>6, CallBeginsKeeps
<1>7. CASE CallReturns
  BY <1>7, CallReturnsKeeps
<1>8. CASE CallFails
  BY <1>8, CallFailsKeeps
<1>9. CASE Serve
  BY <1>9, QuietKeeps DEF Serve
<1>10. CASE Usage
  BY <1>10, UsageKeeps
<1>11. CASE LoadFile
  BY <1>11, LoadFileKeeps
<1>12. CASE CallChunk
  BY <1>12, CallChunkKeeps
<1>13. CASE Exit
  BY <1>13, ExitKeeps
<1>14. CASE UNCHANGED vars
  BY <1>14, QuietKeeps DEF vars, accessVars, hostVars
<1> QED BY <1>1, <1>2, <1>3, <1>4, <1>5, <1>6, <1>7, <1>8, <1>9, <1>10, <1>11, <1>12,
           <1>13, <1>14 DEF HostNext

(* The invariant says where the handler is, and the variables' types.      *)
LEMMA HandlerFound == HostInv /\ AskedInv => HandlerInPlace
<1> SUFFICES ASSUME HostInv, AskedInv PROVE HandlerInPlace
  OBVIOUS
<1>1. lua.stack \in Seq(Value) /\ HostTypes
  BY DEF HostInv, AccessCore, StatesAreWellFormed
<1>2. ASSUME NEW n \in DOMAIN lua.stack PROVE lua_type(lua.stack, n) \in LuaTypes
  <2>1. lua.stack[n] \in Value /\ n \in 1..Len(lua.stack)
    BY <1>1
  <2>2. lua.stack[n][1] \in LuaTypes
    BY <2>1 DEF Value
  <2>3. AbsIndex(lua.stack, n) = n
    BY <2>1 DEF AbsIndex
  <2> QED BY <2>1, <2>2, <2>3 DEF lua_type, Valid, ValueAt
<1>3. hello \in [quiet : BOOLEAN, count : 0..MaxSays, printed : 0..MaxSays]
  <2>1. MaxSays \in Nat
    BY HelloHostAssumption
  <2>2. /\ asked.quiet \in BOOLEAN /\ asked.says \in 0..MaxSays /\ asked.loud \in 0..asked.says
        /\ hello = [quiet |-> asked.quiet, count |-> asked.says, printed |-> asked.loud]
    BY DEF AskedInv, RepliesAreRight
  <2>3. asked.loud \in 0..MaxSays
    BY ONLY <2>1, <2>2
  <2> QED BY ONLY <2>2, <2>3
<1>4. HostTypeOK
  BY <1>1, <1>2, <1>3 DEF HostTypeOK, HostTypes
<1>5. CASE status = "called"
  <2>1. PICK s \in Seq(Value), args \in Seq(Value), f \in Value :
           lua.stack = Frame(s, f, args) /\ base = Len(s) + 1
    BY <1>5 DEF HostInv, DuringCall, InCall
  <2>2. Traceback \in Value
    BY PushedValues
  <2>3. /\ Valid(Frame(s, f, args), Len(s) + 1)
        /\ Frame(s, f, args)[Len(s) + 1] = Traceback
    BY ONLY <2>2, f \in Value, s \in Seq(Value), args \in Seq(Value), FrameFacts
  <2> QED BY ONLY <1>4, <1>5, <2>1, <2>3, Zenon DEF HandlerInPlace
<1>6. CASE status # "called"
  <2>1. NoHandlerIn(lua.stack)
    BY <1>6 DEF HostInv, BetweenCalls
  <2> QED BY <1>1, <1>4, <1>6, <2>1 DEF HandlerInPlace, NoHandlerIn
<1> QED BY <1>5, <1>6

(***************************************************************************)
(* During every call of callfield the index that lua_pcall was given is    *)
(* that of the handler, whatever calls failed before and whatever they     *)
(* left, and no handler is ever left behind: callfield in the C++ server   *)
(* and in the one bound by tolua++.                                        *)
(***************************************************************************)
THEOREM HandlerStaysInPlace == HostSpec => []HandlerInPlace
<1>1. HostInit => AskedInv
  BY HelloHostAssumption DEF HostInit, AskedInv, RepliesAreRight, NewHello
<1> QED BY <1>1, HostBeginning, HostStep, AskedStep, HandlerFound, PTL DEF HostSpec

(***************************************************************************)
(* As long as no call fails, require, loadidl, newservant, tostring,       *)
(* writeto and main get what main() means for them, and main() ends with   *)
(* the stack that newstate() left: no value is lost or left over between   *)
(* the calls.                                                              *)
(***************************************************************************)
THEOREM ArgumentsAreOwn == HostSpec => []OwnArguments
<1>1. HostInv => OwnArguments
  <2> SUFFICES ASSUME HostInv, ~failed PROVE OwnArguments
    BY DEF OwnArguments
  <2>1. \A name \in DOMAIN received : received[name] = Meant(name)
    BY DEF HostInv, ReceivedAsMeant
  <2>2. ASSUME status = "exit", program # "run" PROVE lua.stack = Opened
    <3>1. Place(program, pc) = 13 /\ pc > 1
      BY <2>2 DEF HostInv, HostTypes, Place, Start
    <3>2. lua.stack = Opened \o Awaiting(program, 13)
      BY <2>2, <3>1 DEF HostInv, BetweenCalls
    <3>3. Awaiting(program, 13) = << >>
      BY DEF Awaiting
    <3> QED BY <3>2, <3>3, OpenedIs
  <2> QED BY <2>1, <2>2 DEF OwnArguments
<1> QED BY <1>1, HostBeginning, HostStep, PTL DEF HostSpec
=============================================================================

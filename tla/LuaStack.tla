------------------------------ MODULE LuaStack ------------------------------
(***************************************************************************)
(* The stack through which C and C++ code talks to Lua 5.1: the names and   *)
(* macros of lua.h and lauxlib.h, and what the functions declared there do  *)
(* to the stack.  The interpreter itself comes as a binary, so the latter   *)
(* are modelled from how the programs of the repository use them.           *)
(*                                                                          *)
(* A value is a tuple <<type, content>>, a stack a sequence of values whose *)
(* last one is the top.  An index counts from the bottom, a negative one    *)
(* from the top.                                                            *)
(***************************************************************************)
EXTENDS Integers, Sequences

-----------------------------------------------------------------------------
\* The types of values (LUA_TNIL and so on), and of an index outside the stack.
LuaTypes == {"nil", "boolean", "number", "string", "table", "function",
             "userdata", "lightuserdata", "thread"}

LUA_TNONE == "none"

Nil == <<"nil", 0>>
Number(n) == <<"number", n>>
String(s) == <<"string", s>>
Boolean(b) == <<"boolean", b>>

-----------------------------------------------------------------------------
\* The position in the stack that an index, as the API takes it, stands for.
AbsIndex(stack, i) == IF i < 0 THEN Len(stack) + 1 + i ELSE i

Valid(stack, i) == AbsIndex(stack, i) \in 1..Len(stack)

ValueAt(stack, i) == stack[AbsIndex(stack, i)]

lua_type(stack, i) ==
    IF Valid(stack, i) THEN ValueAt(stack, i)[1] ELSE LUA_TNONE

\* The macros that test for a type: nothing is there, or something of the type.
lua_isnil(stack, i) == lua_type(stack, i) = "nil"
lua_istable(stack, i) == lua_type(stack, i) = "table"
lua_isfunction(stack, i) == lua_type(stack, i) = "function"

\* Any value has a truth value; an index outside the stack is false.
lua_toboolean(stack, i) ==
    Valid(stack, i) /\ ValueAt(stack, i) \notin {Nil, Boolean(FALSE)}

\* lua_settop(L, -(n)-1)
lua_pop(stack, n) == SubSeq(stack, 1, Len(stack) - n)

\* The top goes to position i, the values from there up move by one.
lua_insert(stack, i) ==
    LET at == AbsIndex(stack, i)
    IN  SubSeq(stack, 1, at - 1) \o <<stack[Len(stack)]>>
                                 \o SubSeq(stack, at, Len(stack) - 1)

lua_remove(stack, i) ==
    LET at == AbsIndex(stack, i)
    IN  SubSeq(stack, 1, at - 1) \o SubSeq(stack, at + 1, Len(stack))

\* A call takes the function and its n arguments off the stack and leaves
\* the results in their place.
Called(stack, n, results) == lua_pop(stack, n + 1) \o results

\* The arguments and the function that a call with n arguments finds.
Arguments(stack, n) == SubSeq(stack, Len(stack) - n + 1, Len(stack))
Callee(stack, n) == stack[Len(stack) - n]

=============================================================================

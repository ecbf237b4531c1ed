----------------------------- MODULE SafeArrays -----------------------------
(***************************************************************************)
(* The COM component of the LuaCOM examples, which hands arrays of strings  *)
(* with several dimensions to its clients and takes them back: its DLL,     *)
(* which is loaded while it is needed, and the methods of its one class.    *)
(* SetArray() is modelled down to the iterations of its loops, because it   *)
(* visits the elements by counting an index per dimension.                  *)
(*                                                                          *)
(* An array is a record of the bounds of its dimensions, leftmost first,    *)
(* and of its elements by their indices.  Dimensions are counted from 1,    *)
(* where the code has them from 0.                                          *)
(***************************************************************************)
EXTENDS Integers, Sequences, FiniteSets, SequencesExt

CONSTANTS
    Client,    \* the threads that use the component, each in its apartment
    Caller,    \* those of them that call methods, on arrays they do not share
    Bounds,    \* the dimensions of arrays that clients make
    MaxRefs    \* bound: references to its object that a client holds

Bound == [lLbound : Int, cElements : Nat]

ASSUME SafeArraysAssumption ==
    /\ Bounds \subseteq Seq(Bound) \ {<< >>}
    /\ \A b \in Bounds : \A n \in DOMAIN b : b[n].cElements > 0
    /\ IsFiniteSet(Client) /\ Caller \subseteq Client
    /\ MaxRefs \in Nat \ {0}

VARIABLES
    build,      \* with _MERGE_PROXYSTUB ("merged") the DLL is its own proxy as
                \* well, but not with _NOPROXY too ("noproxy"), nor "alone"
    registry,   \* which of the server and the proxy are registered
    loaded,     \* the DLL is in the process
    factory,    \* references of each client to the class object
    refs,       \* references of each client to the object it created
    proxies,    \* references of each client into the code for other processes
    held,       \* the last array each client got from a method
    call,       \* SetArray() under way, by client: see Idle and SetArray
    stray       \* "no", or what became of counting up an index before the first

server == <<build, registry, loaded, factory, refs, proxies>>
vars == <<server, held, call, stray>>

-----------------------------------------------------------------------------
(* Arrays *)

\* The indices that an array of these dimensions has.
Indices(bounds) ==
    {ix \in [DOMAIN bounds -> UNION {b.lLbound..b.lLbound + b.cElements - 1 :
                                         b \in ToSet(bounds)}] :
        \A n \in DOMAIN bounds :
            ix[n] \in bounds[n].lLbound..bounds[n].lLbound + bounds[n].cElements - 1}

\* SafeArrayCreate() keeps the bounds in the opposite order.
SafeArrayCreate(bounds, elements) ==
    [rgsabound |-> Reverse(bounds), elements |-> elements]

At0(n) == [lLbound |-> 0, cElements |-> n]

\* GetArray(): a matrix of two rows of three letters.
GetArray ==
    SafeArrayCreate(<<At0(2), At0(3)>>,
        [ix \in {<<i, j>> : i \in 0..1, j \in 0..2} |->
            <<"A", "B", "C", "D", "E", "F">>[3 * ix[1] + ix[2] + 1]])

\* GetArray432(): every element says where it is.
GetArray432 ==
    SafeArrayCreate(<<At0(4), At0(3), At0(2)>>,
        [ix \in {<<i, j, k>> : i \in 0..3, j \in 0..2, k \in 0..1} |-> ix])

\* The methods of the interface.
ITest == {"GetArray", "SetArray", "GetArray432"}

NoArray == SafeArrayCreate(<< >>, << >>)

Idle == [at |-> "idle"]

\* The arrays that a client gives to SetArray(): the one it got, and arrays of
\* its own whose elements say where they are.
Arrays(got) == ({got} \ {NoArray}) \cup
               {SafeArrayCreate(b, [ix \in Indices(b) |-> ix]) : b \in Bounds}

\* Fault: in an odd number of dimensions the middle takes part.
InvertOffByOne(bounds) ==
    [n \in DOMAIN bounds |->
        IF n <= (Len(bounds) + 1) \div 2 THEN bounds[Len(bounds) + 1 - n] ELSE bounds[n]]

\* Every dimension of the first half changes places with its counterpart.
InvertArrayBounds(bounds) ==
    [n \in DOMAIN bounds |->
        LET other == Len(bounds) + 1 - n
        IN  IF n <= Len(bounds) \div 2 \/ other <= Len(bounds) \div 2
            THEN bounds[other] ELSE bounds[n]]

-----------------------------------------------------------------------------
(* The DLL and its class *)

Builds == {"alone", "merged", "noproxy"}

\* The objects that live, the class object when it is in use, and calls of
\* LockServer(), of which nobody makes any.
GetLockCount ==
    Cardinality({c \in Client : refs[c] > 0})
      + (IF \E c \in Client : factory[c] > 0 THEN 1 ELSE 0)

PrxDllCanUnloadNow == build = "merged" => \A c \in Client : proxies[c] = 0

\* The entries that the proxy's part makes in the registry.
PrxDllRegisterServer == IF build = "merged" THEN {"proxy"} ELSE {}

\* The proxy answers for its own class; without its code for none.
PrxDllGetClassObject(c) ==
    /\ build = "merged" /\ "proxy" \in registry
    /\ proxies[c] = 0
    /\ proxies' = [proxies EXCEPT ![c] = @ + 1]

\* Fault: the part for other processes is not asked.
CanUnloadAlone == GetLockCount = 0

DllCanUnloadNow == PrxDllCanUnloadNow /\ GetLockCount = 0

\* The proxy is registered first, and nothing else when that fails; the
\* registration of the server may fail after that.
DllRegisterServer ==
    /\ \/ registry' = registry \cup PrxDllRegisterServer \cup {"server"}
       \/ registry' = registry \cup PrxDllRegisterServer
    /\ UNCHANGED <<build, loaded, factory, refs, proxies, held, call, stray>>

\* Both are tried, whatever becomes of the first.
DllUnregisterServer ==
    /\ registry' \in SUBSET registry
    /\ UNCHANGED <<build, loaded, factory, refs, proxies, held, call, stray>>

\* Called when the DLL is attached to the process and detached from it; where
\* it says no, which the proxy's part may, the DLL is not loaded.
DllMain(reason) == loaded' = (reason = "attach")

\* CoGetClassObject() loads the DLL unless it is loaded, and asks it: the proxy,
\* or else the server, which answers for Test.
DllGetClassObject(c) ==
    /\ \/ /\ "server" \in registry
          /\ factory[c] = 0
          /\ factory' = [factory EXCEPT ![c] = @ + 1]
          /\ proxies' = proxies
       \/ PrxDllGetClassObject(c) /\ factory' = factory
    /\ IF loaded THEN loaded' = TRUE ELSE DllMain("attach")
    /\ UNCHANGED <<build, registry, refs, held, call, stray>>

\* factory->CreateInstance(), an object for each client
CreateInstance(c) ==
    /\ factory[c] > 0 /\ refs[c] = 0
    /\ refs' = [refs EXCEPT ![c] = 1]
    /\ UNCHANGED <<build, registry, loaded, factory, proxies, held, call, stray>>

AddRef(c) ==
    /\ refs[c] \in 1..MaxRefs - 1
    /\ refs' = [refs EXCEPT ![c] = @ + 1]
    /\ UNCHANGED <<build, registry, loaded, factory, proxies, held, call, stray>>

\* A client does not give up the reference that it is making a call through.
Release(c) ==
    /\ \/ /\ refs[c] > (IF call[c] = Idle THEN 0 ELSE 1)
          /\ refs' = [refs EXCEPT ![c] = @ - 1]
          /\ UNCHANGED <<factory, proxies>>
       \/ /\ factory[c] > 0
          /\ factory' = [factory EXCEPT ![c] = @ - 1]
          /\ UNCHANGED <<refs, proxies>>
       \/ /\ proxies[c] > 0
          /\ proxies' = [proxies EXCEPT ![c] = @ - 1]
          /\ UNCHANGED <<refs, factory>>
    /\ UNCHANGED <<build, registry, loaded, held, call, stray>>

\* CoFreeUnusedLibraries()
Unload ==
    /\ loaded /\ DllCanUnloadNow
    /\ DllMain("detach")
    /\ UNCHANGED <<build, registry, factory, refs, proxies, held, call, stray>>

\* The methods that return an array, which is then the client's.
Get(c) ==
    /\ refs[c] > 0 /\ call[c] = Idle
    /\ \E method \in ITest \ {"SetArray"} :
          held' = [held EXCEPT ![c] = IF method = "GetArray" THEN GetArray
                                      ELSE GetArray432]
    /\ UNCHANGED <<server, call, stray>>

-----------------------------------------------------------------------------
(* SetArray() *)

\* The index is past the end of its dimension.
Over(bounds, indices, j) ==
    indices[j] >= bounds[j].cElements + bounds[j].lLbound

\* The call up to its loop, its listings of the bounds left out: there is an index
\* per dimension, each at its lower bound.
SetArray(c) ==
    /\ refs[c] > 0
    /\ call[c] = Idle
    /\ \E array \in Arrays(held[c]) :
         LET bounds == InvertArrayBounds(array.rgsabound)
         IN  call' = [call EXCEPT ![c] =
                 [at |-> "element", array |-> array, bounds |-> bounds,
                  indices |-> [n \in DOMAIN bounds |-> bounds[n].lLbound],
                  j |-> Len(bounds), last |-> << >>]]
    /\ UNCHANGED <<server, held, stray>>

\* The element is fetched and printed, or whatever memory holds if there is
\* none of these indices; inc_indices() begins with the last of them.
Element(c) ==
    /\ call[c].at = "element"
    /\ LET k == call[c]
           d == Len(k.bounds)
           value == IF k.indices \in DOMAIN k.array.elements
                    THEN k.array.elements[k.indices] ELSE "garbage"
       IN  call' = [call EXCEPT ![c] =
               [k EXCEPT !.at = "carry", !.j = d, !.indices[d] = @ + 1,
                         !.last = <<k.indices, value>>]]
    /\ UNCHANGED <<server, held, stray>>

\* Fault: the first dimension is not looked at before the loop goes on.
CarryNoEnd(c) ==
    /\ call[c].at = "carry"
    /\ LET b  == call[c].bounds
           ix == call[c].indices
           j  == call[c].j
       IN  /\ j > 1 /\ Over(b, ix, j)
           /\ call' = [call EXCEPT ![c].indices =
                  [ix EXCEPT ![j] = b[j].lLbound, ![j - 1] = @ + 1],
                                   ![c].j = j - 1]
    /\ UNCHANGED <<server, held, stray>>

\* An iteration of the loop of inc_indices(): the index starts again, and the
\* one before it is counted up.  When that is the first and it is past its end,
\* the traversal is over, and so is the call.
Carry(c) ==
    /\ call[c].at = "carry"
    /\ LET b    == call[c].bounds
           ix   == call[c].indices
           j    == call[c].j
           next == [ix EXCEPT ![j] = b[j].lLbound, ![j - 1] = @ + 1]
       IN  /\ j > 1 /\ Over(b, ix, j)
           /\ call' = [call EXCEPT ![c] =
                  IF j = 2 /\ Over(b, next, 1) THEN Idle
                  ELSE [@ EXCEPT !.indices = next, !.j = j - 1]]
    /\ UNCHANGED <<server, held, stray>>

\* The only index of a vector is past its end: the memory before it is counted
\* up, and if the process survives that, the traversal begins again.
CarryStrays(c) ==
    /\ call[c].at = "carry"
    /\ call[c].j = 1 /\ Over(call[c].bounds, call[c].indices, 1)
    /\ stray' \in {"written", "crashed"}
    /\ call' = [call EXCEPT ![c].indices[1] = call[c].bounds[1].lLbound,
                            ![c].at = "element"]
    /\ UNCHANGED <<server, held>>

\* The loop is left: there are more elements.
CarryEnds(c) ==
    /\ call[c].at = "carry"
    /\ ~Over(call[c].bounds, call[c].indices, call[c].j)
    /\ call' = [call EXCEPT ![c].at = "element"]
    /\ UNCHANGED <<server, held, stray>>

-----------------------------------------------------------------------------
Init ==
    /\ build \in Builds
    /\ registry = {} /\ loaded = FALSE
    /\ factory = [c \in Client |-> 0]
    /\ refs = [c \in Client |-> 0]
    /\ proxies = [c \in Client |-> 0]
    /\ held = [c \in Client |-> NoArray]
    /\ call = [c \in Client |-> Idle]
    /\ stray = "no"

Iterate(c) == Element(c) \/ Carry(c) \/ CarryStrays(c) \/ CarryEnds(c)

Next ==
    /\ stray # "crashed"
    /\ \/ DllRegisterServer \/ DllUnregisterServer \/ Unload
       \/ \E c \in Client : DllGetClassObject(c) \/ CreateInstance(c) \/ AddRef(c)
                             \/ Release(c)
       \/ \E c \in Caller : Get(c) \/ SetArray(c) \/ Iterate(c)

Spec == /\ Init /\ [][Next]_vars
        /\ \A c \in Caller : WF_vars(stray # "crashed" /\ Iterate(c))

-----------------------------------------------------------------------------
(* Properties *)

\* References are counted within their bounds, and the indices of a call are
\* as many as the dimensions of its array.
SafeTypeOK ==
    /\ registry \subseteq {"server", "proxy"}
    /\ \A c \in Client : refs[c] \in 0..MaxRefs /\ {factory[c], proxies[c]} \subseteq 0..1
    /\ \A c \in Client : call[c] # Idle =>
         /\ DOMAIN call[c].indices = DOMAIN call[c].array.rgsabound
         /\ call[c].j \in DOMAIN call[c].indices

\* The DLL stays in the process as long as a client holds anything of it or is
\* in a call, for whatever reference it came and in whatever order it releases
\* them.  The variables have their types.
NeededIsLoaded ==
    /\ SafeTypeOK
    /\ \A c \in Client :
        factory[c] > 0 \/ refs[c] > 0 \/ proxies[c] > 0 \/ call[c] # Idle => loaded

\* SetArray() fetches only elements that its array has, and touches memory
\* outside of its indices only in a call with a vector.
OwnMemory ==
    /\ stray = "no" => \A c \in Client : call[c].at = "element" =>
                          call[c].indices \in DOMAIN call[c].array.elements
    /\ stray # "no" => \E c \in Caller : /\ call[c] # Idle
                                         /\ Len(call[c].bounds) = 1

\* Nested loops over the dimensions come to ix before they come to iy.
Earlier(ix, iy) ==
    \E n \in DOMAIN ix : ix[n] < iy[n] /\ \A m \in 1..n - 1 : ix[m] = iy[m]

\* The elements that come after the one printed last.
Ahead(k) ==
    {ix \in DOMAIN k.array.elements : k.last = << >> \/ Earlier(k.last[1], ix)}

\* As long as no memory was touched that is not its own, SetArray() prints the
\* elements of an array in the order of nested loops over its dimensions: first
\* the first of them, then the one that comes next, and each with its own
\* indices; when it returns there is none left.
PrintedInOrder ==
    [][stray = "no" => \A c \in Client : call[c] # Idle =>
          /\ call[c].at = "element" /\ call'[c] # call[c] =>
                \E ix \in Ahead(call[c]) :
                    /\ \A iy \in Ahead(call[c]) : ~Earlier(iy, ix)
                    /\ call'[c].last = <<ix, call[c].array.elements[ix]>>
          /\ call'[c] = Idle => Ahead(call[c]) = {}]_vars

\* SetArray() of an array with several dimensions returns.
SetArrayReturns ==
    \A c \in Caller :
        (call[c] # Idle /\ Len(call[c].bounds) > 1)
            ~> (call[c] = Idle \/ stray = "crashed")

=============================================================================

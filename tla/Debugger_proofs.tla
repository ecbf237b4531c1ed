---------------------------- MODULE Debugger_proofs ----------------------------
(***************************************************************************)
(* Proofs about the debugger, for any threads, files, lines, counts and     *)
(* bounds.  The invariants of the runs are inductive together with Session, *)
(* Accounts, Steps, OwnGoto and Rise.                                       *)
(***************************************************************************)
EXTENDS Debugger, SequenceTheorems, TLAPS

\* What the hook relies on between its events: whose events it gets, and what
\* the account of the command under way has to do with the true depth.
Session ==
    /\ mode = "run" /\ ~started =>
          /\ hooked = {} /\ asked.command = "cont"
          /\ ~step_into /\ ~step_over
          /\ \A t \in Thread : created[t] # "wrapped"
    /\ mode = "prompt" =>
          /\ started /\ chain # << >> /\ running \in hooked /\ gotoPlace = NoPlace
          /\ breakfile \in File
    /\ \A t \in Thread : created[t] # "begun" =>
          t \notin hooked /\ frames[t] = << >> /\ stack_level[t] = 0

\* Events are charged to a thread that is charged with its own, and to one whose
\* hook has begun, if any are.
Accounts ==
    /\ account["main"] = "main"
    /\ \A t \in Threads : account[account[t]] = account[t]
    /\ \A t \in Thread : created[t] = "no" => account[t] = t
    /\ \A t \in Thread : account[t] # t =>
          /\ account[t] \in Thread /\ created[account[t]] = "begun"
          /\ stack_level[t] = 0

Steps ==
    mode = "run" =>
        /\ step_into => asked.command = "step" /\ asked.left >= step_lines
                          /\ asked.left >= 1
        /\ asked.command = "step" => step_into
        /\ asked.command \in {"over", "skip"} <=> step_over /\ ~step_into
        /\ asked.command = "over" =>
              LET t == asked.thread
              IN  /\ t \in hooked /\ step_lines >= 1
                  /\ OwnAccount(t) =>
                        /\ step_level[t] = asked.depth - asked.ground
                        /\ ground[t] <= asked.ground
                        /\ ground[t] = asked.ground => asked.left >= step_lines

OwnGoto == gotoPlace \in Place => mine[gotoPlace] = NONE

\* An inner function is never less deep than an outer one.
Rising(fs) ==
    \A i \in DOMAIN fs : \A j \in DOMAIN fs : i <= j => fs[i].depth <= fs[j].depth

Rise == \A t \in Threads : Rising(frames[t])

Inv == /\ DebugTypeOK /\ LevelsAreExact /\ UserBreakpointsKept
       /\ Session /\ Accounts /\ Steps /\ OwnGoto /\ Rise

-----------------------------------------------------------------------------
(* Frames and chains *)

\* What entering, leaving and replacing the innermost frame make of a sequence
\* of frames, and of the depth.
LEMMA EnteringFrame ==
  ASSUME NEW fs \in Seq(Frame), NEW role \in CRoles \cup LuaRoles
  PROVE  /\ Entering(fs, role) \in Seq(Frame)
         /\ DepthOf(fs) \in Nat
         /\ DepthOf(Entering(fs, role)) = DepthOf(fs) + 1
         /\ Len(Entering(fs, role)) = Len(fs) + 1
         /\ Entering(fs, role) # << >>
         /\ Entering(fs, role)[Len(fs) + 1].role = role
         /\ \A i \in DOMAIN fs : Entering(fs, role)[i] = fs[i]
<1>1. DepthOf(fs) \in Nat
  <2>1. CASE fs = << >>
    BY <2>1 DEF DepthOf
  <2>2. CASE fs # << >>
    <3>1. fs[Len(fs)] \in Frame
      BY <2>2
    <3> QED
      BY <2>2, <3>1 DEF DepthOf, Frame
  <2> QED
    BY <2>1, <2>2
<1>2. [role |-> role, depth |-> DepthOf(fs) + 1] \in Frame
  BY <1>1 DEF Frame
<1> DEFINE new == [role |-> role, depth |-> DepthOf(fs) + 1]
<1> HIDE DEF new
<1>3. /\ Append(fs, new) \in Seq(Frame)
      /\ Len(Append(fs, new)) = Len(fs) + 1
      /\ Append(fs, new)[Len(fs) + 1] = new
      /\ Append(fs, new) # << >>
      /\ \A i \in DOMAIN fs : Append(fs, new)[i] = fs[i]
  <2>1. new \in Frame
    BY <1>2 DEF new
  <2> QED
    BY <2>1
<1>4. new.depth = DepthOf(fs) + 1 /\ new.role = role
  BY DEF new
<1> QED
  BY <1>1, <1>3, <1>4 DEF Entering, DepthOf, new

(* A sequence of frames without its last is one, of some depth.            *)
LEMMA LeavingFrame ==
  ASSUME NEW fs \in Seq(Frame)
  PROVE  Leaving(fs) \in Seq(Frame) /\ DepthOf(fs) \in Nat
         /\ DepthOf(Leaving(fs)) \in Nat
<1>1. Leaving(fs) \in Seq(Frame)
  BY DEF Leaving
<1>2. ASSUME NEW s \in Seq(Frame) PROVE DepthOf(s) \in Nat
  BY EnteringFrame DEF CRoles
<1> QED
  BY <1>1, <1>2

(* Giving the last frame another role and depth leaves a sequence of frames. *)
LEMMA BecomingFrame ==
  ASSUME NEW fs \in Seq(Frame), NEW role \in CRoles \cup LuaRoles,
         NEW depth \in Nat
  PROVE  /\ Becoming(fs, role, depth) \in Seq(Frame)
         /\ DepthOf(Becoming(fs, role, depth)) = depth
<1> DEFINE new == [role |-> role, depth |-> depth]
<1>1. new \in Frame
  BY DEF Frame
<1>2. Leaving(fs) \in Seq(Frame)
  BY LeavingFrame
<1>3. new.depth = depth
  OBVIOUS
<1> HIDE DEF new
<1>4. /\ Append(Leaving(fs), new) \in Seq(Frame)
      /\ Append(Leaving(fs), new) # << >>
      /\ Append(Leaving(fs), new)[Len(Append(Leaving(fs), new))] = new
  BY <1>1, <1>2
<1> QED
  BY <1>3, <1>4 DEF Becoming, DepthOf, new

(* What stands at each place of a sequence of frames.                      *)
LEMMA FrameAt ==
  ASSUME NEW fs \in Seq(Frame)
  PROVE  /\ Len(fs) \in Nat /\ DOMAIN fs = 1..Len(fs)
         /\ \A i \in DOMAIN fs : fs[i] \in Frame /\ fs[i].depth \in Nat
<1>1. \A i \in DOMAIN fs : fs[i] \in Frame
  OBVIOUS
<1>2. \A f \in Frame : f.depth \in Nat
  BY DEF Frame
<1> QED
  BY <1>1, <1>2

\* The depths of the frames rise, however these are entered, left, replaced or
\* unwound, and what is unwound cannot make the thread deeper.
LEMMA RisingFrames ==
  ASSUME NEW fs \in Seq(Frame), Rising(fs), NEW role \in CRoles \cup LuaRoles
  PROVE  /\ Rising(Entering(fs, role))
         /\ \A n \in 0..Len(fs) : /\ SubSeq(fs, 1, n) \in Seq(Frame)
                                  /\ Rising(SubSeq(fs, 1, n))
                                  /\ DepthOf(SubSeq(fs, 1, n)) <= DepthOf(fs)
         /\ fs # << >> => /\ Rising(Leaving(fs))
                          /\ DepthOf(Leaving(fs)) <= DepthOf(fs)
         /\ \A depth \in Nat : fs # << >> /\ depth >= DepthOf(fs) =>
               Rising(Becoming(fs, role, depth))
<1>1. ASSUME NEW i \in DOMAIN fs PROVE fs[i].depth \in Nat /\ fs[i].depth <= DepthOf(fs)
  <2>1. /\ fs # << >> /\ Len(fs) \in DOMAIN fs /\ i <= Len(fs)
        /\ fs[i].depth \in Nat
    BY <1>1, FrameAt
  <2>2. fs[i].depth <= fs[Len(fs)].depth
    BY <1>1, <2>1 DEF Rising
  <2> QED
    BY <2>1, <2>2 DEF DepthOf
<1>2. DepthOf(fs) \in Nat
  BY LeavingFrame
<1>3. ASSUME NEW s \in Seq(Frame), Rising(s), NEW d \in Nat,
             \A i \in DOMAIN s : s[i].depth <= d
      PROVE  Rising(Append(s, [role |-> role, depth |-> d]))
  <2> DEFINE new == [role |-> role, depth |-> d]
             as == Append(s, new)
  <2>1. new \in Frame /\ new.depth = d
    BY DEF Frame
  <2> HIDE DEF new
  <2>2. /\ DOMAIN as = 1..(Len(s) + 1) /\ as[Len(s) + 1] = new
        /\ \A i \in DOMAIN s : as[i] = s[i]
    BY <2>1
  <2>a. /\ \A i \in DOMAIN s : s[i].depth \in Nat
        /\ Len(s) \in Nat /\ DOMAIN s = 1..Len(s)
    BY FrameAt
  <2> HIDE DEF as
  <2>b. \A i \in DOMAIN as : i \in DOMAIN s \/ i = Len(s) + 1
    BY <2>2, <2>a
  <2>3. ASSUME NEW i \in DOMAIN as, NEW j \in DOMAIN as, i <= j
        PROVE  as[i].depth <= as[j].depth
    <3>1. CASE j \in DOMAIN s
      <4>1. i \in DOMAIN s
        BY <2>2, <2>a, <2>3, <3>1
      <4>2. s[i].depth <= s[j].depth
        BY <1>3, <2>3, <3>1, <4>1 DEF Rising
      <4> QED
        BY <2>2, <3>1, <4>1, <4>2
    <3>2. CASE j = Len(s) + 1
      <4>1. CASE i \in DOMAIN s
        <5>1. as[i] = s[i] /\ as[j] = new
          BY <2>2, <3>2, <4>1
        <5>2. s[i].depth <= d
          BY <1>3, <4>1
        <5> QED
          BY <2>1, <5>1, <5>2
      <4>2. CASE i = Len(s) + 1
        <5>1. as[i] = new /\ as[j] = new
          BY <2>2, <3>2, <4>2
        <5> QED
          BY <2>1, <5>1
      <4>3. i \in DOMAIN s \/ i = Len(s) + 1
        BY <2>b
      <4> QED
        BY <4>1, <4>2, <4>3
    <3> QED
      BY <2>b, <3>1, <3>2
  <2> QED
    BY <2>3 DEF Rising, as, new
<1>4. ASSUME NEW n \in 0..Len(fs)
      PROVE  /\ SubSeq(fs, 1, n) \in Seq(Frame)
             /\ Rising(SubSeq(fs, 1, n))
             /\ DepthOf(SubSeq(fs, 1, n)) <= DepthOf(fs)
             /\ \A i \in DOMAIN SubSeq(fs, 1, n) :
                   SubSeq(fs, 1, n)[i].depth <= DepthOf(fs)
  <2> DEFINE s == SubSeq(fs, 1, n)
  <2>1. /\ s \in Seq(Frame) /\ Len(s) = n /\ DOMAIN s = 1..n
        /\ \A i \in 1..n : s[i] = fs[i] /\ i \in DOMAIN fs
    BY <1>4
  <2> HIDE DEF s
  <2>2. Rising(s)
    BY <1>4, <2>1 DEF Rising
  <2>3. DepthOf(s) <= DepthOf(fs)
    BY <1>1, <1>2, <2>1 DEF DepthOf
  <2> QED
    BY <1>1, <2>1, <2>2, <2>3 DEF s
<1>5. Rising(Entering(fs, role))
  <2>1. DepthOf(fs) + 1 \in Nat /\ \A i \in DOMAIN fs : fs[i].depth <= DepthOf(fs) + 1
    BY <1>1, <1>2
  <2> QED
    BY <1>3, <2>1 DEF Entering
<1>6. ASSUME fs # << >>
      PROVE  /\ Leaving(fs) \in Seq(Frame) /\ Rising(Leaving(fs))
             /\ DepthOf(Leaving(fs)) <= DepthOf(fs)
             /\ \A i \in DOMAIN Leaving(fs) : Leaving(fs)[i].depth \in Nat
                                             /\ Leaving(fs)[i].depth <= DepthOf(fs)
  <2>1. Len(fs) - 1 \in 0..Len(fs)
    BY <1>6
  <2>2. \A i \in DOMAIN Leaving(fs) : Leaving(fs)[i].depth \in Nat
    BY LeavingFrame, FrameAt
  <2> QED
    BY <1>4, <2>1, <2>2 DEF Leaving
<1>7. ASSUME NEW depth \in Nat, fs # << >>, depth >= DepthOf(fs)
      PROVE  Rising(Becoming(fs, role, depth))
  <2>1. \A i \in DOMAIN Leaving(fs) : Leaving(fs)[i].depth <= depth
    BY <1>2, <1>6, <1>7
  <2> QED
    BY <1>3, <1>6, <1>7, <2>1 DEF Becoming
<1> QED
  BY <1>4, <1>5, <1>6, <1>7

\* What c_addr() finds is the role of a C function, or nil; if the function
\* entered last is one, it is the role of that.
LEMMA InnermostCType ==
  ASSUME NEW fs \in Seq(Frame)
  PROVE  InnermostC(fs) \in CRoles \cup {"nil"}
<1>1. CASE \E i \in DOMAIN fs : IsInnermostC(fs, i)
  <2> DEFINE i == CHOOSE i \in DOMAIN fs : IsInnermostC(fs, i)
  <2>1. IsInnermostC(fs, i)
    BY <1>1
  <2> QED
    BY <1>1, <2>1 DEF InnermostC, IsInnermostC
<1>2. CASE ~ \E i \in DOMAIN fs : IsInnermostC(fs, i)
  BY <1>2 DEF InnermostC
<1> QED
  BY <1>1, <1>2

(* c_addr() answers for the C function at the end of the frames.           *)
LEMMA AddressOfCall ==
  ASSUME NEW t, NEW fs \in Seq(Frame), fs # << >>, fs[Len(fs)].role \in CRoles
  PROVE  c_addr(InHook(t, fs)) = fs[Len(fs)].role
<1> DEFINE n == Len(fs)
           Holds(hs) == /\ hs \in Seq(Frame) /\ n \in DOMAIN hs /\ hs[n] = fs[n]
                       /\ \A i \in DOMAIN hs : i > n => hs[i].role \notin CRoles
<1>1. n \in Nat /\ n \in DOMAIN fs /\ DOMAIN fs = 1..n
  BY FrameAt
<1>2. "function" \in CRoles \cup LuaRoles /\ "function" \notin CRoles
  BY DEF CRoles, LuaRoles
<1>3. Holds(fs)
  BY <1>1
<1>4. ASSUME NEW hs, Holds(hs) PROVE Holds(Entering(hs, "function"))
  <2> DEFINE es == Entering(hs, "function")
  <2>1. /\ es \in Seq(Frame) /\ Len(es) = Len(hs) + 1
        /\ es[Len(hs) + 1].role = "function"
        /\ \A i \in DOMAIN hs : es[i] = hs[i]
    BY <1>2, <1>4, EnteringFrame
  <2>2. /\ Len(hs) \in Nat /\ DOMAIN hs = 1..Len(hs)
        /\ DOMAIN es = 1..(Len(hs) + 1)
    BY <1>4, <2>1, FrameAt
  <2> HIDE DEF es, n
  <2>3. \A i \in DOMAIN es : i \in DOMAIN hs \/ i = Len(hs) + 1
    BY <2>2
  <2>4. n \in DOMAIN es /\ es[n] = fs[n]
    BY <1>4, <2>1, <2>2
  <2>5. ASSUME NEW i \in DOMAIN es, i > n PROVE es[i].role \notin CRoles
    BY <1>2, <1>4, <2>1, <2>3, <2>5
  <2> QED
    BY <2>1, <2>4, <2>5 DEF es
<1>5. ASSUME NEW hs, Holds(hs) PROVE InnermostC(hs) = fs[n].role
  <2>1. DOMAIN hs = 1..Len(hs) /\ Len(hs) \in Nat
    BY <1>5, FrameAt
  <2> HIDE DEF n
  <2>2. IsInnermostC(hs, n)
    BY <1>5 DEF IsInnermostC, n
  <2>3. ASSUME NEW i \in DOMAIN hs, IsInnermostC(hs, i) PROVE i = n
    <3>1. ~(i > n)
      BY <1>5, <2>3 DEF IsInnermostC
    <3>2. ~(n > i)
      BY <1>5, <2>2, <2>3 DEF IsInnermostC
    <3> QED
      BY <1>1, <2>1, <3>1, <3>2
  <2>4. (CHOOSE i \in DOMAIN hs : IsInnermostC(hs, i)) = n
    BY <1>5, <2>2, <2>3
  <2> QED
    BY <1>5, <2>2, <2>4 DEF InnermostC
<1> DEFINE two == Entering(Entering(fs, "function"), "function")
<1>6. Holds(two) /\ Holds(Entering(two, "function"))
  <2>1. Holds(Entering(fs, "function"))
    BY <1>3, <1>4
  <2> HIDE DEF Holds
  <2> QED
    BY <1>4, <2>1
<1>7. InHook(t, fs) = two \/ InHook(t, fs) = Entering(two, "function")
  BY DEF InHook
<1> HIDE DEF Holds, two
<1> QED
  BY <1>5, <1>6, <1>7 DEF c_addr

-----------------------------------------------------------------------------
(* What the actions have in common *)

(* What holds of the thread that runs, when it is in one of some roles.    *)
LEMMA RunningThread ==
  ASSUME DebugTypeOK, NEW roles, AtRole(roles)
  PROVE  /\ running \in Threads /\ frames[running] \in Seq(Frame)
         /\ Depth(running) \in Nat
         /\ frames[running] # << >> /\ mode = "run" /\ Leaving(chain) \in Seq(Threads)
<1>1. chain # << >> /\ chain \in Seq(Threads)
  BY DEF AtRole, DebugTypeOK
<1>2. running \in Threads /\ Leaving(chain) \in Seq(Threads)
  BY <1>1 DEF running, Leaving
<1>3. frames[running] \in Seq(Frame)
  BY <1>2 DEF DebugTypeOK
<1> QED
  BY <1>1, <1>2, <1>3, LeavingFrame DEF AtRole, Depth

\* A call event raises by one the level that a hooked thread is charged to.
LEMMA CallEventFacts ==
  ASSUME DebugTypeOK, NEW t \in Threads, NEW fs \in Seq(Frame), CallEvent(t, fs)
  PROVE  /\ stack_level' \in [Threads -> Nat]
         /\ address' \in CRoles \cup {"nil"}
         /\ \A u \in Threads : stack_level'[u] =
               IF t \in hooked /\ u = account[t] THEN stack_level[u] + 1
                                                 ELSE stack_level[u]
<1>1. c_addr(InHook(t, fs)) \in CRoles \cup {"nil"}
  <2> DEFINE one == Entering(fs, "function")
             two == Entering(one, "function")
  <2>1. "function" \in CRoles \cup LuaRoles
    BY DEF LuaRoles
  <2>2. one \in Seq(Frame)
    BY <2>1, EnteringFrame
  <2> HIDE DEF one
  <2>3. two \in Seq(Frame)
    BY <2>1, <2>2, EnteringFrame
  <2> HIDE DEF two
  <2>4. Entering(two, "function") \in Seq(Frame)
    BY <2>1, <2>3, EnteringFrame
  <2>5. InHook(t, fs) \in {two, Entering(two, "function")}
    BY DEF InHook, one, two
  <2> QED
    BY <2>3, <2>4, <2>5, InnermostCType DEF c_addr
<1>2. stack_level \in [Threads -> Nat] /\ account[t] \in Threads
  BY DEF DebugTypeOK
<1>3. CASE t \in hooked
  <2>1. stack_level' = [stack_level EXCEPT ![account[t]] = @ + 1]
    BY <1>3 DEF CallEvent
  <2>2. address' \in CRoles \cup {"nil"}
    BY <1>1, <1>3 DEF CallEvent
  <2> QED
    BY <1>2, <1>3, <2>1, <2>2
<1>4. CASE t \notin hooked
  BY <1>2, <1>4 DEF CallEvent
<1> QED
  BY <1>3, <1>4

\* Which threads have their account to themselves does not change.
LEMMA SameAccounts ==
  ASSUME UNCHANGED <<account, created>>
  PROVE  \A t : OwnAccount(t)' <=> OwnAccount(t)
BY DEF OwnAccount

\* The account of the command holds on when levels and grounds only fall.
LEMMA StepsKept ==
  ASSUME DebugTypeOK, DebugTypeOK', Steps, mode' = mode \/ mode' = "ended",
         UNCHANGED <<step_into, step_over, step_lines, asked>>,
         hooked \subseteq hooked',
         \A t \in hooked : OwnAccount(t)' => OwnAccount(t),
         \A t \in hooked : ground'[t] <= ground[t] /\ step_level'[t] = step_level[t]
  PROVE  Steps'
<1> SUFFICES ASSUME mode' = "run" PROVE Steps'
  BY DEF Steps
<1>1. mode = "run"
  OBVIOUS
<1>2. CASE asked.command # "over"
  BY <1>1, <1>2 DEF Steps
<1>3. CASE asked.command = "over"
  <2>1. PICK t \in hooked :
          /\ t = asked.thread /\ t \in Threads /\ step_lines >= 1
          /\ asked.ground \in Int /\ asked.depth \in Int /\ asked.left \in Nat
    BY <1>1, <1>3 DEF DebugTypeOK, Asked, Steps
  <2>2. ground[t] \in Int /\ ground'[t] \in Int /\ step_lines \in Int
    BY <2>1 DEF DebugTypeOK
  <2>3. ground'[t] <= ground[t] /\ step_level'[t] = step_level[t]
    BY <2>1
  <2>5. ASSUME OwnAccount(t)'
        PROVE  /\ step_level'[t] = asked.depth - asked.ground
               /\ ground'[t] <= asked.ground
               /\ ground'[t] = asked.ground => asked.left >= step_lines
    <3>1. OwnAccount(t)
      BY <2>1, <2>5
    <3>2. /\ step_level[t] = asked.depth - asked.ground
          /\ ground[t] <= asked.ground
          /\ ground[t] = asked.ground => asked.left >= step_lines
      BY <1>1, <1>3, <2>1, <3>1 DEF Steps
    <3> QED
      BY <2>1, <2>2, <2>3, <3>2
  <2>6. asked.command = "over" /\ step_over /\ ~step_into
    BY <1>1, <1>3 DEF Steps
  <2> QED
    BY <1>1, <1>3, <2>1, <2>3, <2>5, <2>6 DEF Steps
<1> QED
  BY <1>2, <1>3

(* The account of the session holds on while no thread's hook changes.     *)
LEMMA SessionKept ==
  ASSUME Session, mode = "run", mode' = mode \/ mode' = "ended",
         UNCHANGED <<started, step_into, step_over, asked>>,
         ~started => hooked' = hooked,
         \A t \in Thread :
            /\ created'[t] = "wrapped" => started \/ created[t] = "wrapped"
            /\ created'[t] # "begun" =>
                 /\ created[t] # "begun" /\ (t \in hooked' => t \in hooked)
                 /\ frames'[t] = frames[t] /\ stack_level'[t] = stack_level[t]
  PROVE  Session'
BY DEF Session

\* A thread that has not begun is not the one that runs, and has no hook.
LEMMA NotBegun ==
  ASSUME DebugTypeOK, Session, NEW roles, AtRole(roles), NEW t \in Thread,
         created[t] # "begun"
  PROVE  t \in Threads /\ t # running /\ t \notin hooked
BY DEF Session, AtRole, Threads

\* Whose level the events of the running thread are charged to: its own if it
\* is the only one charged to it, and never that of a thread that is charged to
\* another or has not begun.
LEMMA Charged ==
  ASSUME DebugTypeOK, Session, Accounts, running \in Threads, running \in hooked,
         NEW u \in Threads
  PROVE  /\ account[running] \in Threads
         /\ OwnAccount(u) => (account[running] = u <=> running = u)
         /\ account[u] # u => account[running] # u
         /\ u \in Thread /\ created[u] # "begun" => account[running] # u
<1>1. account[running] \in Threads /\ account[account[running]] = account[running]
  BY DEF DebugTypeOK, Accounts
<1>2. running \in Thread => created[running] = "begun"
  BY DEF Session
<1>3. running \notin Thread => running = "main" /\ account[running] = running
  BY DEF Threads, Accounts
<1>4. ASSUME OwnAccount(u), account[running] = u PROVE running = u
  BY <1>2, <1>3, <1>4 DEF OwnAccount
<1>5. OwnAccount(u) /\ running = u => account[running] = u
  BY DEF OwnAccount
<1>6. ASSUME u \in Thread, created[u] # "begun" PROVE account[running] # u
  <2>1. CASE running \in Thread
    BY <1>2, <1>6, <2>1 DEF Accounts
  <2>2. CASE running \notin Thread
    BY <1>3, <1>6, <2>2, DebuggerAssumption
  <2> QED
    BY <2>1, <2>2
<1> QED
  BY <1>1, <1>4, <1>5, <1>6

(* The accounts are in order after a step that leaves them as they are.    *)
LEMMA AccountsKept ==
  ASSUME Accounts, UNCHANGED account,
         \A t \in Thread :
            /\ created'[t] = "no" => created[t] = "no"
            /\ created[t] = "begun" => created'[t] = "begun"
            /\ account[t] # t => stack_level'[t] = stack_level[t]
  PROVE  Accounts'
BY DEF Accounts

\* Neither frames nor level change of a thread that has not begun, nor the level
\* of one that is charged to another, when only the running thread moves.
LEMMA OthersKept ==
  ASSUME DebugTypeOK, Session, Accounts, NEW roles, AtRole(roles),
         NEW fs, frames' = [frames EXCEPT ![running] = fs],
         \A u \in Threads : (running \in hooked /\ u = account[running])
                             \/ stack_level'[u] = stack_level[u]
  PROVE  \A t \in Thread :
            /\ created[t] # "begun" => /\ t \notin hooked /\ frames'[t] = frames[t]
                                      /\ stack_level'[t] = stack_level[t]
            /\ account[t] # t => stack_level'[t] = stack_level[t]
<1> SUFFICES ASSUME NEW t \in Thread
             PROVE  /\ created[t] # "begun" => /\ t \notin hooked /\ frames'[t] = frames[t]
                                              /\ stack_level'[t] = stack_level[t]
                    /\ account[t] # t => stack_level'[t] = stack_level[t]
  OBVIOUS
<1>1. t \in Threads /\ running \in Threads
  BY RunningThread DEF Threads
<1>2. running \in hooked => /\ account[t] # t => account[running] # t
                            /\ created[t] # "begun" => account[running] # t
  BY <1>1, Charged
<1>3. created[t] # "begun" => t # running /\ t \notin hooked
  BY NotBegun
<1>4. t # running => frames'[t] = frames[t]
  BY <1>1 DEF DebugTypeOK
<1> QED
  BY <1>1, <1>2, <1>3, <1>4

\* Only the frames of the running thread change.
LEMMA RiseKept ==
  ASSUME DebugTypeOK, Rise, running \in Threads, NEW fs, Rising(fs),
         frames' = [frames EXCEPT ![running] = fs]
  PROVE  Rise'
BY DEF DebugTypeOK, Rise

(* The breakpoints are in order after a step that leaves them alone.       *)
LEMMA PointsKept ==
  ASSUME UserBreakpointsKept, OwnGoto, UNCHANGED points
  PROVE  UserBreakpointsKept' /\ OwnGoto'
BY DEF UserBreakpointsKept, OwnGoto, points

-----------------------------------------------------------------------------
(* The actions of the program *)

\* A function is entered, and the control may pass to another thread.
LEMMA EnteredKeepsInv ==
  ASSUME Inv, NEW roles, AtRole(roles), NEW fs \in Seq(Frame),
         DepthOf(fs) = Depth(running) + 1, Rising(fs),
         frames' = [frames EXCEPT ![running] = fs], CallEvent(running, fs),
         chain' \in Seq(Threads),
         UNCHANGED <<threads, mode, started, stepping, files, points, ground, asked>>
  PROVE  Inv'
<1> USE DEF Inv, threads, stepping, files, points
<1>1. /\ running \in Threads /\ frames \in [Threads -> Seq(Frame)]
      /\ Depth(running) \in Nat /\ mode = "run"
  BY RunningThread DEF DebugTypeOK
<1>2. /\ stack_level' \in [Threads -> Nat]
      /\ address' \in CRoles \cup {"nil"}
      /\ \A u \in Threads : stack_level'[u] =
            IF running \in hooked /\ u = account[running] THEN stack_level[u] + 1
                                                          ELSE stack_level[u]
  BY <1>1, CallEventFacts
<1>3. DebugTypeOK'
  BY <1>1, <1>2 DEF DebugTypeOK
<1>4. LevelsAreExact'
  <2> SUFFICES ASSUME NEW t \in hooked
               PROVE  /\ OwnAccount(t) => stack_level'[t] = Depth(t)' - ground[t]
                      /\ account[t] # t => stack_level'[t] = 0
    BY DEF LevelsAreExact, OwnAccount
  <2>1. /\ t \in Threads /\ ground[t] \in Int
        /\ OwnAccount(t) => stack_level[t] = Depth(t) - ground[t]
        /\ account[t] # t => stack_level[t] = 0
    BY DEF DebugTypeOK, LevelsAreExact
  <2>2. Depth(t)' = IF t = running THEN Depth(t) + 1 ELSE Depth(t)
    BY <1>1, <2>1 DEF Depth
  <2>3. Depth(t) \in Nat
    BY <1>1, <2>1, LeavingFrame DEF Depth
  <2>4. running \in hooked => /\ OwnAccount(t) => (account[running] = t <=> running = t)
                              /\ account[t] # t => account[running] # t
    BY <1>1, <2>1, Charged
  <2>5. CASE t = running
    BY <1>2, <2>1, <2>2, <2>3, <2>4, <2>5
  <2>6. CASE t # running
    BY <1>2, <2>1, <2>2, <2>4, <2>6
  <2> QED
    BY <2>5, <2>6
<1>a. \A t \in Thread :
         /\ created[t] # "begun" => /\ t \notin hooked /\ frames'[t] = frames[t]
                                   /\ stack_level'[t] = stack_level[t]
         /\ account[t] # t => stack_level'[t] = stack_level[t]
  BY <1>1, <1>2, OthersKept
<1>5. Session'
  BY <1>1, <1>a, SessionKept
<1>c. Accounts'
  BY <1>a, AccountsKept
<1>6. Steps'
  <2>0. \A t \in hooked : OwnAccount(t)' => OwnAccount(t)
    BY SameAccounts
  <2>1. \A t \in hooked : ground'[t] <= ground[t] /\ step_level'[t] = step_level[t]
    BY DEF DebugTypeOK
  <2> QED
    BY <1>3, <2>0, <2>1, StepsKept
<1>7. UserBreakpointsKept' /\ OwnGoto'
  BY PointsKept
<1>8. Rise'
  BY <1>1, RiseKept
<1> QED
  BY <1>3, <1>4, <1>5, <1>c, <1>6, <1>7, <1>8

(* A function is called.                                                   *)
LEMMA CallKeepsInv ==
  ASSUME Inv, NEW role \in {"function", "c", "pcall", "pause"}, Call(role)
  PROVE  Inv'
<1>1. AtRole({"function", "pcall"}) /\ DebugTypeOK /\ Rise /\ role \in CRoles \cup LuaRoles
  BY DEF Call, Inv, CRoles, LuaRoles
<1>2. running \in Threads /\ frames[running] \in Seq(Frame)
  BY <1>1, RunningThread
<1> DEFINE fs == Entering(frames[running], role)
<1>3. fs \in Seq(Frame) /\ DepthOf(fs) = Depth(running) + 1 /\ Rising(fs)
  BY <1>1, <1>2, EnteringFrame, RisingFrames DEF Depth, Rise
<1>4. frames' = [frames EXCEPT ![running] = fs] /\ frames'[running] = fs
  BY <1>1, <1>2 DEF Call, DebugTypeOK
<1>5. CallEvent(running, fs)
  BY <1>4 DEF Call
<1>6. chain' \in Seq(Threads)
  BY <1>1 DEF Call, DebugTypeOK
<1> HIDE DEF fs
<1> QED
  BY <1>1, <1>3, <1>4, <1>5, <1>6, EnteredKeepsInv DEF Call

(* A function is called in place of the one that calls it.                 *)
LEMMA TailCallKeepsInv ==
  ASSUME Inv, TailCall
  PROVE  Inv'
<1>1. AtRole({"function", "wrapped"}) /\ DebugTypeOK /\ Rise /\ "function" \in CRoles \cup LuaRoles
  BY DEF TailCall, Inv, LuaRoles
<1>2. /\ running \in Threads /\ frames[running] \in Seq(Frame)
      /\ DepthOf(frames[running]) \in Nat
      /\ DepthOf(frames[running]) + 1 \in Nat /\ frames[running] # << >>
  BY <1>1, RunningThread DEF Depth
<1> DEFINE fs == Becoming(frames[running], "function", DepthOf(frames[running]) + 1)
<1>3. fs \in Seq(Frame) /\ DepthOf(fs) = Depth(running) + 1 /\ Rising(fs)
  <2>1. fs \in Seq(Frame) /\ DepthOf(fs) = Depth(running) + 1
    BY <1>1, <1>2, BecomingFrame DEF Depth
  <2>2. Rising(frames[running]) /\ DepthOf(frames[running]) + 1 >= DepthOf(frames[running])
    BY <1>1, <1>2 DEF Rise
  <2>3. Rising(fs)
    BY <1>1, <1>2, <2>2, RisingFrames
  <2> QED
    BY <2>1, <2>3
<1>4. frames' = [frames EXCEPT ![running] = fs] /\ frames'[running] = fs
  BY <1>1, <1>2 DEF TailCall, DebugTypeOK
<1>5. CallEvent(running, fs)
  BY <1>4 DEF TailCall
<1>6. chain' \in Seq(Threads)
  BY <1>1 DEF TailCall, DebugTypeOK
<1> HIDE DEF fs
<1> QED
  BY <1>1, <1>3, <1>4, <1>5, <1>6, EnteredKeepsInv DEF TailCall

(* A thread is resumed.                                                    *)
LEMMA ResumeKeepsInv ==
  ASSUME Inv, NEW t \in Thread, Resume(t)
  PROVE  Inv'
<1>1. AtRole({"function"}) /\ DebugTypeOK /\ Rise /\ "resume" \in CRoles \cup LuaRoles
  BY DEF Resume, Inv, CRoles
<1>2. running \in Threads /\ frames[running] \in Seq(Frame)
  BY <1>1, RunningThread
<1> DEFINE fs == Entering(frames[running], "resume")
<1>3. fs \in Seq(Frame) /\ DepthOf(fs) = Depth(running) + 1 /\ Rising(fs)
  BY <1>1, <1>2, EnteringFrame, RisingFrames DEF Depth, Rise
<1>4. frames' = [frames EXCEPT ![running] = fs] /\ frames'[running] = fs
  BY <1>1, <1>2 DEF Resume, DebugTypeOK
<1>5. CallEvent(running, fs)
  BY <1>4 DEF Resume
<1>6. chain' \in Seq(Threads)
  BY <1>1 DEF Resume, DebugTypeOK, Threads
<1> HIDE DEF fs
<1> QED
  BY <1>1, <1>3, <1>4, <1>5, <1>6, EnteredKeepsInv DEF Resume

(* A thread yields.                                                        *)
LEMMA YieldKeepsInv ==
  ASSUME Inv, Yield
  PROVE  Inv'
<1>1. AtRole({"function"}) /\ DebugTypeOK /\ Rise /\ "yield" \in CRoles \cup LuaRoles
  BY DEF Yield, Inv, CRoles
<1>2. /\ running \in Threads /\ frames[running] \in Seq(Frame)
      /\ Leaving(chain) \in Seq(Threads)
  BY <1>1, RunningThread
<1> DEFINE fs == Entering(frames[running], "yield")
<1>3. fs \in Seq(Frame) /\ DepthOf(fs) = Depth(running) + 1 /\ Rising(fs)
  BY <1>1, <1>2, EnteringFrame, RisingFrames DEF Depth, Rise
<1>4. frames' = [frames EXCEPT ![running] = fs] /\ frames'[running] = fs
  BY <1>1, <1>2 DEF Yield, DebugTypeOK
<1>5. CallEvent(running, fs)
  BY <1>4 DEF Yield
<1>6. chain' \in Seq(Threads)
  BY <1>2 DEF Yield
<1> HIDE DEF fs
<1> QED
  BY <1>1, <1>3, <1>4, <1>5, <1>6, EnteredKeepsInv DEF Yield

\* Functions are left, by a return or by an error: depth, ground and level of
\* the running thread fall in step.
LEMMA LeftKeepsInv ==
  ASSUME Inv, NEW roles, AtRole(roles), NEW fs \in Seq(Frame), Rising(fs),
         frames' = [frames EXCEPT ![running] = fs], Ends(fs),
         NEW g \in Int, g <= ground[running],
         ground' = [ground EXCEPT ![running] = g],
         NEW l \in Nat,
         running \in hooked /\ OwnAccount(running) => l = DepthOf(fs) - g,
         stack_level' = IF running \in hooked
                        THEN [stack_level EXCEPT ![account[running]] = l]
                        ELSE stack_level,
         address' = "nil", UNCHANGED <<threads, started, stepping, files, points, asked>>
  PROVE  Inv'
<1> USE DEF Inv, threads, stepping, files, points
<1>1. /\ running \in Threads /\ frames \in [Threads -> Seq(Frame)]
      /\ mode = "run" /\ Leaving(chain) \in Seq(Threads)
  BY RunningThread DEF DebugTypeOK
<1>2. chain' \in Seq(Threads) /\ (mode' = mode \/ mode' = "ended")
  BY <1>1 DEF Ends, DebugTypeOK
<1>a. /\ account[running] \in Threads /\ stack_level' \in [Threads -> Nat]
      /\ \A u \in Threads : stack_level'[u] =
            IF running \in hooked /\ u = account[running] THEN l ELSE stack_level[u]
  BY <1>1 DEF DebugTypeOK
<1>3. DebugTypeOK'
  BY <1>1, <1>2, <1>a DEF DebugTypeOK
<1>4. LevelsAreExact'
  <2> SUFFICES ASSUME NEW t \in hooked
               PROVE  /\ OwnAccount(t) => stack_level'[t] = Depth(t)' - ground'[t]
                      /\ account[t] # t => stack_level'[t] = 0
    BY DEF LevelsAreExact, OwnAccount
  <2>1. /\ t \in Threads /\ ground[t] \in Int
        /\ OwnAccount(t) => stack_level[t] = Depth(t) - ground[t]
        /\ account[t] # t => stack_level[t] = 0
    BY DEF DebugTypeOK, LevelsAreExact
  <2>2. running \in hooked => /\ OwnAccount(t) => (account[running] = t <=> running = t)
                              /\ account[t] # t => account[running] # t
    BY <1>1, <2>1, Charged
  <2>3. CASE t = running
    <3>1. Depth(t)' = DepthOf(fs) /\ ground'[t] = g
      BY <1>1, <2>1, <2>3 DEF Depth, DebugTypeOK
    <3> QED
      BY <1>a, <2>1, <2>2, <2>3, <3>1
  <2>4. CASE t # running
    <3>1. Depth(t)' = Depth(t) /\ ground'[t] = ground[t]
      BY <1>1, <2>1, <2>4 DEF Depth, DebugTypeOK
    <3> QED
      BY <1>a, <2>1, <2>2, <2>4, <3>1
  <2> QED
    BY <2>3, <2>4
<1>b. \A t \in Thread :
         /\ created[t] # "begun" => /\ t \notin hooked /\ frames'[t] = frames[t]
                                   /\ stack_level'[t] = stack_level[t]
         /\ account[t] # t => stack_level'[t] = stack_level[t]
  BY <1>1, <1>a, OthersKept
<1>5. Session'
  BY <1>1, <1>2, <1>b, SessionKept
<1>c. Accounts'
  BY <1>b, AccountsKept
<1>6. Steps'
  <2>0. \A t \in hooked : OwnAccount(t)' => OwnAccount(t)
    BY SameAccounts
  <2>1. \A t \in hooked : ground'[t] <= ground[t] /\ step_level'[t] = step_level[t]
    BY <1>1 DEF DebugTypeOK
  <2> QED
    BY <1>2, <1>3, <2>0, <2>1, StepsKept
<1>7. UserBreakpointsKept' /\ OwnGoto'
  BY PointsKept
<1>8. Rise'
  BY <1>1, RiseKept
<1> QED
  BY <1>3, <1>4, <1>5, <1>c, <1>6, <1>7, <1>8

(* A function returns.                                                     *)
LEMMA ReturnKeepsInv ==
  ASSUME Inv, Return
  PROVE  Inv'
<1> DEFINE roles == (CRoles \cup LuaRoles) \ {"pause", "setting", "pausing", "wrapper",
                                             "wrapped"}
           fs == Leaving(frames[running])
           n == Depth(running) - DepthOf(fs)
           g == Least(ground[running], DepthOf(fs))
           l == Max0(stack_level[account[running]] - n)
<1>1. AtRole(roles) /\ DebugTypeOK /\ LevelsAreExact /\ Rise
  BY DEF Return, Inv
<1>2. /\ running \in Threads /\ fs \in Seq(Frame)
      /\ Depth(running) \in Nat /\ DepthOf(fs) \in Nat /\ Rising(fs)
  <2> HIDE DEF roles
  <2>1. "c" \in CRoles \cup LuaRoles
    BY DEF CRoles
  <2> QED
    BY <1>1, <2>1, RunningThread, LeavingFrame, RisingFrames DEF Rise
<1>3. /\ frames' = [frames EXCEPT ![running] = fs] /\ frames'[running] = fs
  BY <1>1, <1>2 DEF Return, DebugTypeOK
<1>4. ground[running] \in Int /\ stack_level[account[running]] \in Nat
  BY <1>1, <1>2 DEF DebugTypeOK
<1> HIDE DEF roles, fs
<1>5. g \in Int /\ g <= ground[running] /\ l \in Nat
  BY <1>2, <1>4 DEF Least, Max0
<1>6. running \in hooked /\ OwnAccount(running) => l = DepthOf(fs) - g
  <2> SUFFICES ASSUME running \in hooked, OwnAccount(running) PROVE l = DepthOf(fs) - g
    OBVIOUS
  <2>1. stack_level[account[running]] = Depth(running) - ground[running]
    BY <1>1 DEF LevelsAreExact, OwnAccount
  <2> QED
    BY <1>2, <1>4, <2>1 DEF Least, Max0
<1>7. /\ ground' = [ground EXCEPT ![running] = g]
      /\ stack_level' = IF running \in hooked
                        THEN [stack_level EXCEPT ![account[running]] = l]
                        ELSE stack_level
      /\ Ends(fs)
  BY <1>3 DEF Return, ReturnEvents
<1>8. address' = "nil" /\ UNCHANGED <<threads, started, stepping, files, points, asked>>
  BY DEF Return
<1> HIDE DEF g, l
<1> QED
  BY <1>1, <1>2, <1>3, <1>5, <1>6, <1>7, <1>8, LeftKeepsInv

(* An error unwinds frames.                                                *)
LEMMA ErrorKeepsInv ==
  ASSUME Inv, Error
  PROVE  Inv'
<1> DEFINE roles == {"function", "c"}
<1>1. AtRole(roles) /\ DebugTypeOK /\ LevelsAreExact /\ Rise
  BY DEF Error, Inv
<1>2. /\ running \in Threads /\ frames[running] \in Seq(Frame)
      /\ Depth(running) \in Nat
  BY <1>1, RunningThread
<1>3. PICK caught \in 0..Len(frames[running]) :
         frames' = [frames EXCEPT ![running] = SubSeq(@, 1, caught)]
  BY DEF Error
<1> DEFINE fs == SubSeq(frames[running], 1, caught)
           g == ground[running] - (Depth(running) - DepthOf(fs))
<1>4. /\ fs \in Seq(Frame) /\ Rising(fs) /\ DepthOf(fs) \in Nat
      /\ DepthOf(fs) <= Depth(running)
  <2>1. "c" \in CRoles \cup LuaRoles
    BY DEF CRoles
  <2>2. fs \in Seq(Frame) /\ Rising(fs) /\ DepthOf(fs) <= Depth(running)
    BY <1>1, <1>2, <1>3, <2>1, RisingFrames DEF Rise, Depth
  <2> QED
    BY <2>2, LeavingFrame
<1>5. frames' = [frames EXCEPT ![running] = fs] /\ frames'[running] = fs
  BY <1>1, <1>2, <1>3 DEF DebugTypeOK
<1> HIDE DEF fs
<1>6. ground[running] \in Int /\ g \in Int /\ g <= ground[running]
  BY <1>1, <1>2, <1>4 DEF DebugTypeOK
<1>7. stack_level[account[running]] \in Nat /\ stack_level \in [Threads -> Nat]
  BY <1>1, <1>2 DEF DebugTypeOK
<1>8. running \in hooked /\ OwnAccount(running) =>
        stack_level[account[running]] = DepthOf(fs) - g
  <2>1. running \in hooked /\ OwnAccount(running) =>
           stack_level[account[running]] = Depth(running) - ground[running]
    BY <1>1 DEF LevelsAreExact, OwnAccount
  <2> QED
    BY <1>2, <1>4, <1>6, <2>1
<1>9. /\ ground' = [ground EXCEPT ![running] = g] /\ Ends(fs)
      /\ stack_level' = IF running \in hooked
            THEN [stack_level EXCEPT ![account[running]] =
                     stack_level[account[running]]]
            ELSE stack_level
  BY <1>5, <1>7 DEF Error
<1>10. address' = "nil" /\ UNCHANGED <<threads, started, stepping, files, points, asked>>
  BY DEF Error
<1> HIDE DEF g, roles
<1> QED
  BY <1>1, <1>4, <1>5, <1>6, <1>7, <1>8, <1>9, <1>10, LeftKeepsInv

(* A thread is created, by the original function or by the debugger's.     *)
LEMMA CreateKeepsInv ==
  ASSUME Inv, NEW t \in Thread, Create(t)
  PROVE  Inv'
<1> USE DEF Inv, stepping, files, points
<1>1. /\ AtRole({"function"}) /\ mode = "run" /\ running \in Threads
      /\ t \in Threads /\ t # running /\ t \notin hooked /\ created[t] = "no"
  <2>1. AtRole({"function"}) /\ mode = "run" /\ created[t] = "no"
    BY DEF Create, AtRole
  <2> QED
    BY <2>1, RunningThread, NotBegun
<1>2. /\ UNCHANGED <<frames, chain, hooked, mode, started, stepping, stack_level,
                     files, points, ground, asked>>
      /\ address' = "nil"
  BY DEF Create
<1>3. \A u \in Thread : created'[u] = IF u = t
            THEN IF running \in hooked THEN "wrapped" ELSE "plain"
            ELSE created[u]
  BY DEF DebugTypeOK, Create
<1>4. \A u \in Threads : account'[u] = IF u = t /\ running \in hooked /\ running # "main"
                                      THEN account[running] ELSE account[u]
  BY <1>1 DEF DebugTypeOK, Create
<1>5. DebugTypeOK'
  <2>1. created' \in [Thread -> {"no", "plain", "wrapped", "begun"}]
    BY DEF DebugTypeOK, Create
  <2>2. account' \in [Threads -> Threads]
    BY <1>1 DEF DebugTypeOK, Create
  <2> QED
    BY <1>2, <2>1, <2>2 DEF DebugTypeOK
<1>6. Session'
  <2>1. ~started => hooked = {}
    BY <1>1 DEF Session
  <2>2. \A u \in Thread :
          /\ created'[u] = "wrapped" => started \/ created[u] = "wrapped"
          /\ created'[u] # "begun" => created[u] # "begun"
    BY <1>1, <1>3, <2>1
  <2> QED
    BY <1>1, <1>2, <2>2, SessionKept
\* Nobody is charged to the new thread, nor is it charged with its own events
\* alone before, so that what others have to themselves stays the same.
<1>7. ASSUME NEW u \in Threads, u # t PROVE account[u] # t
  <2>1. CASE u \in Thread
    BY <1>1, <1>7, <2>1 DEF Accounts
  <2>2. CASE u \notin Thread
    BY <1>1, <2>2, DebuggerAssumption DEF Accounts, Threads
  <2> QED
    BY <2>1, <2>2
<1>8. ASSUME NEW u \in Threads, OwnAccount(u)' PROVE OwnAccount(u)
  <2>1. account'[u] = u /\ \A v \in Thread : account'[v] = u /\ created'[v] = "begun" => v = u
    BY <1>8 DEF OwnAccount
  <2>2. account[u] = u
    BY <1>1, <1>4, <2>1 DEF Accounts
  <2>3. ASSUME NEW v \in Thread, account[v] = u, created[v] = "begun" PROVE v = u
    <3>1. v # t /\ v \in Threads
      BY <1>1, <2>3 DEF Threads
    <3> QED
      BY <1>3, <1>4, <2>1, <2>3, <3>1
  <2> QED
    BY <2>2, <2>3 DEF OwnAccount
<1>9. Accounts'
  <2>1. account'["main"] = "main"
    BY <1>1, <1>4, DebuggerAssumption DEF Accounts, Threads
  <2>2. running \in hooked /\ running # "main" =>
          /\ account[running] \in Thread /\ created[account[running]] = "begun"
    BY <1>1 DEF Accounts, Session, Threads
  <2>3. ASSUME NEW u \in Threads PROVE account'[account'[u]] = account'[u]
    <3>1. account[u] \in Threads /\ account[running] \in Threads
      BY <1>1 DEF DebugTypeOK
    <3>2. /\ account[account[u]] = account[u]
          /\ account[account[running]] = account[running]
      BY <1>1 DEF Accounts
    <3>3. CASE u = t
      <4>1. account[t] = t
        BY <1>1 DEF Accounts
      <4>2. CASE running \in hooked /\ running # "main"
        BY <1>1, <1>4, <1>7, <3>1, <3>2, <3>3, <4>2
      <4>3. CASE ~(running \in hooked /\ running # "main")
        BY <1>4, <3>3, <4>1, <4>3
      <4> QED
        BY <4>2, <4>3
    <3>4. CASE u # t
      BY <1>4, <1>7, <3>1, <3>2, <3>4
    <3> QED
      BY <3>3, <3>4
  <2>4. ASSUME NEW u \in Thread, created'[u] = "no" PROVE account'[u] = u
    <3>1. u # t /\ u \in Threads
      BY <1>3, <2>4 DEF Threads
    <3> QED
      BY <1>3, <1>4, <2>4, <3>1 DEF Accounts
  <2>5. ASSUME NEW u \in Thread, account'[u] # u
        PROVE  /\ account'[u] \in Thread /\ created'[account'[u]] = "begun"
               /\ stack_level'[u] = 0
    <3>1. CASE u = t
      <4>1. running \in hooked /\ running # "main" /\ account'[u] = account[running]
        BY <1>1, <1>4, <2>5, <3>1 DEF Accounts
      <4>2. stack_level[t] = 0
        BY <1>1 DEF Session
      <4> QED
        BY <1>1, <1>2, <1>3, <2>2, <3>1, <4>1, <4>2
    <3>2. CASE u # t
      <4>1. u \in Threads /\ account'[u] = account[u]
        BY <1>4, <3>2 DEF Threads
      <4>2. /\ account[u] \in Thread /\ created[account[u]] = "begun"
            /\ stack_level[u] = 0
        BY <2>5, <4>1 DEF Accounts
      <4> QED
        BY <1>1, <1>2, <1>3, <4>1, <4>2
    <3> QED
      BY <3>1, <3>2
  <2> QED
    BY <2>1, <2>3, <2>4, <2>5 DEF Accounts
<1>10. LevelsAreExact'
  <2> SUFFICES ASSUME NEW u \in hooked
               PROVE  /\ OwnAccount(u)' => stack_level[u] = Depth(u) - ground[u]
                      /\ account'[u] # u => stack_level[u] = 0
    BY <1>2 DEF LevelsAreExact, Depth
  <2>1. u \in Threads /\ u # t
    BY <1>1 DEF DebugTypeOK
  <2>2. account'[u] = account[u]
    BY <1>4, <2>1
  <2>3. /\ OwnAccount(u) => stack_level[u] = Depth(u) - ground[u]
        /\ account[u] # u => stack_level[u] = 0
    BY DEF LevelsAreExact
  <2> QED
    BY <1>8, <2>1, <2>2, <2>3
<1>11. Steps'
  <2>1. \A u \in hooked : OwnAccount(u)' => OwnAccount(u)
    BY <1>8 DEF DebugTypeOK
  <2>2. \A u \in hooked : ground'[u] <= ground[u] /\ step_level'[u] = step_level[u]
    BY <1>2 DEF DebugTypeOK
  <2> QED
    BY <1>2, <1>5, <2>1, <2>2, StepsKept
<1>12. UserBreakpointsKept' /\ OwnGoto' /\ Rise'
  BY <1>2, PointsKept DEF Rise
<1> QED
  BY <1>5, <1>6, <1>9, <1>10, <1>11, <1>12

(* A thread is resumed for the first time.                                 *)
LEMMA BeginKeepsInv ==
  ASSUME Inv, NEW t \in Thread, Begin(t)
  PROVE  Inv'
<1> USE DEF Inv, stepping, files, points
<1> DEFINE wrapped == created[t] = "wrapped"
           caller == Entering(frames[running], "resume")
           body == IF wrapped THEN Entering(Entering(<< >>, "wrapper"), "sethook")
                              ELSE Entering(<< >>, "function")
<1>0. AtRole({"function"}) /\ created[t] # "begun" /\ "resume" \in CRoles \cup LuaRoles
  BY DEF Begin, CRoles
<1>1. /\ running \in Threads /\ frames[running] \in Seq(Frame) /\ mode = "run"
      /\ Depth(running) \in Nat
      /\ t \in Threads /\ t # running /\ t \notin hooked
      /\ stack_level[t] = 0 /\ frames \in [Threads -> Seq(Frame)]
      /\ Rising(frames[running])
  BY <1>0, RunningThread, NotBegun DEF DebugTypeOK, Session, Rise
<1>2. caller \in Seq(Frame) /\ Rising(caller) /\ DepthOf(caller) = Depth(running) + 1
  BY <1>0, <1>1, EnteringFrame, RisingFrames DEF Depth
<1>3. body \in Seq(Frame) /\ Rising(body) /\ (wrapped => DepthOf(body) = 2)
  <2> DEFINE none == << >>
             one == Entering(none, "wrapper")
  <2>1. /\ "wrapper" \in CRoles \cup LuaRoles /\ "sethook" \in CRoles \cup LuaRoles
        /\ "function" \in CRoles \cup LuaRoles
    BY DEF CRoles, LuaRoles
  <2>2. none \in Seq(Frame) /\ Rising(none) /\ DepthOf(none) = 0
    BY DEF Rising, DepthOf
  <2> HIDE DEF none
  <2>3. one \in Seq(Frame) /\ Rising(one) /\ DepthOf(one) = 1
    BY <2>1, <2>2, EnteringFrame, RisingFrames
  <2>4. /\ Entering(none, "function") \in Seq(Frame)
        /\ Rising(Entering(none, "function"))
    BY <2>1, <2>2, EnteringFrame, RisingFrames
  <2> HIDE DEF one
  <2>5. /\ Entering(one, "sethook") \in Seq(Frame)
        /\ Rising(Entering(one, "sethook"))
        /\ DepthOf(Entering(one, "sethook")) = 2
    BY <2>1, <2>3, EnteringFrame, RisingFrames
  <2>6. body = IF wrapped THEN Entering(one, "sethook") ELSE Entering(none, "function")
    BY DEF one, none
  <2> HIDE DEF body
  <2> QED
    BY <2>4, <2>5, <2>6
<1>4. /\ frames' = [frames EXCEPT ![running] = caller, ![t] = body]
      /\ CallEvent(running, caller) /\ created' = [created EXCEPT ![t] = "begun"]
      /\ chain' = Append(chain, t)
      /\ UNCHANGED <<account, mode, started, step_into, step_over, step_lines, files,
                     points, asked>>
  BY DEF Begin
<1> HIDE DEF caller, body
<1>5. /\ stack_level' \in [Threads -> Nat]
      /\ address' \in CRoles \cup {"nil"}
      /\ \A u \in Threads : stack_level'[u] =
            IF running \in hooked /\ u = account[running] THEN stack_level[u] + 1
                                                          ELSE stack_level[u]
  BY <1>1, <1>2, <1>4, CallEventFacts
<1>6. /\ hooked' = IF wrapped THEN hooked \cup {t} ELSE hooked
      /\ step_level' = IF wrapped THEN [step_level EXCEPT ![t] = 0] ELSE step_level
      /\ ground' = IF wrapped THEN [ground EXCEPT ![t] = 2] ELSE ground
  BY DEF Begin
<1>7. DebugTypeOK'
  <2>0. frames' = [frames EXCEPT ![running] = caller, ![t] = body] /\ chain' = Append(chain, t)
    BY <1>4
  <2>1. frames' \in [Threads -> Seq(Frame)]
    BY ONLY <1>1, <1>2, <1>3, <2>0
  <2>a. chain' \in Seq(Threads)
    <3>1. chain \in Seq(Threads)
      BY DEF DebugTypeOK
    <3> QED
      BY <1>1, <2>0, <3>1, AppendProperties
  <2>2. created' \in [Thread -> {"no", "plain", "wrapped", "begun"}]
    BY <1>4 DEF DebugTypeOK
  <2>3. /\ hooked' \subseteq Threads /\ step_level' \in [Threads -> Int]
        /\ ground' \in [Threads -> Int]
    BY <1>1, <1>6 DEF DebugTypeOK
  <2> QED
    BY <1>4, <1>5, <2>1, <2>a, <2>2, <2>3 DEF DebugTypeOK
<1>8. \A u \in Threads : frames'[u] = IF u = t THEN body ELSE
                                      IF u = running THEN caller ELSE frames[u]
  BY <1>1, <1>4
<1>a. \A u \in Thread : created'[u] = IF u = t THEN "begun" ELSE created[u]
  BY <1>4 DEF DebugTypeOK
<1>b. ASSUME NEW u \in Threads, OwnAccount(u)' PROVE OwnAccount(u)
  BY <1>4, <1>a, <1>b DEF OwnAccount
<1>c. ASSUME NEW u \in Threads
      PROVE  running \in hooked => /\ OwnAccount(u) => (account[running] = u <=> running = u)
                                   /\ account[u] # u => account[running] # u
                                   /\ u \in Thread /\ created[u] # "begun" =>
                                        account[running] # u
  BY <1>1, Charged
<1>9. LevelsAreExact'
  <2> SUFFICES ASSUME NEW u \in hooked'
               PROVE  /\ OwnAccount(u)' => stack_level'[u] = Depth(u)' - ground'[u]
                      /\ account[u] # u => stack_level'[u] = 0
    BY <1>4 DEF LevelsAreExact
  <2>1. CASE u = t
    <3>1. wrapped
      BY <1>1, <1>6, <2>1
    <3>2. stack_level'[u] = 0
      BY <1>0, <1>1, <1>5, <1>c, <2>1
    <3>3. ground'[u] = 2 /\ Depth(u)' = 2
      BY <1>1, <1>3, <1>6, <1>8, <2>1, <3>1 DEF Depth, DebugTypeOK
    <3> QED
      BY <3>2, <3>3
  <2>2. CASE u # t
    <3>1. /\ u \in hooked /\ u \in Threads /\ ground[u] \in Int
          /\ OwnAccount(u) => stack_level[u] = Depth(u) - ground[u]
          /\ account[u] # u => stack_level[u] = 0
      BY <1>6, <2>2 DEF DebugTypeOK, LevelsAreExact
    <3>2. ground'[u] = ground[u]
      BY <1>6, <2>2, <3>1 DEF DebugTypeOK
    <3>3. Depth(u)' = IF u = running THEN Depth(u) + 1 ELSE Depth(u)
      BY <1>2, <1>8, <2>2, <3>1 DEF Depth
    <3>4. Depth(u) \in Nat
      BY <1>1, <3>1, LeavingFrame DEF Depth
    <3>5. CASE u = running
      BY <1>5, <1>b, <1>c, <3>1, <3>2, <3>3, <3>4, <3>5
    <3>6. CASE u # running
      BY <1>5, <1>b, <1>c, <3>1, <3>2, <3>3, <3>6
    <3> QED
      BY <3>5, <3>6
  <2> QED
    BY <2>1, <2>2
<1>10. Session' /\ Accounts'
  <2>1. ~started => hooked' = hooked
    BY <1>1, <1>6 DEF Session
  <2>2. \A u \in Thread : u \in Threads
    BY DEF Threads
  <2>3. \A u \in Thread : created'[u] # "begun" => created[u] # "begun" /\ u # t /\ u # running
    BY <1>0, <1>a, NotBegun
  <2>4. \A u \in Thread : created'[u] # "begun" =>
           /\ frames'[u] = frames[u] /\ stack_level'[u] = stack_level[u]
           /\ (u \in hooked' => u \in hooked)
    BY <1>5, <1>6, <1>8, <1>c, <2>2, <2>3
  <2>5. Session'
    BY <1>1, <1>4, <1>a, <2>1, <2>3, <2>4, SessionKept
  <2>6. \A u \in Thread : account[u] # u => stack_level'[u] = stack_level[u]
    BY <1>5, <1>c, <2>2
  <2>7. Accounts'
    BY <1>4, <1>a, <2>6, AccountsKept
  <2> QED
    BY <2>5, <2>7
<1>11. Steps'
  <2>1. \A u \in hooked : ground'[u] <= ground[u] /\ step_level'[u] = step_level[u]
    BY <1>1, <1>6 DEF DebugTypeOK
  <2>2. hooked \subseteq hooked'
    BY <1>6
  <2>3. \A u \in hooked : OwnAccount(u)' => OwnAccount(u)
    BY <1>b DEF DebugTypeOK
  <2> QED
    BY <1>4, <1>7, <2>1, <2>2, <2>3, StepsKept
<1>12. Rise'
  BY <1>2, <1>3, <1>8 DEF Rise
<1>13. UserBreakpointsKept' /\ OwnGoto'
  BY <1>4, PointsKept
<1> QED
  BY <1>7, <1>9, <1>10, <1>11, <1>12, <1>13

-----------------------------------------------------------------------------
(* pause() and the line event *)

\* Frames that only change their roles: no depth changes, and no thread that has
\* not begun has any.
SameDepths ==
    /\ frames' \in [Threads -> Seq(Frame)]
    /\ \A u \in Threads : Depth(u)' = Depth(u)
    /\ Rise'
    /\ \A u \in Thread : created[u] # "begun" => frames'[u] = frames[u]

(* The innermost function of the running thread changes its role.          *)
LEMMA TurnedFrames ==
  ASSUME Inv, NEW roles, AtRole(roles), NEW role \in CRoles \cup LuaRoles,
         Turns(role)
  PROVE  SameDepths
<1> DEFINE fs == Becoming(frames[running], role, DepthOf(frames[running]))
<1>1. /\ running \in Threads /\ frames[running] \in Seq(Frame)
      /\ frames[running] # << >> /\ DepthOf(frames[running]) \in Nat
      /\ frames \in [Threads -> Seq(Frame)]
      /\ frames' = [frames EXCEPT ![running] = fs]
  BY RunningThread DEF Inv, DebugTypeOK, Depth, Turns
<1>2. Rising(frames[running]) /\ DepthOf(frames[running]) >= DepthOf(frames[running])
  BY <1>1 DEF Inv, Rise
<1>3. fs \in Seq(Frame) /\ DepthOf(fs) = DepthOf(frames[running]) /\ Rising(fs)
  BY <1>1, <1>2, BecomingFrame, RisingFrames
<1> HIDE DEF fs
<1>4. frames' \in [Threads -> Seq(Frame)] /\ \A u \in Threads : Depth(u)' = Depth(u)
  BY <1>1, <1>3 DEF Depth
<1>5. Rise'
  BY <1>1, <1>3, RiseKept DEF Inv
<1>6. \A u \in Thread : created[u] # "begun" => frames'[u] = frames[u]
  BY <1>1, NotBegun DEF Inv
<1> QED
  BY <1>4, <1>5, <1>6 DEF SameDepths

(* No frames change.                                                       *)
LEMMA SameFrames ==
  ASSUME Inv, UNCHANGED frames
  PROVE  SameDepths
BY DEF Inv, DebugTypeOK, Rise, Depth, SameDepths

\* A step without any event: of what it changes, what Steps says is all that
\* has to be shown.
LEMMA SilentKeepsInv ==
  ASSUME Inv, mode = "run", SameDepths,
         UNCHANGED <<chain, threads, mode, started, step_over, step_level,
                     stack_level, files, points, ground>>,
         started \/ UNCHANGED <<step_into, asked>>,
         address' = "nil", step_into' \in BOOLEAN, step_lines' \in Int,
         asked' \in Asked, Steps'
  PROVE  Inv'
<1> USE DEF Inv, threads, files, points, SameDepths
<1>1. DebugTypeOK'
  BY DEF DebugTypeOK
<1>2. LevelsAreExact'
  BY SameAccounts DEF LevelsAreExact, DebugTypeOK
<1>3. Session' /\ Accounts'
  BY AccountsKept DEF Session
<1>4. UserBreakpointsKept' /\ OwnGoto'
  BY PointsKept
<1> QED
  BY <1>1, <1>2, <1>3, <1>4

(* pause() starts the session.                                             *)
LEMMA pauseKeepsInv ==
  ASSUME Inv, NEW lines \in {1, 2}, pause(lines)
  PROVE  Inv'
<1> USE DEF Inv, threads, stepping, files, points
<1>1. /\ AtRole({"function"}) /\ running = "main" /\ "main" \in Threads
      /\ mode = "run" /\ ~started
  BY DEF pause, Threads, AtRole
<1>2. {"pausing", "sethook"} \subseteq CRoles \cup LuaRoles
  BY DEF CRoles, LuaRoles
<1>3. /\ frames["main"] \in Seq(Frame) /\ Rising(frames["main"])
      /\ Depth("main") \in Nat /\ frames \in [Threads -> Seq(Frame)]
  BY <1>1, RunningThread DEF Rise, DebugTypeOK
<1> DEFINE once == Entering(frames["main"], "pausing")
           fs == Entering(once, "sethook")
<1>4. once \in Seq(Frame) /\ Rising(once) /\ DepthOf(once) = Depth("main") + 1
  BY <1>2, <1>3, EnteringFrame, RisingFrames DEF Depth
<1> HIDE DEF once
<1>5. fs \in Seq(Frame) /\ Rising(fs) /\ DepthOf(fs) = Depth("main") + 2
  BY <1>2, <1>3, <1>4, EnteringFrame, RisingFrames
<1>6. /\ frames' = [frames EXCEPT !["main"] = fs]
      /\ ground' = [ground EXCEPT !["main"] = Depth("main") + 1]
      /\ stack_level' = [stack_level EXCEPT !["main"] = 1]
      /\ step_level' = [step_level EXCEPT !["main"] = 0]
      /\ hooked' = {"main"} /\ started' = TRUE
      /\ step_lines' = lines /\ step_into' = TRUE
      /\ asked' = [command |-> "step", left |-> lines] /\ address' = "nil"
      /\ UNCHANGED <<chain, created, account, mode, step_over, files, points>>
  BY DEF pause, once
<1> HIDE DEF fs
<1>7. "main" \notin Thread
  BY DebuggerAssumption
<1>8. DebugTypeOK'
  <2>1. frames' \in [Threads -> Seq(Frame)]
    BY ONLY <1>1, <1>3, <1>5, <1>6
  <2>2. /\ ground' \in [Threads -> Int] /\ stack_level' \in [Threads -> Nat]
        /\ step_level' \in [Threads -> Int]
    BY <1>1, <1>3, <1>6 DEF DebugTypeOK
  <2>3. asked' \in Asked /\ hooked' \subseteq Threads /\ step_lines' \in Int
    BY <1>1, <1>6 DEF Asked
  <2> QED
    BY <1>6, <2>1, <2>2, <2>3 DEF DebugTypeOK
<1>9. LevelsAreExact'
  <2>1. Depth("main")' = DepthOf(fs) /\ ground'["main"] = Depth("main") + 1
    BY <1>1, <1>3, <1>6 DEF Depth, DebugTypeOK
  <2>2. stack_level'["main"] = 1 /\ account'["main"] = "main"
    BY <1>1, <1>6 DEF DebugTypeOK, Accounts
  <2>3. stack_level'["main"] = Depth("main")' - ground'["main"]
    BY <1>3, <1>5, <2>1, <2>2
  <2> QED
    BY <1>6, <2>2, <2>3 DEF LevelsAreExact
<1>10. \A t \in Thread : t \in Threads /\ t # "main" /\ stack_level'[t] = stack_level[t]
                         /\ frames'[t] = frames[t]
  BY <1>3, <1>6, <1>7 DEF Threads, DebugTypeOK
<1>11. Session' /\ Accounts'
  <2>1. Session'
    BY <1>1, <1>6, <1>10 DEF Session
  <2>2. Accounts'
    BY <1>6, <1>10, AccountsKept
  <2> QED
    BY <2>1, <2>2
<1>12. Steps'
  BY <1>6 DEF Steps
<1>13. UserBreakpointsKept' /\ OwnGoto'
  BY <1>6, PointsKept
<1>14. Rise'
  BY <1>3, <1>5, <1>6 DEF Rise
<1> QED
  BY <1>8, <1>9, <1>11, <1>12, <1>13, <1>14

(* pause() replaces the number of lines.                                   *)
LEMMA PauseSetsKeepsInv ==
  ASSUME Inv, NEW lines \in {1, 2}, PauseSets(lines)
  PROVE  Inv'
<1> USE DEF Inv
<1>1. /\ AtRole({"pause"}) /\ started /\ mode = "run" /\ Turns("setting")
      /\ "setting" \in CRoles \cup LuaRoles
  BY DEF PauseSets, AtRole, LuaRoles
<1>2. SameDepths
  BY <1>1, TurnedFrames
<1>3. /\ step_lines' = lines /\ address' = "nil"
      /\ asked' = IF asked.command \in {"step", "over"}
                  THEN [asked EXCEPT !.left = lines] ELSE asked
      /\ UNCHANGED <<chain, threads, mode, started, step_into, step_over,
                     step_level, stack_level, files, points, ground>>
  BY DEF PauseSets
<1>4. asked' \in Asked /\ step_into' \in BOOLEAN /\ step_lines' \in Int
  <2>1. asked \in Asked /\ lines \in Nat
    BY DEF DebugTypeOK
  <2>2. asked.command \in {"step", "over"} => [asked EXCEPT !.left = lines] \in Asked
    BY <2>1 DEF Asked
  <2> QED
    BY <1>3, <2>1, <2>2 DEF DebugTypeOK
<1>5. Steps'
  <2>1. CASE asked.command \in {"cont", "skip"}
    BY <1>1, <1>3, <2>1 DEF Steps, threads
  <2>2. CASE asked.command = "step"
    <3>1. asked' = [asked EXCEPT !.left = lines] /\ asked \in Asked
      BY <1>3, <2>2 DEF DebugTypeOK
    <3>2. asked'.command = "step" /\ asked'.left = lines
      BY <2>2, <3>1 DEF Asked
    <3> QED
      BY <1>1, <1>3, <2>2, <3>2 DEF Steps
  <2>3. CASE asked.command = "over"
    <3>1. asked' = [asked EXCEPT !.left = lines] /\ asked \in Asked
      BY <1>3, <2>3 DEF DebugTypeOK
    <3>2. /\ asked'.command = "over" /\ asked'.left = lines
          /\ asked'.thread = asked.thread /\ asked'.depth = asked.depth
          /\ asked'.ground = asked.ground
      BY <2>3, <3>1 DEF Asked
    <3>3. \A u : OwnAccount(u)' <=> OwnAccount(u)
      BY <1>3, SameAccounts DEF threads
    <3> QED
      BY <1>1, <1>3, <2>3, <3>2, <3>3 DEF Steps, threads
  <2> QED
    BY <2>1, <2>2, <2>3 DEF DebugTypeOK, Asked
<1> QED
  BY <1>1, <1>2, <1>3, <1>4, <1>5, SilentKeepsInv

(* pause() replaces the command.                                           *)
LEMMA PauseStepsKeepsInv ==
  ASSUME Inv, PauseSteps
  PROVE  Inv'
<1> USE DEF Inv
<1> DEFINE left == IF step_lines < 1 THEN 1 ELSE step_lines
<1>1. /\ AtRole({"setting"}) /\ started /\ mode = "run" /\ Turns("pausing")
      /\ "pausing" \in CRoles \cup LuaRoles
  BY DEF PauseSteps, AtRole, LuaRoles
<1>2. SameDepths
  BY <1>1, TurnedFrames
<1>3. /\ step_into' = TRUE /\ address' = "nil"
      /\ asked' = [command |-> "step", left |-> left]
      /\ UNCHANGED <<chain, threads, mode, started, step_over, step_lines,
                     step_level, stack_level, files, points, ground>>
  BY DEF PauseSteps
<1>4. step_lines \in Int /\ left \in Nat /\ left >= 1 /\ left >= step_lines
  BY DEF DebugTypeOK
<1> HIDE DEF left
<1>5. asked' \in Asked
  BY <1>3, <1>4 DEF Asked
<1>6. Steps'
  BY <1>3, <1>4 DEF Steps
<1> QED
  BY <1>1, <1>2, <1>3, <1>4, <1>5, <1>6, SilentKeepsInv

\* A line event in the running thread, whose innermost function may change its
\* role.
LEMMA LineEventKeepsInv ==
  ASSUME Inv, NEW roles, AtRole(roles), running \in hooked, SameDepths,
         NEW file \in File, NEW line \in Line \cup {OtherLine},
         LineEvent(running, file, line)
  PROVE  Inv'
<1> USE DEF Inv, threads, files, points
<1> DEFINE seen == Seen(running, file)
           place == <<seen, line>>
           into == step_into /\ ~TurnsOver(seen)
           over == step_over \/ TurnsOver(seen)
           steps == StepLine(account[running], into, over)
           lines == IF steps THEN step_lines - 1 ELSE step_lines
           stops == steps /\ lines < 1
           left == IF TurnsOver(seen) THEN [command |-> "skip"]
                   ELSE IF AskedFor(running) THEN [asked EXCEPT !.left = Max0(@ - 1)]
                   ELSE asked
           after == IF breakpoints[place] = TEMPORARY
                    THEN [breakpoints EXCEPT ![place] = NONE] ELSE breakpoints
<1>1. /\ running \in Threads /\ mode = "run"
      /\ started /\ chain # << >>
  BY RunningThread DEF Session, AtRole
<1>2. /\ UNCHANGED <<chain, threads, started, step_level, stack_level, root, ground>>
      /\ curfile' = seen /\ step_into' = into /\ step_over' = over
      /\ step_lines' = lines /\ asked' = left /\ address' = "nil"
  BY DEF LineEvent
<1>3. \/ /\ stops /\ Prompt(place, breakpoints) /\ mine' = mine
      \/ /\ ~stops /\ has_breakpoint(place)
         /\ Prompt(place, after)
         /\ mine' = IF mine[place] = TEMPORARY
                    THEN [mine EXCEPT ![place] = NONE] ELSE mine
      \/ /\ ~stops /\ UNCHANGED <<mode, breakfile, points>>
  BY DEF LineEvent
<1>4. /\ seen \in File /\ place[1] = seen
      /\ place # NoPlace /\ NoPlace \notin Place
  <2>1. "nil" \notin File /\ "debugger" \in File
    BY DebuggerAssumption
  <2>2. seen \in File
    BY <2>1 DEF Seen
  <2>3. Place \subseteq File \X (Nat \ {0})
    BY DebuggerAssumption
  <2>4. NoPlace \notin File \X (Nat \ {0})
    BY <2>1 DEF NoPlace, NoFile
  <2> HIDE DEF seen
  <2> QED
    BY <2>1, <2>2, <2>3, <2>4 DEF NoPlace, NoFile
<1>5. step_lines \in Int /\ lines \in Int /\ into \in BOOLEAN /\ over \in BOOLEAN
  <2> HIDE DEF steps, seen
  <2> QED
    BY DEF DebugTypeOK, TurnsOver
<1>6. left \in Asked
  <2>1. asked \in Asked /\ [command |-> "skip"] \in Asked
    BY DEF DebugTypeOK, Asked
  <2>2. ASSUME AskedFor(running) PROVE [asked EXCEPT !.left = Max0(@ - 1)] \in Asked
    <3>1. asked.left \in Nat /\ asked.command \in {"step", "over"}
      BY <2>1, <2>2 DEF Asked, AskedFor
    <3>2. Max0(asked.left - 1) \in Nat
      BY <3>1 DEF Max0
    <3> QED
      BY <2>1, <3>1, <3>2 DEF Asked
  <2> HIDE DEF seen
  <2> QED
    BY <2>1, <2>2
<1>7. /\ breakpoints' \in [Place -> Kinds] /\ mine' \in [Place -> Kinds]
      /\ gotoPlace' \in Place \cup {NoPlace} /\ mode' \in {"run", "prompt", "ended"}
      /\ breakfile' \in File \cup {NoFile}
  <2>1. /\ breakpoints \in [Place -> Kinds] /\ mine \in [Place -> Kinds]
        /\ gotoPlace \in Place \cup {NoPlace} /\ breakfile \in File \cup {NoFile}
    BY DEF DebugTypeOK
  <2> HIDE DEF seen, place, stops
  <2>2. after \in [Place -> Kinds]
    BY <2>1 DEF Kinds
  <2> HIDE DEF after
  <2> QED
    BY <1>1, <1>3, <1>4, <2>1, <2>2 DEF Prompt, Kinds
<1> HIDE DEF seen, place, lines, stops, steps, left, after, into, over
<1>8. DebugTypeOK'
  BY <1>2, <1>4, <1>5, <1>6, <1>7 DEF DebugTypeOK, SameDepths
<1>9. LevelsAreExact'
  BY <1>2, SameAccounts DEF LevelsAreExact, DebugTypeOK, SameDepths
<1>10. Session' /\ Accounts'
  <2>1. /\ mode' \in {"run", "prompt"}
        /\ mode' = "prompt" => gotoPlace' = NoPlace /\ breakfile' \in File
    BY <1>1, <1>3, <1>4 DEF Prompt
  <2>2. UNCHANGED <<created, account, chain, hooked, started, stack_level>>
    BY <1>2
  <2>3. running' = running
    BY <2>2 DEF running
  <2>4. \A u \in Thread : created'[u] # "begun" =>
           u \notin hooked' /\ frames'[u] = << >> /\ stack_level'[u] = 0
    BY <2>2 DEF Session, SameDepths
  <2>5. started' /\ chain' # << >> /\ running' \in hooked'
    BY <1>1, <2>2, <2>3
  <2>6. Session'
    BY ONLY <2>1, <2>4, <2>5 DEF Session
  <2>7. Accounts'
    BY <2>2, AccountsKept
  <2> QED
    BY <2>6, <2>7
<1>11. UserBreakpointsKept' /\ OwnGoto'
  <2>1. place = gotoPlace => place \in Place /\ mine[place] = NONE
    BY <1>4 DEF DebugTypeOK, OwnGoto
  <2>2. breakpoints \in [Place -> Kinds] /\ mine \in [Place -> Kinds]
    BY DEF DebugTypeOK
  <2>3. CASE stops /\ Prompt(place, breakpoints) /\ mine' = mine
    BY <1>4, <2>1, <2>2, <2>3 DEF Prompt, UserBreakpointsKept, OwnGoto
  <2>4. CASE UNCHANGED <<mode, breakfile, points>>
    BY <2>4, PointsKept
  <2>5. CASE /\ has_breakpoint(place) /\ Prompt(place, after)
             /\ mine' = IF mine[place] = TEMPORARY
                        THEN [mine EXCEPT ![place] = NONE] ELSE mine
    <3>1. place \in Place
      BY <2>5 DEF has_breakpoint
    <3>2. OwnGoto'
      BY <1>4, <2>5 DEF OwnGoto, Prompt
    <3>3. ASSUME NEW p \in Place, mine'[p] # NONE PROVE breakpoints'[p] = mine'[p]
      <4>1. mine'[p] = mine[p] /\ breakpoints[p] = mine[p]
        BY <2>2, <2>5, <3>3 DEF UserBreakpointsKept
      <4>2. p = place => mine[place] # TEMPORARY /\ place # gotoPlace
        BY <2>1, <2>2, <2>5, <3>1, <3>3, <4>1
      <4> QED
        BY <2>2, <2>5, <3>1, <4>1, <4>2 DEF Prompt, after
    <3> QED
      BY <3>2, <3>3 DEF UserBreakpointsKept
  <2> QED
    BY <1>3, <2>3, <2>4, <2>5
<1>12. Steps'
  <2> SUFFICES ASSUME mode' = "run" PROVE Steps'
    BY DEF Steps
  <2>1. ~stops
    BY <1>3 DEF Prompt
  <2>a. TurnsOver(seen) => step_into
    BY DEF TurnsOver
  <2>b. ~TurnsOver(seen) => into = step_into /\ over = step_over
    BY DEF into, over, DebugTypeOK
  <2>2. CASE asked.command \in {"cont", "skip"}
    <3>1. ~TurnsOver(seen) /\ ~AskedFor(running) /\ ~step_into
      BY <1>1, <2>2, <2>a DEF Steps, AskedFor
    <3>2. left = asked
      BY <3>1 DEF left
    <3> QED
      BY <1>1, <1>2, <2>2, <2>b, <3>1, <3>2 DEF Steps
  <2>3. CASE TurnsOver(seen)
    <3>1. ~into /\ over /\ left.command = "skip"
      BY <2>3 DEF into, over, left
    <3> QED
      BY <1>2, <3>1 DEF Steps
  <2>4. CASE asked.command = "step" /\ ~TurnsOver(seen)
    <3>1. /\ step_into /\ asked.left >= step_lines /\ asked.left >= 1
          /\ asked.left \in Nat /\ asked \in Asked
          /\ AskedFor(running)
      BY <1>1, <2>4 DEF Steps, AskedFor, DebugTypeOK, Asked
    <3>2. into /\ steps
      BY <2>b, <2>4, <3>1 DEF steps, StepLine
    <3>3. lines = step_lines - 1 /\ lines >= 1
      BY <1>5, <2>1, <3>2 DEF lines, stops
    <3>4. Max0(asked.left - 1) >= lines
      BY <1>5, <3>1, <3>3 DEF Max0
    <3>5. left = [asked EXCEPT !.left = Max0(asked.left - 1)]
      BY <2>4, <3>1 DEF left
    <3>6. left.left = Max0(asked.left - 1) /\ left.command = "step"
      BY <2>4, <3>1, <3>5 DEF Asked
    <3>7. left.left \in Nat /\ left.left >= 1
      BY <1>5, <1>6, <3>3, <3>4, <3>6 DEF Asked
    <3> QED
      BY <1>2, <3>2, <3>4, <3>6, <3>7 DEF Steps
  <2>5. CASE asked.command = "over" /\ ~TurnsOver(seen)
    <3>1. PICK u \in hooked :
             /\ u = asked.thread /\ u \in Threads /\ asked.left \in Nat
             /\ asked.depth \in Int /\ asked.ground \in Int /\ asked \in Asked
             /\ step_over /\ ~step_into /\ step_lines >= 1
             /\ OwnAccount(u) =>
                   /\ step_level[u] = asked.depth - asked.ground
                   /\ ground[u] <= asked.ground
                   /\ ground[u] = asked.ground => asked.left >= step_lines
      BY <1>1, <2>5 DEF Steps, DebugTypeOK, Asked
    <3>2. lines >= 1 /\ ~into /\ over
      BY <1>5, <2>1, <2>b, <2>5, <3>1 DEF lines, stops
    <3>3. /\ left.command = "over" /\ left.thread = u
          /\ left.depth = asked.depth /\ left.ground = asked.ground
          /\ left.left = IF AskedFor(running) THEN Max0(asked.left - 1) ELSE asked.left
      BY <2>5, <3>1 DEF Asked, left
    <3>4. ASSUME OwnAccount(u), ground[u] = asked.ground PROVE left.left >= lines
      <4>1. CASE ~AskedFor(running)
        BY <1>5, <3>1, <3>3, <3>4, <4>1 DEF lines
      <4>2. CASE AskedFor(running)
        <5>1. running = u /\ Depth(u) <= asked.depth
          BY <2>5, <3>1, <4>2 DEF AskedFor
        <5>2. /\ stack_level[u] = Depth(u) - ground[u] /\ account[u] = u
              /\ ground[u] \in Int
          BY <3>1, <3>4 DEF LevelsAreExact, OwnAccount, DebugTypeOK
        <5>3. Depth(u) \in Nat
          BY <3>1, LeavingFrame DEF Depth, DebugTypeOK
        <5>4. stack_level[u] <= step_level[u]
          BY <3>1, <3>4, <5>1, <5>2, <5>3
        <5>5. steps
          BY <3>2, <5>1, <5>2, <5>4 DEF steps, StepLine
        <5>6. lines = step_lines - 1
          BY <5>5 DEF lines
        <5> QED
          BY <1>5, <3>1, <3>2, <3>3, <3>4, <4>2, <5>6 DEF Max0
      <4> QED
        BY <4>1, <4>2
    <3>5. OwnAccount(u)' <=> OwnAccount(u)
      BY <1>2, SameAccounts
    <3> QED
      BY <1>2, <3>1, <3>2, <3>3, <3>4, <3>5 DEF Steps
  <2> QED
    BY <2>2, <2>3, <2>4, <2>5 DEF DebugTypeOK, Asked
<1> QED
  BY <1>8, <1>9, <1>10, <1>11, <1>12 DEF SameDepths

(* A line of the program is reached.                                       *)
LEMMA AtLineKeepsInv ==
  ASSUME Inv, NEW file \in File, NEW line \in Line \cup {OtherLine},
         AtLine(file, line)
  PROVE  Inv'
<1>1. SameDepths
  BY SameFrames DEF AtLine
<1>2. running \in hooked /\ LineEvent(running, file, line)
  BY DEF AtLine
<1>3. AtRole({"function"}) \/ AtRole({"pause", "setting"})
  BY DEF AtLine
<1> QED
  BY <1>1, <1>2, <1>3, LineEventKeepsInv

(* The last line of pause() or of the wrapper of a thread is reached.      *)
LEMMA LastLineKeepsInv ==
  ASSUME Inv, LastLine
  PROVE  Inv'
<1>1. PICK roles \in {{"pausing"}, {"wrapper"}} : AtRole(roles)
  BY DEF LastLine
<1>2. SameDepths
  <2>1. "paused" \in CRoles \cup LuaRoles /\ "wrapped" \in CRoles \cup LuaRoles
    BY DEF LuaRoles
  <2>2. Turns("paused") \/ Turns("wrapped")
    BY DEF LastLine
  <2> QED
    BY <1>1, <2>1, <2>2, TurnedFrames
<1>3. CASE running \in hooked
  <2>1. LineEvent(running, "debugger", OtherLine) /\ "debugger" \in File
    BY <1>3, DebuggerAssumption DEF LastLine
  <2>2. OtherLine \in Line \cup {OtherLine}
    OBVIOUS
  <2> QED
    BY <1>1, <1>2, <1>3, <2>1, <2>2, LineEventKeepsInv
<1>4. CASE running \notin hooked
  <2>1. /\ address' = "nil"
        /\ UNCHANGED <<chain, threads, mode, started, stepping, stack_level,
                       files, points, ground, asked>>
    BY <1>4 DEF LastLine
  <2>2. mode = "run" /\ Steps
    BY <1>1 DEF AtRole, Inv
  <2>3. Steps'
    BY <2>1, <2>2, SameAccounts DEF Steps, stepping, threads
  <2>4. step_into' \in BOOLEAN /\ step_lines' \in Int /\ asked' \in Asked
    BY <2>1 DEF Inv, DebugTypeOK, stepping
  <2> QED
    BY <1>2, <2>1, <2>2, <2>3, <2>4, SilentKeepsInv DEF stepping
<1> QED
  BY <1>3, <1>4

-----------------------------------------------------------------------------
(* The commands *)

\* Of the commands that let the program go on, what Steps says is all that has
\* to be shown.
LEMMA GoneOnKeepsInv ==
  ASSUME Inv, NEW into \in BOOLEAN, NEW over \in BOOLEAN, NEW lines \in Int,
         NEW levels \in [Threads -> Int], GoOn(into, over, lines, levels),
         asked' \in Asked, Steps',
         \/ UNCHANGED <<breakpoints, gotoPlace>>
         \/ \E p \in Place :
               /\ breakpoints[p] = NONE
               /\ breakpoints' = [breakpoints EXCEPT ![p] = PERSISTENT]
               /\ gotoPlace' = p
  PROVE  Inv'
<1> USE DEF Inv, threads
<1>1. /\ mode = "prompt" /\ mode' = "run" /\ started /\ gotoPlace = NoPlace
      /\ UNCHANGED <<frames, chain, threads, started, stack_level, root, curfile,
                     address, ground, mine>>
      /\ breakfile' = NoFile
      /\ step_into' = into /\ step_over' = over
      /\ step_lines' = lines /\ step_level' = levels
  BY DEF GoOn, Session
<1>2. breakpoints' \in [Place -> Kinds] /\ gotoPlace' \in Place \cup {NoPlace}
  BY DEF DebugTypeOK, Kinds
<1>3. DebugTypeOK'
  BY <1>1, <1>2 DEF DebugTypeOK
<1>4. LevelsAreExact' /\ Rise'
  BY <1>1, SameAccounts DEF LevelsAreExact, Rise, Depth
<1>5. Session' /\ Accounts'
  <2>1. Session'
    BY <1>1 DEF Session
  <2>2. Accounts'
    BY <1>1, AccountsKept
  <2> QED
    BY <2>1, <2>2
<1>6. UserBreakpointsKept' /\ OwnGoto'
  BY <1>1 DEF UserBreakpointsKept, OwnGoto, DebugTypeOK
<1> QED
  BY <1>3, <1>4, <1>5, <1>6

(* What holds of the running thread at the prompt.                         *)
LEMMA PromptFacts ==
  ASSUME Inv, mode = "prompt"
  PROVE  /\ running \in Threads /\ running \in hooked
         /\ account[running] \in Threads /\ breakfile \in File
         /\ Depth(running) \in Nat /\ ground[running] \in Int
         /\ OwnAccount(running) => stack_level[running] = Depth(running) - ground[running]
         /\ stack_level[account[running]] \in Nat
         /\ step_lines \in Int /\ step_level \in [Threads -> Int]
<1>1. running \in Threads /\ running \in hooked /\ breakfile \in File
  BY DEF Inv, Session, DebugTypeOK
<1>2. frames[running] \in Seq(Frame) /\ account[running] \in Threads
  BY <1>1 DEF Inv, DebugTypeOK
<1> QED
  BY <1>1, <1>2, LeavingFrame DEF Inv, DebugTypeOK, LevelsAreExact, Depth

(* A command that lets the program go on.                                  *)
LEMMA GoOnKeepsInv ==
  ASSUME Inv,
         \/ Cont
         \/ \E n \in Counts : StepInto(n) \/ StepOver(n) \/ StepOut(n)
         \/ \E line \in Line : Goto(line)
  PROVE  Inv'
<1>1. mode = "prompt"
  BY DEF Cont, StepInto, StepOver, StepOut, Goto, GoOn
<1> DEFINE a == account[running]
<1>2. /\ running \in Threads /\ running \in hooked
      /\ a \in Threads /\ breakfile \in File
      /\ Depth(running) \in Nat /\ ground[running] \in Int
      /\ OwnAccount(running) => stack_level[a] = Depth(running) - ground[running]
      /\ stack_level[a] \in Nat
      /\ step_lines \in Int /\ step_level \in [Threads -> Int]
  BY <1>1, PromptFacts DEF OwnAccount
<1> HIDE DEF a
<1>3. [command |-> "cont"] \in Asked
  BY DEF Asked
<1>4. CASE Cont
  <2>1. Steps'
    BY <1>4 DEF Steps, Cont, GoOn
  <2> QED
    BY <1>2, <1>3, <1>4, <2>1, GoneOnKeepsInv DEF Cont
<1>5. ASSUME NEW line \in Line, Goto(line) PROVE Inv'
  <2>1. Steps'
    BY <1>5 DEF Steps, Goto, GoOn
  <2>2. <<breakfile, line>> \in Place
    BY <1>5 DEF Goto
  <2>3. \/ UNCHANGED <<breakpoints, gotoPlace>>
        \/ /\ breakpoints[<<breakfile, line>>] = NONE
           /\ breakpoints' = [breakpoints EXCEPT ![<<breakfile, line>>] = PERSISTENT]
           /\ gotoPlace' = <<breakfile, line>>
    BY <1>5, <2>2 DEF Goto, has_breakpoint
  <2>4. GoOn(FALSE, FALSE, step_lines, step_level) /\ asked' \in Asked
    BY <1>3, <1>5 DEF Goto
  <2> QED
    BY <1>2, <2>1, <2>2, <2>3, <2>4, GoneOnKeepsInv
<1>6. ASSUME NEW n \in Counts, StepInto(n) PROVE Inv'
  <2>1. n \in Nat \ {0}
    BY DebuggerAssumption
  <2>2. asked' = [command |-> "step", left |-> n]
    BY <1>6 DEF StepInto
  <2>3. asked' \in Asked
    BY <2>1, <2>2 DEF Asked
  <2>4. Steps'
    <3>1. step_into' = TRUE /\ step_lines' = n
      BY <1>6 DEF StepInto, GoOn
    <3>2. asked'.command = "step" /\ asked'.left = n
      BY <2>2
    <3> QED
      BY <2>1, <3>1, <3>2 DEF Steps
  <2>5. n \in Int
    BY <2>1
  <2> QED
    BY <1>2, <1>6, <2>3, <2>4, <2>5, GoneOnKeepsInv DEF StepInto
<1>7. ASSUME NEW n \in Nat \ {0}, NEW d \in Int, NEW level \in Int,
             OwnAccount(running) => level = d - ground[running],
             GoOn(FALSE, TRUE, n, [step_level EXCEPT ![a] = level]),
             asked' = AskedOver(d, n), UNCHANGED <<breakpoints, gotoPlace>>
      PROVE  Inv'
  <2>1. asked' \in Asked
    BY <1>2, <1>7 DEF AskedOver, Asked
  <2>2. /\ step_into' = FALSE /\ step_over' = TRUE /\ step_lines' = n
        /\ step_level' = [step_level EXCEPT ![a] = level]
        /\ ground' = ground /\ hooked' = hooked /\ UNCHANGED <<account, created>>
    BY <1>7 DEF GoOn, threads
  <2>3. Steps'
    <3>1. PICK r \in Threads :
             /\ r = running /\ r \in hooked /\ ground[r] \in Int
             /\ OwnAccount(r) => level = d - ground[r] /\ a = r
      <4>1. OwnAccount(running) => a = running
        BY DEF OwnAccount, a
      <4> QED
        BY <1>2, <1>7, <4>1
    <3>2. /\ asked'.command = "over" /\ asked'.thread = r
          /\ asked'.depth = d /\ asked'.ground = ground[r] /\ asked'.left = n
      BY <1>7, <3>1 DEF AskedOver
    <3>3. ASSUME OwnAccount(r)' PROVE step_level'[r] = d - ground[r]
      <4>1. OwnAccount(r)
        BY <2>2, <3>3, SameAccounts
      <4> QED
        BY <1>2, <2>2, <3>1, <4>1
    <3> QED
      BY <2>2, <3>1, <3>2, <3>3 DEF Steps
  <2>4. [step_level EXCEPT ![a] = level] \in [Threads -> Int]
    BY <1>2, <1>7
  <2>5. n \in Int
    OBVIOUS
  <2> QED
    BY <1>7, <2>1, <2>3, <2>4, <2>5, GoneOnKeepsInv
<1>8. ASSUME NEW n \in Counts, StepOver(n) PROVE Inv'
  <2> DEFINE d == Depth(running)
             level == stack_level[a]
  <2>1. n \in Nat \ {0}
    BY DebuggerAssumption
  <2>2. d \in Int /\ level \in Int /\ (OwnAccount(running) => level = d - ground[running])
    BY <1>2
  <2>3. /\ GoOn(FALSE, TRUE, n, [step_level EXCEPT ![a] = level])
        /\ asked' = AskedOver(d, n)
        /\ UNCHANGED <<breakpoints, gotoPlace>>
    BY <1>8 DEF StepOver, a
  <2> HIDE DEF d, level
  <2> QED
    BY <1>7, <2>1, <2>2, <2>3
<1>9. ASSUME NEW n \in Counts, StepOut(n) PROVE Inv'
  <2> DEFINE d == Depth(running) - n
             level == stack_level[a] - n
             one == 1
  <2>1. n \in Nat \ {0} /\ one \in Nat \ {0}
    BY DebuggerAssumption
  <2>2. /\ d \in Int /\ level \in Int
        /\ OwnAccount(running) => level = d - ground[running]
    BY <1>2, <2>1
  <2>3. /\ GoOn(FALSE, TRUE, one, [step_level EXCEPT ![a] = level])
        /\ asked' = AskedOver(d, one)
        /\ UNCHANGED <<breakpoints, gotoPlace>>
    BY <1>9 DEF StepOut, a
  <2> HIDE DEF d, level, one
  <2> QED
    BY <1>7, <2>1, <2>2, <2>3
<1> QED
  BY <1>4, <1>5, <1>6, <1>8, <1>9

(* A command that sets or clears breakpoints.                              *)
LEMMA BreakpointKeepsInv ==
  ASSUME Inv, Breakpoint
  PROVE  Inv'
<1> USE DEF Inv, threads, stepping, files
<1>1. PICK new \in [Place -> Kinds] : SetBreakpoints(new)
  <2>1. ASSUME NEW p \in Place, NEW kind \in Kinds
        PROVE  [breakpoints EXCEPT ![p] = kind] \in [Place -> Kinds]
    BY DEF DebugTypeOK
  <2>2. [p \in Place |-> NONE] \in [Place -> Kinds]
    BY DEF Kinds
  <2> QED
    BY <2>1, <2>2 DEF Breakpoint
<1>2. /\ mode = "prompt" /\ breakpoints' = new
      /\ mine' = [p \in Place |-> IF new[p] = breakpoints[p] THEN mine[p] ELSE new[p]]
      /\ UNCHANGED <<frames, chain, threads, mode, started, stepping,
                     stack_level, files, gotoPlace, address, ground, asked>>
  BY <1>1 DEF SetBreakpoints
<1>3. DebugTypeOK'
  BY <1>2 DEF DebugTypeOK
<1>4. LevelsAreExact' /\ Rise' /\ Session' /\ Accounts'
  BY <1>2, SameAccounts DEF LevelsAreExact, Rise, Session, Accounts, Depth, running
<1>5. Steps'
  BY <1>2 DEF Steps
<1>6. UserBreakpointsKept'
  BY <1>2 DEF UserBreakpointsKept
<1>7. OwnGoto'
  <2>1. gotoPlace' \notin Place
    BY <1>2, DebuggerAssumption DEF Session, NoPlace, NoFile
  <2> QED
    BY <2>1 DEF OwnGoto
<1> QED
  BY <1>3, <1>4, <1>5, <1>6, <1>7

(* The command that names the directory of the project.                    *)
LEMMA RootPathKeepsInv ==
  ASSUME Inv, NEW dir \in Root, RootPath(dir)
  PROVE  Inv'
<1> USE DEF Inv, threads, stepping, points
<1>1. /\ mode = "prompt" /\ root' = dir /\ curfile' = NoFile
      /\ UNCHANGED <<frames, chain, threads, mode, started, stepping, stack_level,
                     breakfile, points, address, ground, asked>>
  BY DEF RootPath
<1>2. DebugTypeOK'
  BY <1>1 DEF DebugTypeOK
<1>3. LevelsAreExact' /\ Rise' /\ Session' /\ Accounts'
  BY <1>1, SameAccounts DEF LevelsAreExact, Rise, Session, Accounts, Depth, running
<1>4. Steps'
  BY <1>1 DEF Steps
<1>5. UserBreakpointsKept' /\ OwnGoto'
  BY <1>1, PointsKept
<1> QED
  BY <1>2, <1>3, <1>4, <1>5

(* The command that ends the session.                                      *)
LEMMA ExitKeepsInv ==
  ASSUME Inv, Exit
  PROVE  Inv'
<1> USE DEF Inv, stepping, files, points
<1>1. /\ mode = "prompt" /\ mode' = "ended" /\ started' = FALSE
      /\ hooked' = hooked \ {running}
      /\ UNCHANGED <<frames, chain, created, account, stepping, stack_level, files,
                     points, address, ground, asked>>
  BY DEF Exit
<1>2. DebugTypeOK'
  BY <1>1 DEF DebugTypeOK
<1>3. LevelsAreExact' /\ Rise' /\ Session' /\ Accounts' /\ Steps'
  BY <1>1, SameAccounts DEF LevelsAreExact, Rise, Session, Accounts, Steps, Depth
<1>4. UserBreakpointsKept' /\ OwnGoto'
  BY <1>1, PointsKept
<1> QED
  BY <1>2, <1>3, <1>4

-----------------------------------------------------------------------------
(* The specification *)

(* The invariant holds initially.                                          *)
LEMMA InitHasInv ==
  ASSUME Init
  PROVE  Inv
<1>1. << >> \in Seq(Frame) /\ Rising(<< >>) /\ DepthOf(<< >>) = 0
  BY DEF Rising, DepthOf
<1>2. "function" \in CRoles \cup LuaRoles
  BY DEF LuaRoles
<1>3. /\ Entering(<< >>, "function") \in Seq(Frame)
      /\ Rising(Entering(<< >>, "function"))
  BY <1>1, <1>2, EnteringFrame, RisingFrames
<1>4. frames \in [Threads -> Seq(Frame)] /\ Rise
  BY <1>1, <1>3 DEF Init, Rise
<1>5. DebugTypeOK
  <2>1. chain \in Seq(Threads)
    BY DEF Init, Threads
  <2>2. asked \in Asked
    BY DEF Init, Asked
  <2>3. /\ stack_level \in [Threads -> Nat] /\ step_level \in [Threads -> Int]
        /\ ground \in [Threads -> Int] /\ account \in [Threads -> Threads]
    BY DEF Init
  <2>4. breakpoints \in [Place -> Kinds] /\ mine \in [Place -> Kinds]
    BY DEF Init, Kinds
  <2>5. /\ created \in [Thread -> {"no", "plain", "wrapped", "begun"}]
        /\ hooked \subseteq Threads /\ mode \in {"run", "prompt", "ended"}
        /\ started \in BOOLEAN /\ step_into \in BOOLEAN /\ step_over \in BOOLEAN
    BY DEF Init
  <2>6. step_lines \in Int
    <3>1. step_lines = 0
      BY DEF Init
    <3> QED
      BY ONLY <3>1
  <2>7. /\ gotoPlace \in Place \cup {NoPlace}
        /\ root \in Root \cup {NoRoot} /\ curfile \in File \cup {NoFile}
        /\ breakfile \in File \cup {NoFile} /\ address \in CRoles \cup {"nil"}
    BY DEF Init
  <2> QED
    BY ONLY <1>4, <2>1, <2>2, <2>3, <2>4, <2>5, <2>6, <2>7 DEF DebugTypeOK
<1>6. LevelsAreExact /\ UserBreakpointsKept
  BY DEF Init, LevelsAreExact, UserBreakpointsKept
<1>7. Session /\ Accounts
  <2>1. \A t \in Thread : frames[t] = << >> /\ t \in Threads
    BY DebuggerAssumption DEF Init, Threads
  <2>2. "main" \in Threads
    BY DEF Threads
  <2> QED
    BY <2>1, <2>2 DEF Init, Session, Accounts
<1>8. Steps
  BY DEF Init, Steps
<1>9. OwnGoto
  BY DebuggerAssumption DEF Init, OwnGoto, NoPlace, NoFile
<1> QED
  BY <1>4, <1>5, <1>6, <1>7, <1>8, <1>9 DEF Inv

(* Every step keeps the invariant.                                         *)
LEMMA NextKeepsInv ==
  ASSUME Inv, [Next]_vars
  PROVE  Inv'
<1>1. ASSUME NEW role \in {"function", "c", "pcall"}, Call(role) PROVE Inv'
  BY <1>1, CallKeepsInv
<1>2. CASE TailCall
  BY <1>2, TailCallKeepsInv
<1>3. CASE Return
  BY <1>3, ReturnKeepsInv
<1>4. CASE Error
  BY <1>4, ErrorKeepsInv
<1>5. CASE Yield
  BY <1>5, YieldKeepsInv
<1>6. ASSUME NEW t \in Thread, Create(t) PROVE Inv'
  BY <1>6, CreateKeepsInv
<1>7. ASSUME NEW t \in Thread, Begin(t) PROVE Inv'
  BY <1>7, BeginKeepsInv
<1>8. ASSUME NEW t \in Thread, Resume(t) PROVE Inv'
  BY <1>8, ResumeKeepsInv
<1>9. ASSUME NEW lines \in {1, 2}, pause(lines) \/ PauseSets(lines) PROVE Inv'
  BY <1>9, pauseKeepsInv, PauseSetsKeepsInv
<1>10. CASE PauseAgain
  BY <1>10, CallKeepsInv DEF PauseAgain
<1>11. CASE PauseSteps
  BY <1>11, PauseStepsKeepsInv
<1>12. CASE LastLine
  BY <1>12, LastLineKeepsInv
<1>13. ASSUME NEW file \in File, NEW line \in Line \cup {OtherLine},
              AtLine(file, line)
       PROVE  Inv'
  BY <1>13, AtLineKeepsInv
<1>14. CASE Command
  <2>1. CASE Breakpoint
    BY <2>1, BreakpointKeepsInv
  <2>2. CASE Exit
    BY <2>2, ExitKeepsInv
  <2>3. ASSUME NEW dir \in Root, RootPath(dir) PROVE Inv'
    BY <2>3, RootPathKeepsInv
  <2> QED
    BY <1>14, <2>1, <2>2, <2>3, GoOnKeepsInv DEF Command
<1>15. CASE UNCHANGED vars
  <2> USE <1>15 DEF vars, threads, stepping, files, points, Inv
  <2>1. DebugTypeOK'
    BY DEF DebugTypeOK
  <2>2. LevelsAreExact' /\ Session' /\ Accounts' /\ Rise'
    BY SameAccounts DEF LevelsAreExact, Session, Accounts, Rise, Depth, running
  <2>3. Steps'
    BY SameAccounts DEF Steps
  <2>4. UserBreakpointsKept' /\ OwnGoto'
    BY PointsKept
  <2> QED
    BY <2>1, <2>2, <2>3, <2>4
<1> QED
  BY <1>1, <1>2, <1>3, <1>4, <1>5, <1>6, <1>7, <1>8, <1>9, <1>10, <1>11,
     <1>12, <1>13, <1>14, <1>15 DEF Next, Program

(* The inductive invariant holds in every reachable state.                 *)
LEMMA InvAlways == Spec => []Inv
<1>1. Init => Inv
  BY InitHasInv
<1>2. Inv /\ [Next]_vars => Inv'
  BY NextKeepsInv
<1> QED
  BY <1>1, <1>2, PTL DEF Spec

\* The variables have their types in every reachable state.
THEOREM TypesAreOK == Spec => []DebugTypeOK
<1>1. Inv => DebugTypeOK
  BY DEF Inv
<1> QED
  BY <1>1, InvAlways, PTL

\* The level that the hook counts for a thread that has its account to itself is
\* its depth over the function in which the session or the thread began, less
\* what errors have unwound; for one on another's account it stays 0.
THEOREM LevelsAlwaysExact == Spec => []LevelsAreExact
<1>1. Inv => LevelsAreExact
  BY DEF Inv
<1> QED
  BY <1>1, InvAlways, PTL

\* goto and temporary breakpoints leave the user's breakpoints alone.
THEOREM BreakpointsAlwaysKept == Spec => []UserBreakpointsKept
<1>1. Inv => UserBreakpointsKept
  BY DEF Inv
<1> QED
  BY <1>1, InvAlways, PTL

\* step does not run past the lines it was asked to stop at, as long as the files
\* that are reached have their sources; nor do over and out, in a thread that has
\* its account to itself and has not left the outermost function or been unwound.
THEOREM NothingEverPassed == Spec => []NothingPassed
<1>1. Inv => NothingPassed
  <2> SUFFICES ASSUME Inv, mode = "run" PROVE NothingPassed
    BY DEF NothingPassed
  <2>1. CASE asked.command \in {"cont", "skip"}
    BY <2>1 DEF NothingPassed
  <2>2. CASE asked.command = "step"
    BY <2>2 DEF NothingPassed, Inv, Steps
  <2>3. CASE asked.command = "over"
    <3>1. asked.left \in Nat /\ step_lines \in Int
      BY <2>3 DEF Inv, DebugTypeOK, Asked
    <3>2. /\ step_lines >= 1
          /\ OwnAccount(asked.thread) /\ ground[asked.thread] = asked.ground =>
               asked.left >= step_lines
      BY <2>3 DEF Inv, Steps
    <3> QED
      BY <2>3, <3>1, <3>2 DEF NothingPassed
  <2> QED
    BY <2>1, <2>2, <2>3 DEF Inv, DebugTypeOK, Asked
<1> QED
  BY <1>1, InvAlways, PTL

\* When a function is entered while the program is stepped into, its role is
\* what c_addr() answers, if it is a C function.
LEMMA AddressOfEntered ==
  ASSUME DebugTypeOK, NEW roles, AtRole(roles), NEW role \in CRoles \cup LuaRoles,
         NEW fs, fs = Entering(frames[running], role), CallEvent(running, fs),
         step_into, running \in hooked, account[running] = running,
         fs[Len(fs)].role \in CRoles
  PROVE  address' = fs[Len(fs)].role
<1>1. frames[running] \in Seq(Frame)
  BY RunningThread
<1>2. fs \in Seq(Frame) /\ fs # << >>
  BY <1>1, EnteringFrame
<1>3. address' = c_addr(InHook(running, fs))
  BY DEF CallEvent
<1> QED
  BY <1>2, <1>3, AddressOfCall

\* Whether a step may have entered a C function at all: unless it had a call
\* event, the frames of the running thread did not grow by such a frame.
Grown == /\ Len(frames'[running]) = Len(frames[running]) + 1
         /\ frames'[running][Len(frames'[running])].role \in CRoles

LEMMA OthersDoNotGrow ==
  ASSUME Inv, chain # << >>, Grown,
         \/ frames' = frames \/ TailCall \/ Return \/ Error
         \/ \E lines \in {1, 2} : pause(lines)
         \/ frames[running] # << >> /\ \E role : Turns(role)
  PROVE  FALSE
<1> USE DEF Inv
<1>1. /\ running \in Threads /\ frames \in [Threads -> Seq(Frame)]
      /\ frames[running] \in Seq(Frame)
  BY DEF DebugTypeOK, running
<1> DEFINE fs == frames[running]
<1>2. /\ \A f : frames' = [frames EXCEPT ![running] = f] => frames'[running] = f
      /\ \A f : frames' = [frames EXCEPT !["main"] = f] /\ running = "main"
                  => frames'[running] = f
  BY <1>1
<1> HIDE DEF Inv
<1>3. Len(fs) \in Nat
  BY <1>1
<1>4. CASE frames' = frames
  BY <1>3, <1>4 DEF Grown
<1>5. fs # << >> => /\ Len(Leaving(fs)) = Len(fs) - 1 /\ Leaving(fs) \in Seq(Frame)
  <2>1. fs \in Seq(Frame)
    BY <1>1
  <2> HIDE DEF fs
  <2>2. ASSUME fs # << >> PROVE Len(SubSeq(fs, 1, Len(fs) - 1)) = Len(fs) - 1
    <3>1. Len(fs) - 1 \in 0..Len(fs)
      BY <1>3, <2>1, <2>2
    <3>2. \A n \in 0..Len(fs) : Len(SubSeq(fs, 1, n)) = n
      BY <2>1
    <3> QED
      BY <3>1, <3>2
  <2> QED
    BY <2>1, <2>2, LeavingFrame DEF Leaving
<1>6. ASSUME NEW role, NEW depth, fs # << >>,
             frames'[running] = Becoming(fs, role, depth)
      PROVE  FALSE
  <2>1. Len(Append(Leaving(fs), [role |-> role, depth |-> depth])) = Len(fs)
    <3>1. \A s \in Seq(Frame) : \A x : Len(Append(s, x)) = Len(s) + 1
      OBVIOUS
    <3> QED
      BY <1>3, <1>5, <1>6, <3>1
  <2> QED
    BY <1>3, <1>6, <2>1 DEF Becoming, Grown
<1>7. CASE TailCall
  BY <1>2, <1>6, <1>7 DEF TailCall, AtRole
<1>8. ASSUME NEW role, Turns(role), fs # << >> PROVE FALSE
  BY <1>2, <1>6, <1>8 DEF Turns
<1>9. CASE Return
  <2>1. frames'[running] = Leaving(fs) /\ fs # << >>
    BY <1>2, <1>9 DEF Return, AtRole
  <2> QED
    BY <1>3, <1>5, <2>1 DEF Grown
<1>10. CASE Error
  <2>1. PICK n \in 0..Len(fs) : frames'[running] = SubSeq(fs, 1, n)
    BY <1>2, <1>10 DEF Error
  <2>2. Len(SubSeq(fs, 1, n)) = n
    BY <1>1, <1>3
  <2> QED
    BY <1>3, <2>1, <2>2 DEF Grown
<1>11. /\ "pausing" \in CRoles \cup LuaRoles /\ "sethook" \in CRoles \cup LuaRoles
       /\ "pausing" \notin CRoles
  BY DEF CRoles, LuaRoles
<1> DEFINE once == Entering(fs, "pausing")
<1>12. /\ once \in Seq(Frame) /\ Len(once) = Len(fs) + 1
       /\ once[Len(fs) + 1].role = "pausing"
  BY <1>1, <1>11, EnteringFrame
<1>13. ASSUME NEW lines, pause(lines) PROVE FALSE
  <2>1. frames'[running] = Entering(once, "sethook")
    BY <1>2, <1>13 DEF pause
  <2> HIDE DEF once
  <2>2. Len(Entering(once, "sethook")) = Len(once) + 1
    BY <1>11, <1>12, EnteringFrame
  <2> QED
    BY <1>3, <1>12, <2>1, <2>2 DEF Grown
<1> QED
  BY <1>4, <1>7, <1>8, <1>9, <1>10, <1>13

\* dbgl finds the C function that is being entered, in a thread whose hook calls
\* debug_hook itself.
THEOREM AddressAlwaysOfCall == Spec => AddressIsOfCall
<1> DEFINE new == frames'[running]
<1>1. ASSUME Inv, [Next]_vars, chain # << >>, step_into, running \in hooked,
             account[running] = running, Grown
      PROVE  address' = new[Len(new)].role
  <2>a. /\ DebugTypeOK /\ running \in Threads /\ frames \in [Threads -> Seq(Frame)]
    BY <1>1 DEF Inv, DebugTypeOK, running
  <2>b. /\ "resume" \in CRoles \cup LuaRoles /\ "yield" \in CRoles \cup LuaRoles
        /\ {"function", "c", "pcall", "pause"} \subseteq CRoles \cup LuaRoles
    BY DEF CRoles, LuaRoles
  <2>c. new[Len(new)].role \in CRoles
    BY <1>1 DEF Grown
  <2>d. \A f : frames' = [frames EXCEPT ![running] = f] => new = f
    BY <2>a
  <2>e. ASSUME NEW t \in Thread, Begin(t) PROVE new = Entering(frames[running], "resume")
    <3>1. AtRole({"function"}) /\ created[t] # "begun" /\ Session
      BY <1>1, <2>e DEF Begin, Inv
    <3>2. t # running
      BY <2>a, <3>1, NotBegun
    <3> QED
      BY <2>a, <2>e, <3>2 DEF Begin
  <2> HIDE DEF new
  <2>1. ASSUME NEW roles, AtRole(roles), NEW role \in CRoles \cup LuaRoles,
               new = Entering(frames[running], role), CallEvent(running, new)
        PROVE  address' = new[Len(new)].role
    BY <1>1, <2>1, <2>a, <2>c, AddressOfEntered
  <2>2. ASSUME NEW role \in {"function", "c", "pcall", "pause"}, Call(role)
        PROVE  address' = new[Len(new)].role
    <3>1. /\ AtRole({"function", "pcall"}) /\ new = Entering(frames[running], role)
          /\ CallEvent(running, new)
      BY <2>2, <2>d DEF Call, new
    <3> QED
      BY <2>1, <2>b, <3>1
  <2>3. CASE Yield
    <3>1. /\ AtRole({"function"}) /\ new = Entering(frames[running], "yield")
          /\ CallEvent(running, new)
      BY <2>3, <2>d DEF Yield, new
    <3> QED
      BY <2>1, <2>b, <3>1
  <2>4. ASSUME NEW t \in Thread, Resume(t) PROVE address' = new[Len(new)].role
    <3>1. /\ AtRole({"function"}) /\ new = Entering(frames[running], "resume")
          /\ CallEvent(running, new)
      BY <2>4, <2>d DEF Resume, new
    <3> QED
      BY <2>1, <2>b, <3>1
  <2>5. ASSUME NEW t \in Thread, Begin(t) PROVE address' = new[Len(new)].role
    <3>1. /\ AtRole({"function"}) /\ new = Entering(frames[running], "resume")
          /\ CallEvent(running, new)
      BY <2>5, <2>e DEF Begin
    <3> QED
      BY <2>1, <2>b, <3>1
  <2>6. ASSUME NEW t \in Thread, Create(t) PROVE frames' = frames
    BY <2>6 DEF Create
  <2>7. ASSUME NEW file, NEW line, AtLine(file, line) PROVE frames' = frames
    BY <2>7 DEF AtLine
  <2>8. ASSUME Command PROVE frames' = frames
    <3>1. ASSUME NEW b, SetBreakpoints(b) PROVE frames' = frames
      BY <3>1 DEF SetBreakpoints
    <3> QED
      BY <2>8, <3>1 DEF Command, Cont, Breakpoint, Exit, StepInto, StepOver,
                        StepOut, Goto, RootPath, GoOn
  <2>9. UNCHANGED vars => frames' = frames
    BY DEF vars
  <2>10. ASSUME PauseSteps \/ LastLine \/ \E lines \in {1, 2} : PauseSets(lines)
         PROVE  frames[running] # << >> /\ \E role : Turns(role)
    BY <2>10 DEF PauseSteps, LastLine, PauseSets, AtRole
  <2>11. ASSUME PauseAgain PROVE address' = new[Len(new)].role
    BY <2>2, <2>11 DEF PauseAgain
  <2> QED
    BY <1>1, <2>2, <2>3, <2>4, <2>5, <2>6, <2>7, <2>8, <2>9, <2>10, <2>11,
       OthersDoNotGrow DEF Next, Program
<1>2. Inv /\ [Next]_vars =>
        (chain # << >> /\ step_into /\ running \in hooked /\ account[running] = running
          /\ Len(frames'[running]) = Len(frames[running]) + 1
          /\ frames'[running][Len(frames'[running])].role \in CRoles
         => address' = frames'[running][Len(frames'[running])].role)
  BY <1>1 DEF Grown
<1> QED
  BY <1>2, InvAlways, PTL DEF Spec, AddressIsOfCall

\* After over and out, a thread that has its account to itself is stopped only as
\* far out as was asked, or in the outermost function that the debugger knows of.
THEOREM AlwaysStaysOut == Spec => StaysOut
<1>1. ASSUME Inv, [Next]_vars, mode = "run", mode' = "prompt",
             asked.command = "over", running = asked.thread, OwnAccount(running),
             step_lines' < 1, step_lines > 0
      PROVE  Depth(running) <= asked.depth \/ Depth(running) = ground[running]
  <2>1. \E file \in File, line \in Line \cup {OtherLine} : LineEvent(running, file, line)
    <3>1. ~ Command
      <4>1. ASSUME NEW b, SetBreakpoints(b) PROVE FALSE
        BY <1>1, <4>1 DEF SetBreakpoints
      <4> QED
        BY <1>1, <4>1 DEF Command, Cont, Breakpoint, Exit, StepInto, StepOver,
                          StepOut, Goto, RootPath, GoOn
    <3>2. ~ UNCHANGED vars
      BY <1>1 DEF vars
    <3>3. Program
      BY <1>1, <3>1, <3>2 DEF Next
    <3>4. ASSUME NEW file, NEW line, AtLine(file, line)
          PROVE  LineEvent(running, file, line)
      BY <3>4 DEF AtLine
    <3>5. LastLine => LineEvent(running, "debugger", OtherLine) /\ "debugger" \in File
      BY <1>1, DebuggerAssumption DEF LastLine
    <3>6. ASSUME NEW role, Call(role) PROVE FALSE
      BY <1>1, <3>6 DEF Call
    <3>7. ASSUME TailCall \/ Yield \/ PauseAgain \/ PauseSteps PROVE FALSE
      BY <1>1, <3>6, <3>7 DEF TailCall, Yield, PauseAgain, PauseSteps
    <3>8. ASSUME Return \/ Error PROVE FALSE
      BY <1>1, <3>8 DEF Return, Error, Ends
    <3>9. ASSUME NEW t \in Thread, Create(t) \/ Begin(t) \/ Resume(t) PROVE FALSE
      BY <1>1, <3>9 DEF Create, Begin, Resume
    <3>10. ASSUME NEW lines \in {1, 2}, pause(lines) \/ PauseSets(lines) PROVE FALSE
      BY <1>1, <3>10 DEF pause, PauseSets
    <3> QED
      BY <3>3, <3>4, <3>5, <3>6, <3>7, <3>8, <3>9, <3>10 DEF Program
  <2>2. PICK file \in File, line \in Line \cup {OtherLine} :
           LineEvent(running, file, line)
    BY <2>1
  <2>3. ~step_into /\ ~TurnsOver(Seen(running, file))
    BY <1>1 DEF Inv, Steps, TurnsOver
  <2>4. /\ running \in hooked /\ ground[running] <= asked.ground
        /\ step_level[running] = asked.depth - asked.ground
        /\ account[running] = running
    BY <1>1 DEF Inv, Steps, OwnAccount
  <2>5. StepLine(running, FALSE, step_over)
    <3>1. step_lines \in Int
      BY <1>1 DEF Inv, DebugTypeOK
    <3>2. StepLine(running, step_into, step_over)
      BY <1>1, <2>2, <2>3, <2>4, <3>1 DEF LineEvent, StepLine
    <3> QED
      BY <2>3, <3>2 DEF StepLine
  <2>6. stack_level[running] <= step_level[running] \/ stack_level[running] = 0
    BY <2>5 DEF StepLine
  <2>7. /\ running \in Threads /\ ground[running] \in Int
        /\ asked.depth \in Int /\ asked.ground \in Int
        /\ frames[running] \in Seq(Frame)
    BY <1>1, <2>4 DEF Inv, DebugTypeOK, Asked
  <2>8. Depth(running) \in Nat
    BY <2>7, LeavingFrame DEF Depth
  <2>9. stack_level[running] = Depth(running) - ground[running]
    BY <1>1, <2>4 DEF Inv, LevelsAreExact
  <2> QED
    BY <2>4, <2>6, <2>7, <2>8, <2>9
<1>2. Inv /\ [Next]_vars =>
        (mode = "run" /\ mode' = "prompt" /\ asked.command = "over"
          /\ running = asked.thread /\ OwnAccount(running)
          /\ step_lines' < 1 /\ step_lines > 0
         => Depth(running) <= asked.depth \/ Depth(running) = ground[running])
  BY <1>1
<1> QED
  BY <1>2, InvAlways, PTL DEF Spec, StaysOut

=============================================================================

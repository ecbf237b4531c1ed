-------------------------- MODULE OilClient_proofs --------------------------
(***************************************************************************)
(* Proofs about OilClient, for every set of threads and every bound: the    *)
(* Mutex lets one thread write and one read and loses none that wait; what   *)
(* is pending stays registered; and while no request is written twice to a  *)
(* connection, a reply goes to the request it answers.                      *)
(***************************************************************************)
EXTENDS OilClient, TLAPS, FiniteSetTheorems, SequenceTheorems

-----------------------------------------------------------------------------
(* Queues and bags *)

(* A thread queues up behind the others.                                   *)
LEMMA QueuedUp ==
  ASSUME NEW S, NEW s \in Seq(S), IsInjective(s), NEW e \in S, e \notin ToSet(s)
  PROVE  /\ Append(s, e) \in Seq(S) /\ IsInjective(Append(s, e))
         /\ ToSet(Append(s, e)) = ToSet(s) \cup {e}
<1> DEFINE q == Append(s, e)
<1>1. /\ q \in Seq(S) /\ Len(q) = Len(s) + 1 /\ q[Len(s) + 1] = e
      /\ \A i \in 1..Len(s) : q[i] = s[i]
  BY AppendProperties
<1> HIDE DEF q
<1>2. DOMAIN q = 1..(Len(s) + 1) /\ DOMAIN s = 1..Len(s) /\ Len(s) \in Nat
  BY <1>1
<1>3. \A i \in 1..Len(s) : s[i] # e
  BY <1>2 DEF ToSet
<1>4. IsInjective(q)
  BY <1>1, <1>2, <1>3 DEF IsInjective
<1>5. ToSet(q) \subseteq ToSet(s) \cup {e}
  BY <1>1, <1>2 DEF ToSet
<1>6. ToSet(s) \cup {e} \subseteq ToSet(q)
  BY <1>1, <1>2 DEF ToSet
<1> QED BY <1>1, <1>4, <1>5, <1>6 DEF q

(* The first of a queue leaves it.                                         *)
LEMMA LeftTheQueue ==
  ASSUME NEW S, NEW s \in Seq(S), IsInjective(s), s # << >>
  PROVE  /\ Tail(s) \in Seq(S) /\ IsInjective(Tail(s))
         /\ Head(s) \in ToSet(s) /\ ToSet(Tail(s)) = ToSet(s) \ {Head(s)}
<1> DEFINE q == Tail(s)
<1>1. /\ q \in Seq(S) /\ Len(q) = Len(s) - 1 /\ Head(s) = s[1]
      /\ \A i \in 1..Len(q) : q[i] = s[i + 1]
  BY HeadTailProperties
<1> HIDE DEF q
<1>2. DOMAIN q = 1..(Len(s) - 1) /\ DOMAIN s = 1..Len(s) /\ Len(s) \in Nat /\ Len(s) > 0
  BY <1>1, EmptySeq
<1>3. IsInjective(q)
  BY <1>1, <1>2 DEF IsInjective
<1>4. Head(s) \in ToSet(s)
  BY <1>1, <1>2 DEF ToSet
<1>5. ToSet(q) \subseteq ToSet(s) \ {Head(s)}
  BY <1>1, <1>2 DEF ToSet, IsInjective
<1>6. ASSUME NEW x \in ToSet(s), x # Head(s) PROVE x \in ToSet(q)
  <2>1. PICK i \in 1..Len(s) : x = s[i]
    BY <1>2 DEF ToSet
  <2>2. i - 1 \in 1..(Len(s) - 1) /\ q[i - 1] = x
    BY <2>1, <1>1, <1>2, <1>6
  <2> QED BY <2>2, <1>2 DEF ToSet
<1>7. ToSet(q) = ToSet(s) \ {Head(s)}
  BY <1>5, <1>6
<1> HIDE DEF ToSet, IsInjective
<1> QED BY <1>1, <1>3, <1>4, <1>7 DEF q

(* A queue that keeps nobody is empty.                                     *)
LEMMA EmptyQueue == ASSUME NEW S, NEW s \in Seq(S), ToSet(s) = {} PROVE s = << >>
<1>1. Len(s) \in Nat /\ DOMAIN s = 1..Len(s)
  OBVIOUS
<1>2. Len(s) > 0 => s[1] \in ToSet(s)
  BY <1>1 DEF ToSet
<1>3. s # << >> => Len(s) \in Nat \ {0}
  BY ONLY s \in Seq(S), EmptySeq, Zenon
<1> HIDE DEF ToSet
<1> QED BY <1>1, <1>2, <1>3

(* Messages are put into a bag and taken out of it one by one.             *)
LEMMA BagAdds ==
  ASSUME NEW b, IsABag(b), NEW x
  PROVE  /\ IsABag(b (+) SetToBag({x}))
         /\ DOMAIN (b (+) SetToBag({x})) = DOMAIN b \cup {x}
         /\ \A y \in DOMAIN (b (+) SetToBag({x})) : y # x => (b (+) SetToBag({x}))[y] = b[y]
         /\ x \notin DOMAIN b => (b (+) SetToBag({x}))[x] = 1
BY DEF (+), SetToBag, IsABag

(* One message is taken from the messages on the wire.                     *)
LEMMA BagTakes ==
  ASSUME NEW b, IsABag(b), NEW x \in DOMAIN b
  PROVE  /\ IsABag(b (-) SetToBag({x}))
         /\ DOMAIN (b (-) SetToBag({x})) \subseteq DOMAIN b
         /\ \A y \in DOMAIN (b (-) SetToBag({x})) : y # x => (b (-) SetToBag({x}))[y] = b[y]
         /\ b[x] = 1 => x \notin DOMAIN (b (-) SetToBag({x}))
BY DEF (-), SetToBag, IsABag

(* The wire of a new connection.                                           *)
LEMMA EmptyBagFacts == IsABag(EmptyBag) /\ DOMAIN EmptyBag = {}
BY DEF EmptyBag, SetToBag, IsABag

-----------------------------------------------------------------------------
(* The inductive invariant *)

Places == {"out", "newrequest", "send", "sendwait", "freesend", "receive", "recvwait",
           "reissue", "fail", "freereceive", "handler"}

ThreadState == [pc : Places, task : {"none", "new", "reissue"}, msg : Nat, hand : Nat,
                probe : BOOLEAN, reset : BOOLEAN, ok : BOOLEAN, todo : SUBSET Int,
                socket : Nat]

Request == [owner : Thread, held : BOOLEAN, id : Int,
            success : {"nil", "oneway", "true", "forward", "false"}, reply : Nat,
            forwarded : BOOLEAN]

LockTypes ==
    /\ turn \in Thread \cup {Nobody} /\ receiving \in Thread \cup {Nobody}
    /\ th \in [Thread -> ThreadState]
    /\ sending \in BOOLEAN /\ senders \in Seq(Thread)

ConnType ==
    /\ conn = [socket |-> conn.socket, state |-> conn.state, sent |-> conn.sent,
               wire |-> conn.wire, posted |-> conn.posted]
    /\ conn.socket \in Nat

DataTypes == request \in Seq(Request) /\ DOMAIN channel \subseteq 1..MaxRequests /\ ConnType

TypeInv == LockTypes /\ DataTypes

\* Where a thread is sending, and where it waits for a reply.
Sends == {"newrequest", "send", "sendwait", "freesend"}
Reads == {"recvwait", "receive", "reissue", "fail", "freereceive", "handler"}

\* What a thread has in hand where it is.
Fine(t, me) ==
    /\ me.task # "none" <=> me.pc \in Sends
    /\ me.pc = "newrequest" => me.task = "new"
    /\ me.pc \in {"send", "freesend"} \/ me.task = "reissue" => me.msg \in DOMAIN request
    /\ me.pc \in Reads \/ me.task = "reissue"
           => me.hand \in DOMAIN request /\ request[me.hand].owner = t
    /\ me.socket # 0 => me.pc = "send" \/ (me.pc = "receive" /\ ~me.probe)

ThreadInv == \A t \in Thread : Fine(t, th[t])

Waiting == {t \in Thread : th[t].pc = "sendwait" /\ turn # t}

\* The locks agree with what the threads do.
SendersInv == IF sending THEN \E t \in Thread : Senders = {t}
              ELSE Senders = {} /\ senders = << >>

ReadersInv == Readers = {receiving} \ {Nobody}

QueueInv == IsInjective(senders) /\ ToSet(senders) = Waiting

ReceiversInv ==
    /\ \A t \in Thread : th[t].pc = "recvwait" =>
          /\ th[t].hand \in DOMAIN receivers /\ receivers[th[t].hand] = t
          /\ receiving # Nobody
    /\ \A r \in DOMAIN receivers :
          /\ receivers[r] \in Thread /\ th[receivers[r]].pc = "recvwait"
          /\ th[receivers[r]].hand = r

MutexInv == SendersInv /\ ReadersInv /\ QueueInv /\ ReceiversInv

Registered(r) == request[r].id \in DOMAIN channel /\ channel[request[r].id] = r

\* What is registered is not answered, and what is pending is registered.
ChannelInv ==
    /\ \A id \in DOMAIN channel :
          /\ channel[id] \in DOMAIN request /\ request[channel[id]].id = id
          /\ request[channel[id]].success \in {"nil", "false"}
    /\ PendingIsRegistered

Error == [id |-> 0, r |-> 0, status |-> "error"]

\* What is on the connection was written to it.
WireInv ==
    /\ IsABag(conn.sent) /\ IsABag(conn.wire)
    /\ conn.posted \subseteq DOMAIN request /\ DOMAIN conn.sent \subseteq conn.posted
    /\ \A m \in DOMAIN conn.wire :
          \/ m = Error
          \/ /\ m.r \in conn.posted /\ m.id = request[m.r].id
             /\ m.status \in {"true", "forward"}

\* A traversal of the table meets what is registered; what is written for the
\* first time was not written before, what is written again is registered.
Tasked(t) ==
    /\ Traversing(t) => th[t].todo \subseteq DOMAIN channel
    /\ th[t].pc = "send" /\ th[t].task = "new" => th[t].msg \notin conn.posted
    /\ th[t].task = "reissue" /\ th[t].pc \in {"send", "sendwait"}
           => Registered(th[t].msg)
    /\ th[t].pc \in Reads \/ th[t].task = "reissue"
           => request[th[t].hand].success # "oneway"
    /\ ~doubled /\ th[t].pc = "send"
           => request[th[t].msg].success = "oneway" \/ Registered(th[t].msg)

TaskInv == \A t \in Thread : Tasked(t)

\* A request that is not answered is registered and is on the connection once,
\* on its way there or back.
ReplyInv ==
    ~doubled =>
        /\ OwnReply
        /\ \A r \in DOMAIN conn.sent :
              conn.sent[r] = 1 /\ Registered(r) /\ \A m \in DOMAIN conn.wire : m.r # r
        /\ \A m \in DOMAIN conn.wire :
              m.r # 0 => /\ conn.wire[m] = 1 /\ Registered(m.r)
                         /\ \A n \in DOMAIN conn.wire : n.r = m.r => n = m

IInv == TypeInv /\ ThreadInv /\ MutexInv /\ ChannelInv /\ WireInv /\ TaskInv /\ ReplyInv

-----------------------------------------------------------------------------
(* The threads *)

(* Every thread starts outside, with an idle connection.                   *)
LEMMA InitInv == Init => IInv
<1> SUFFICES ASSUME Init PROVE IInv
  OBVIOUS
<1> USE OilClientAssumption DEF Init, Idle
<1>1. TypeInv
  <2>1. Idle \in ThreadState
    BY DEF ThreadState, Places
  <2>2. conn.socket = 1 /\ conn = [socket |-> conn.socket, state |-> conn.state,
              sent |-> conn.sent, wire |-> conn.wire, posted |-> conn.posted]
    BY DEF Connected
  <2> HIDE DEF Idle
  <2>3. DOMAIN channel \subseteq 1..MaxRequests /\ senders \in Seq(Thread)
        /\ request \in Seq(Request)
    OBVIOUS
  <2>4. th = [t \in Thread |-> Idle] /\ turn = Nobody /\ receiving = Nobody
        /\ sending = FALSE /\ conn.socket \in Nat
    BY <2>2
  <2>5. th \in [Thread -> ThreadState]
    BY <2>1, <2>4
  <2> QED BY ONLY <2>2, <2>3, <2>4, <2>5 DEF TypeInv, LockTypes, DataTypes, ConnType
<1>2. ThreadInv
  BY DEF ThreadInv, Fine, Sends, Reads
<1>3. MutexInv
  BY DEF MutexInv, SendersInv, ReadersInv, QueueInv, ReceiversInv, Senders, Readers, Waiting,
         At, IsInjective, ToSet
<1>4. ChannelInv
  BY DEF ChannelInv, PendingIsRegistered
<1>5. WireInv
  BY EmptyBagFacts DEF WireInv, Connected
<1>6. TaskInv
  BY DEF TaskInv, Tasked, Traversing, Reads
<1>7. ReplyInv
  BY EmptyBagFacts DEF ReplyInv, OwnReply, Connected
<1> QED BY <1>1, <1>2, <1>3, <1>4, <1>5, <1>6, <1>7 DEF IInv

(* What the operations of the mutex leave behind has its type.              *)
LEMMA MutexTypes ==
  ASSUME LockTypes, NEW t \in Thread, NEW next \in ThreadState
  PROVE  /\ locksend(t, next) /\ UNCHANGED receiving => LockTypes'
         /\ /\ freesend(t, next) /\ th' = [th EXCEPT ![t] = next] /\ UNCHANGED receiving
            => LockTypes'
         /\ lockreceive(t, next) /\ UNCHANGED <<sending, senders>> => LockTypes'
<1> USE DEF LockTypes
<1>1. [next EXCEPT !.pc = "sendwait"] \in ThreadState /\ Locked(next) \in ThreadState
  BY DEF ThreadState, Places, Locked
<1>2. /\ [next EXCEPT !.pc = "receive"] \in ThreadState
      /\ [next EXCEPT !.pc = "recvwait"] \in ThreadState
  BY DEF ThreadState, Places
<1>3. /\ Append(senders, t) \in Seq(Thread)
      /\ senders # << >> => Tail(senders) \in Seq(Thread) /\ Head(senders) \in Thread
  OBVIOUS
<1>4. ASSUME locksend(t, next), UNCHANGED receiving PROVE LockTypes'
  BY <1>1, <1>3, <1>4 DEF locksend
<1>5. ASSUME freesend(t, next), th' = [th EXCEPT ![t] = next], UNCHANGED receiving
      PROVE  LockTypes'
  BY <1>3, <1>5 DEF freesend, TurnFor
<1>6. ASSUME lockreceive(t, next), UNCHANGED <<sending, senders>> PROVE LockTypes'
  BY <1>2, <1>6 DEF lockreceive
<1> QED BY <1>4, <1>5, <1>6

(* A thread comes to a state, and the lock is left as it is.                *)
LEMMA MoveTypes ==
  ASSUME LockTypes, NEW t \in Thread, NEW next \in ThreadState,
         th' = [th EXCEPT ![t] = next], turn' \in Thread \cup {Nobody},
         receiving' \in Thread \cup {Nobody}, UNCHANGED <<sending, senders>>
  PROVE  LockTypes'
BY DEF LockTypes

(* An element of a sequence is replaced by another.                         *)
LEMMA ReplacedInSeq ==
  ASSUME NEW S, NEW s \in Seq(S), NEW i \in DOMAIN s, NEW e \in S
  PROVE  [s EXCEPT ![i] = e] \in Seq(S)
BY ExceptSeq

(* No step breaks a type.                                                   *)
LEMMA TypeKept == ASSUME IInv, Next PROVE TypeInv'
<1>0. LockTypes /\ DataTypes /\ ThreadInv /\ ChannelInv /\ WireInv /\ TaskInv /\ MutexInv
  BY DEF IInv, TypeInv
<1> USE DEF TypeInv, lock, history, ConnType
<1>t. ASSUME NEW t \in Thread PROVE Idle \in ThreadState /\ th[t] \in ThreadState
  BY <1>0 DEF LockTypes, ThreadState, Idle, Places
<1>s. DOMAIN channel \in SUBSET Int
  BY <1>0 DEF DataTypes
<1>c. /\ \A c : conn' = [conn EXCEPT !.state = "closed", !.wire = c, !.sent = c]
             => ConnType'
      /\ conn' = Connected(conn.socket + 1) => ConnType'
  <2>1. ASSUME NEW c, conn' = [conn EXCEPT !.state = "closed", !.wire = c, !.sent = c]
        PROVE  ConnType'
    BY <2>1, <1>0 DEF DataTypes
  <2>2. ASSUME conn' = Connected(conn.socket + 1)
        PROVE  ConnType'
    BY <2>2, <1>0 DEF DataTypes, Connected
  <2> QED BY <2>1, <2>2
<1>d. UNCHANGED <<request, channel, conn>> => DataTypes'
  BY <1>0 DEF DataTypes
<1>o. ASSUME NEW t \in Thread PROVE Outcome(t) \in ThreadState
  <2>1. [Idle EXCEPT !.pc = "handler", !.hand = th[t].hand, !.probe = th[t].probe]
           \in ThreadState
    BY <1>t DEF ThreadState, Places, Idle
  <2> QED BY <2>1, <1>t DEF Outcome
<1>1. ASSUME NEW t \in Thread, invoke(t) PROVE TypeInv'
  <2>1. [Idle EXCEPT !.task = "new"] \in ThreadState
    BY DEF Idle, ThreadState, Places
  <2> QED BY <1>0, <1>1, <1>d, <2>1, MutexTypes DEF invoke
<1>2. ASSUME NEW t \in Thread, SendNotified(t) PROVE TypeInv'
  <2>1. Locked(th[t]) \in ThreadState
    BY <1>t DEF ThreadState, Places, Locked
  <2>2. turn' \in Thread \cup {Nobody} /\ receiving' \in Thread \cup {Nobody}
    BY <1>0, <1>2 DEF SendNotified, LockTypes
  <2> QED BY <1>0, <1>2, <1>d, <2>1, <2>2, MoveTypes DEF SendNotified
<1>3. ASSUME NEW t \in Thread, newrequest(t) PROVE TypeInv'
  <2> DEFINE r == Len(request) + 1
             sends == [th[t] EXCEPT !.pc = "send", !.msg = r]
  <2>0. request \in Seq(Request) /\ Len(request) \in Nat
    BY <1>0 DEF DataTypes
  <2>1. sends \in ThreadState
    <3>1. r \in Nat
      BY <2>0
    <3> HIDE DEF r
    <3> QED BY <1>t, <3>1 DEF ThreadState, Places
  <2>2. \A u \in Thread : \A visits \in SUBSET DOMAIN channel' :
           DOMAIN channel' \subseteq Int => [th[u] EXCEPT !.todo = visits] \in ThreadState
    BY <1>t DEF ThreadState, Places
  <2>3. DOMAIN channel' \subseteq 1..MaxRequests
    <3>1. UNCHANGED channel \/ \E id \in 1..MaxRequests : channel' = With(channel, id, r)
      BY <1>3 DEF newrequest, register
    <3> QED BY <3>1, <1>0 DEF With, DataTypes
  <2>4. th' \in [Thread -> ThreadState]
    <3>1. CASE th' = [th EXCEPT ![t] = sends]
      BY <3>1, <1>0, <2>1 DEF LockTypes
    <3>2. CASE \E visits \in SUBSET DOMAIN channel' :
                  th' = [u \in Thread |->
                            IF u = t THEN sends
                            ELSE IF Traversing(u) THEN [th[u] EXCEPT !.todo = visits]
                            ELSE th[u]]
      <4>1. DOMAIN channel' \subseteq Int
        BY <2>3
      <4> HIDE DEF sends
      <4> QED BY <3>2, <4>1, <1>t, <2>1, <2>2
    <3> QED BY <3>1, <3>2, <1>3 DEF newrequest
  <2>5. request' \in Seq(Request)
    <3> DEFINE new == [owner |-> t, held |-> TRUE, id |-> 0, success |-> "nil", reply |-> 0,
                       forwarded |-> FALSE]
    <3>0. new \in Request
      BY DEF Request
    <3>1. [new EXCEPT !.success = "oneway"] \in Request
      BY <3>0 DEF Request
    <3>i. ASSUME NEW id \in 1..MaxRequests PROVE [new EXCEPT !.id = id] \in Request
      <4>1. id \in Int
        OBVIOUS
      <4> HIDE DEF new
      <4> QED BY <3>0, <4>1 DEF Request
    <3>2. \A x \in Request : Append(request, x) \in Seq(Request)
      BY <2>0
    <3>3. \/ request' = Append(request, [new EXCEPT !.success = "oneway"])
          \/ \E id \in 1..MaxRequests : request' = Append(request, [new EXCEPT !.id = id])
      BY <1>3 DEF newrequest
    <3> HIDE DEF new
    <3> QED BY <3>1, <3>i, <3>2, <3>3
  <2>6. LockTypes'
    BY <1>0, <1>3, <2>4 DEF newrequest, LockTypes
  <2> QED BY <1>0, <1>3, <2>3, <2>5, <2>6 DEF newrequest, DataTypes
<1>4. ASSUME NEW t \in Thread, SendDone(t) PROVE TypeInv'
  <2>1. [th[t] EXCEPT !.pc = "freesend", !.ok = TRUE, !.socket = 0] \in ThreadState
    BY <1>t DEF ThreadState, Places
  <2>2. LockTypes'
    BY <1>0, <1>4, <2>1 DEF SendDone, LockTypes
  <2> QED BY <1>0, <1>4, <2>2 DEF SendDone, DataTypes
<1>5. ASSUME NEW t \in Thread, SendBlocks(t) PROVE TypeInv'
  <2>1. [th[t] EXCEPT !.socket = conn.socket] \in ThreadState
    BY <1>t, <1>0 DEF ThreadState, DataTypes
  <2> QED BY <1>0, <1>5, <1>d, <2>1 DEF SendBlocks, LockTypes
<1>6. ASSUME NEW t \in Thread, SendClosed(t) PROVE TypeInv'
  <2>1. /\ [th[t] EXCEPT !.reset = TRUE, !.socket = 0] \in ThreadState
        /\ [th[t] EXCEPT !.pc = "freesend", !.ok = FALSE, !.socket = 0] \in ThreadState
    BY <1>t DEF ThreadState, Places
  <2>2. LockTypes'
    BY <1>0, <1>6, <2>1 DEF SendClosed, LockTypes
  <2>3. \/ conn' = Connected(conn.socket + 1)
        \/ conn' = [conn EXCEPT !.state = "closed", !.wire = EmptyBag, !.sent = EmptyBag]
    BY <1>6 DEF SendClosed
  <2> QED BY <1>0, <1>6, <1>c, <2>2, <2>3 DEF SendClosed, DataTypes
<1>7. ASSUME NEW t \in Thread, Sent(t) PROVE TypeInv'
  <2>1. PICK next \in {Idle,
                 [Idle EXCEPT !.hand = th[t].hand, !.probe = th[t].probe,
                      !.pc = IF th[t].ok THEN "reissue" ELSE "fail",
                      !.todo = IF th[t].ok THEN th[t].todo ELSE DOMAIN channel]} :
           th' = [th EXCEPT ![t] = next] /\ freesend(t, next)
    BY <1>7 DEF Sent
  <2>2. next \in ThreadState
    <3>1. \A s \in SUBSET Int, pc \in Places :
             [Idle EXCEPT !.hand = th[t].hand, !.probe = th[t].probe, !.pc = pc, !.todo = s]
                \in ThreadState
      BY <1>t DEF ThreadState, Idle
    <3>2. th[t].todo \in SUBSET Int
      BY <1>t DEF ThreadState
    <3>3. [Idle EXCEPT !.hand = th[t].hand, !.probe = th[t].probe,
                      !.pc = IF th[t].ok THEN "reissue" ELSE "fail",
                      !.todo = IF th[t].ok THEN th[t].todo ELSE DOMAIN channel]
             \in ThreadState
      BY <3>1, <3>2, <1>s DEF Places
    <3> QED BY <3>3, <1>t, <2>1
  <2>3. LockTypes'
    BY <1>0, <1>7, <2>1, <2>2, MutexTypes DEF Sent
  <2>4. request' \in Seq(Request)
    <3>1. th[t].msg \in DOMAIN request
      BY <1>0, <1>7 DEF Sent, ThreadInv, Fine, At
    <3>2. request[th[t].msg] \in Request
      BY <3>1, <1>0 DEF DataTypes
    <3>3. [request[th[t].msg] EXCEPT !.held = FALSE] \in Request
      BY <3>2 DEF Request
    <3> QED BY <3>1, <3>3, <1>0, <1>7, ReplacedInSeq DEF Sent, DataTypes
  <2> QED BY <1>0, <1>7, <2>3, <2>4 DEF Sent, DataTypes
<1>8. ASSUME NEW t \in Thread, receivefrom(t) PROVE TypeInv'
  <2>1. PICK r \in DOMAIN request, probe \in {FALSE, (t \in Pollers)} :
           LET next == [Idle EXCEPT !.hand = r, !.probe = probe]
           IN  \/ lockreceive(t, next)
               \/ /\ th' = [th EXCEPT ![t] = [next EXCEPT !.pc = "handler"]]
                  /\ turn' = t /\ UNCHANGED <<receiving, receivers>>
    BY <1>8, Zenon DEF receivefrom
  <2>2. r \in Nat
    BY <1>0 DEF DataTypes
  <2>p. probe \in BOOLEAN
    <3>1. (t \in Pollers) \in BOOLEAN
      OBVIOUS
    <3> QED BY <3>1, Zenon
  <2> DEFINE next == [Idle EXCEPT !.hand = r, !.probe = probe]
  <2>3. next \in ThreadState /\ [next EXCEPT !.pc = "handler"] \in ThreadState
    BY <2>2, <2>p DEF ThreadState, Places, Idle
  <2> HIDE DEF next
  <2>4. UNCHANGED <<sending, senders, request, channel, conn>>
    BY <1>8 DEF receivefrom
  <2>5. CASE lockreceive(t, next)
    BY <1>0, <1>d, <2>3, <2>4, <2>5, MutexTypes
  <2>6. CASE /\ th' = [th EXCEPT ![t] = [next EXCEPT !.pc = "handler"]]
             /\ turn' = t /\ UNCHANGED <<receiving, receivers>>
    BY <1>0, <1>d, <2>3, <2>4, <2>6 DEF LockTypes
  <2> QED BY <2>1, <2>5, <2>6 DEF next
<1>9. ASSUME NEW t \in Thread, ReceiveNotified(t) PROVE TypeInv'
  <2>1. PICK next \in {[th[t] EXCEPT !.pc = "receive"], Outcome(t)} :
           th' = [th EXCEPT ![t] = next] /\ turn' = TurnFor(t, next)
    BY <1>9 DEF ReceiveNotified
  <2>2. next \in ThreadState
    BY <1>t, <2>1, <1>o DEF ThreadState, Places
  <2>3. turn' \in Thread \cup {Nobody} /\ receiving' \in Thread \cup {Nobody}
    BY <1>0, <1>9, <2>1 DEF ReceiveNotified, LockTypes, TurnFor
  <2> QED BY <1>0, <1>9, <1>d, <2>1, <2>2, <2>3, MoveTypes DEF ReceiveNotified
<1>10. ASSUME NEW t \in Thread, ReceiveBlocks(t) PROVE TypeInv'
  <2>1. /\ [th[t] EXCEPT !.socket = conn.socket] \in ThreadState
        /\ [th[t] EXCEPT !.pc = "freereceive"] \in ThreadState
    BY <1>t, <1>0 DEF ThreadState, Places, DataTypes
  <2> QED BY <1>0, <1>10, <1>d, <2>1 DEF ReceiveBlocks, Goes, LockTypes
<1>11. ASSUME NEW t \in Thread, ReceiveReply(t) PROVE TypeInv'
  <2>1. PICK m \in BagToSet(conn.wire) :
           /\ m.id \in DOMAIN channel /\ unregister(m.id)
           /\ request' = [request EXCEPT ![channel[m.id]].success = m.status,
                                         ![channel[m.id]].reply = m.r]
           /\ notifyreceived(t, channel[m.id])
           /\ conn' = [conn EXCEPT !.wire = @ (-) SetToBag({m})]
           /\ th' = [th EXCEPT ![t].socket = 0,
                       ![t].pc = IF channel[m.id] = th[t].hand THEN "freereceive"
                                 ELSE "receive"]
    BY <1>11 DEF ReceiveReply
  <2>2. m.r \in Nat /\ m.status \in {"true", "forward"}
    <3>1. m.id # 0
      BY <2>1, <1>0 DEF DataTypes
    <3> QED BY <3>1, <1>0 DEF WireInv, Error, DataTypes, BagToSet
  <2>3. \A pc \in Places : [th[t] EXCEPT !.socket = 0, !.pc = pc] \in ThreadState
    BY <1>t DEF ThreadState
  <2>4. LockTypes'
    BY <1>0, <1>11, <2>1, <2>3 DEF ReceiveReply, LockTypes, notifyreceived, MutexInv, ReceiversInv,
                                       Places
  <2>5. request' \in Seq(Request)
    <3>1. channel[m.id] \in DOMAIN request
      BY <2>1, <1>0 DEF ChannelInv
    <3>2. request[channel[m.id]] \in Request
      BY <3>1, <1>0 DEF DataTypes
    <3>3. [request[channel[m.id]] EXCEPT !.success = m.status, !.reply = m.r] \in Request
      BY <3>2, <2>2 DEF Request
    <3> QED BY <3>1, <3>3, <2>1, <1>0, ReplacedInSeq DEF DataTypes
  <2> QED BY <1>0, <2>1, <2>4, <2>5 DEF DataTypes, unregister, Without
<1>12. ASSUME NEW t \in Thread, ReceiveWrong(t) PROVE TypeInv'
  <2>1. [th[t] EXCEPT !.pc = "fail", !.todo = DOMAIN channel, !.socket = 0]
           \in ThreadState
    BY <1>t, <1>s DEF ThreadState, Places
  <2> QED BY <1>0, <1>12, <2>1 DEF ReceiveWrong, LockTypes, DataTypes
<1>13. ASSUME NEW t \in Thread, ReceiveClosed(t) PROVE TypeInv'
  <2>1. \A pc \in Places :
           [th[t] EXCEPT !.pc = pc, !.todo = DOMAIN channel, !.socket = 0] \in ThreadState
    BY <1>t, <1>s DEF ThreadState
  <2>2. LockTypes'
    BY <1>0, <1>13, <2>1 DEF ReceiveClosed, LockTypes, Places
  <2>3. \/ conn' = Connected(conn.socket + 1)
        \/ conn' = [conn EXCEPT !.state = "closed", !.wire = EmptyBag, !.sent = EmptyBag]
    BY <1>13 DEF ReceiveClosed
  <2> QED BY <1>0, <1>13, <1>c, <2>2, <2>3 DEF ReceiveClosed, DataTypes
<1>14. ASSUME NEW t \in Thread, reissue(t) PROVE TypeInv'
  <2>1. UNCHANGED <<receiving, receivers, request, channel, conn>>
    BY <1>14 DEF reissue
  <2>2. CASE /\ th[t].todo = {} /\ Goes(t, "receive")
             /\ UNCHANGED <<turn, sending, senders>>
    <3>1. [th[t] EXCEPT !.pc = "receive"] \in ThreadState
      BY <1>t DEF ThreadState, Places
    <3> QED BY <1>0, <1>d, <2>1, <2>2, <3>1 DEF Goes, LockTypes
  <2>3. ASSUME NEW id \in th[t].todo,
               locksend(t, [th[t] EXCEPT !.task = "reissue", !.msg = channel[id],
                                         !.todo = @ \ {id}])
        PROVE  TypeInv'
    <3>1. id \in DOMAIN channel
      BY <1>0, <1>14 DEF reissue, At, TaskInv, Tasked, Traversing
    <3>2. channel[id] \in Nat
      BY <3>1, <1>0 DEF ChannelInv, DataTypes
    <3>3. [th[t] EXCEPT !.task = "reissue", !.msg = channel[id], !.todo = @ \ {id}]
             \in ThreadState
      BY <3>2, <1>t DEF ThreadState
    <3> QED BY <1>0, <1>d, <2>1, <2>3, <3>3, MutexTypes
  <2> QED BY <2>2, <2>3, <1>14 DEF reissue
<1>15. ASSUME NEW t \in Thread, Fail(t) PROVE TypeInv'
  <2>1. CASE th[t].todo = {} /\ Goes(t, "freereceive") /\ UNCHANGED <<turn, request>>
    <3>1. [th[t] EXCEPT !.pc = "freereceive"] \in ThreadState
      BY <1>t DEF ThreadState, Places
    <3> QED BY <1>0, <1>d, <1>15, <2>1, <3>1 DEF Fail, Goes, LockTypes
  <2>2. ASSUME NEW id \in th[t].todo,
               request' = [request EXCEPT ![channel[id]].success = "false"],
               notifyreceived(t, channel[id]),
               th' = [th EXCEPT ![t].todo = @ \ {id}]
        PROVE  TypeInv'
    <3>1. id \in DOMAIN channel
      BY <1>0, <1>15 DEF Fail, At, TaskInv, Tasked, Traversing
    <3>2. channel[id] \in DOMAIN request
      BY <3>1, <1>0 DEF ChannelInv
    <3>3. request[channel[id]] \in Request
      BY <3>2, <1>0 DEF DataTypes
    <3>4. [request[channel[id]] EXCEPT !.success = "false"] \in Request
      BY <3>3 DEF Request
    <3>5. request' \in Seq(Request)
      BY <3>2, <3>4, <2>2, <1>0, ReplacedInSeq DEF DataTypes
    <3>6. [th[t] EXCEPT !.todo = @ \ {id}] \in ThreadState
      BY <1>t DEF ThreadState
    <3>7. turn' \in Thread \cup {Nobody}
      BY <2>2, <1>0 DEF notifyreceived, MutexInv, ReceiversInv
    <3>8. LockTypes'
      BY <1>0, <1>15, <2>2, <3>6, <3>7 DEF Fail, LockTypes
    <3> QED BY <1>0, <1>15, <3>5, <3>8 DEF Fail, DataTypes
  <2> QED BY <2>1, <2>2, <1>15 DEF Fail
<1>16. ASSUME NEW t \in Thread, Received(t) PROVE TypeInv'
  <2>1. UNCHANGED <<sending, senders, receivers, request, channel, conn>>
        /\ th' = [th EXCEPT ![t] = Outcome(t)]
    BY <1>16 DEF Received
  <2>2. turn' \in Thread \cup {Nobody} /\ receiving' \in Thread \cup {Nobody}
    BY <1>16, <1>0 DEF Received, freereceive, TurnFor, MutexInv, ReceiversInv, LockTypes
  <2> QED BY <1>0, <1>d, <1>o, <2>1, <2>2, MoveTypes
<1>17. ASSUME NEW t \in Thread, forward(t) PROVE TypeInv'
  <2> DEFINE r == th[t].hand
  <2>1. r \in DOMAIN request
    BY <1>0, <1>17 DEF forward, At, ThreadInv, Fine, Reads
  <2>2. request[r] \in Request
    BY <2>1, <1>0 DEF DataTypes
  <2>3. /\ [request[r] EXCEPT !.success = "nil", !.forwarded = TRUE] \in Request
        /\ [request[r] EXCEPT !.success = "false"] \in Request
    BY <2>2 DEF Request
  <2>4. /\ [request EXCEPT ![r].success = "nil", ![r].forwarded = TRUE] \in Seq(Request)
        /\ [request EXCEPT ![r].success = "false"] \in Seq(Request)
    BY <2>1, <2>3, <1>0, ReplacedInSeq DEF DataTypes
  <2>5. request' \in Seq(Request)
    BY <2>4, <1>17 DEF forward
  <2>6. \/ lockreceive(t, th[t]) /\ UNCHANGED <<sending, senders>>
        \/ /\ th' = [th EXCEPT ![t] = Idle] /\ turn' = Nobody
           /\ UNCHANGED <<receiving, sending, senders>>
    BY <1>17 DEF forward
  <2>7. LockTypes'
    BY <1>0, <1>t, <2>6, MutexTypes, MoveTypes DEF LockTypes
  <2> QED BY <1>0, <1>17, <2>5, <2>7 DEF forward, DataTypes
<1>18. ASSUME NEW t \in Thread, Execute(t) \/ ExecuteDead(t) PROVE TypeInv'
  BY <1>0, <1>18, <1>d DEF Execute, ExecuteDead, LockTypes
<1>19. ASSUME Answer \/ PeerFails PROVE TypeInv'
  BY <1>0, <1>19 DEF Answer, PeerFails, LockTypes, DataTypes
<1> QED BY <1>1, <1>2, <1>3, <1>4, <1>5, <1>6, <1>7, <1>8, <1>9, <1>10, <1>11, <1>12,
       <1>13, <1>14, <1>15, <1>16, <1>17, <1>18, <1>19 DEF Next, Step

Fields == {"pc", "task", "msg", "hand", "probe", "reset", "ok", "todo", "socket"}

\* The states differ in the place and the traversal only, or in the place only.
SameTask(me, next) ==
    /\ me.task = next.task /\ me.msg = next.msg /\ me.hand = next.hand
    /\ me.probe = next.probe /\ me.socket = next.socket

SameBut(me, next) == SameTask(me, next) /\ me.todo = next.todo

(* What a lock does with a thread: it passes or waits.                      *)
LEMMA LockStates ==
  ASSUME NEW t \in DOMAIN th, NEW next, DOMAIN next = Fields
  PROVE  /\ locksend(t, next) =>
               /\ \A u \in DOMAIN th : u # t => th'[u] = th[u]
               /\ SameBut(th'[t], next)
               /\ \/ sending /\ th'[t].pc = "sendwait"
                  \/ ~sending /\ th'[t].pc = Locked(next).pc
         /\ lockreceive(t, next) =>
               /\ \A u \in DOMAIN th : u # t => th'[u] = th[u]
               /\ SameBut(th'[t], next)
               /\ th'[t].pc = IF receiving = Nobody THEN "receive" ELSE "recvwait"
         /\ SameBut(Locked(next), next)
         /\ Locked(next).pc = IF next.task = "new" THEN "newrequest" ELSE "send"
<1>1. SameBut(Locked(next), next)
      /\ Locked(next).pc = IF next.task = "new" THEN "newrequest" ELSE "send"
  BY DEF Fields, Locked, SameBut, SameTask
<1>2. ASSUME NEW pc PROVE [next EXCEPT !.pc = pc].pc = pc /\ SameBut([next EXCEPT !.pc = pc], next)
  BY DEF Fields, SameBut, SameTask
<1>3. ASSUME NEW x, th' = [th EXCEPT ![t] = x]
      PROVE  th'[t] = x /\ \A u \in DOMAIN th : u # t => th'[u] = th[u]
  BY <1>3
<1>4. locksend(t, next) =>
               /\ \A u \in DOMAIN th : u # t => th'[u] = th[u]
               /\ SameBut(th'[t], next)
               /\ \/ sending /\ th'[t].pc = "sendwait"
                  \/ ~sending /\ th'[t].pc = Locked(next).pc
  <2>1. ASSUME sending, th' = [th EXCEPT ![t] = [next EXCEPT !.pc = "sendwait"]]
        PROVE  /\ \A u \in DOMAIN th : u # t => th'[u] = th[u]
               /\ SameBut(th'[t], next) /\ th'[t].pc = "sendwait"
    BY <2>1, <1>2, <1>3
  <2>2. ASSUME ~sending, th' = [th EXCEPT ![t] = Locked(next)]
        PROVE  /\ \A u \in DOMAIN th : u # t => th'[u] = th[u]
               /\ SameBut(th'[t], next) /\ th'[t].pc = Locked(next).pc
    BY <2>2, <1>1, <1>3
  <2> QED BY <2>1, <2>2 DEF locksend
<1>5. lockreceive(t, next) =>
               /\ \A u \in DOMAIN th : u # t => th'[u] = th[u]
               /\ SameBut(th'[t], next)
               /\ th'[t].pc = IF receiving = Nobody THEN "receive" ELSE "recvwait"
  BY <1>2, <1>3 DEF lockreceive
<1> QED BY <1>1, <1>4, <1>5

(* No step leaves a thread with something else in hand.                     *)
LEMMA ThreadKept == ASSUME IInv, Next PROVE ThreadInv'
<1>0. LockTypes /\ DataTypes /\ ThreadInv /\ ChannelInv /\ TaskInv
  BY DEF IInv, TypeInv
<1> USE DEF lock, history, Fields
<1>a. DOMAIN request = 1..Len(request) /\ Len(request) \in Nat
  BY <1>0 DEF DataTypes
<1>h. /\ DOMAIN th = Thread
      /\ \A t \in Thread : /\ DOMAIN th[t] = Fields /\ Fine(t, th[t])
  BY <1>0 DEF LockTypes, ThreadState, ThreadInv, Fields
<1>i. DOMAIN Idle = Fields
  BY DEF Idle, Fields
<1>r. \A r \in DOMAIN request :
         DOMAIN request[r] = {"owner", "held", "id", "success", "reply", "forwarded"}
  <2>1. \A r \in DOMAIN request : request[r] \in Request
    BY <1>0 DEF DataTypes
  <2>2. \A x \in Request :
           DOMAIN x = {"owner", "held", "id", "success", "reply", "forwarded"}
    BY DEF Request
  <2> QED BY <2>1, <2>2
<1>s. ASSUME UNCHANGED request, NEW t \in Thread, Fine(t, th[t])',
             \A u \in Thread : u # t => th'[u] = th[u]
      PROVE  ThreadInv'
  BY <1>s, <1>0 DEF ThreadInv, Fine
<1>q. ASSUME DOMAIN request' = DOMAIN request,
             \A r \in DOMAIN request : request'[r].owner = request[r].owner,
             NEW t \in Thread, Fine(t, th[t])',
             \A u \in Thread : u # t => th'[u] = th[u]
      PROVE  ThreadInv'
  BY <1>q, <1>0 DEF ThreadInv, Fine
<1>1. ASSUME NEW t \in Thread, invoke(t) PROVE ThreadInv'
  <2>1. UNCHANGED request
    BY <1>1 DEF invoke
  <2>2. \A u \in Thread : u # t => th'[u] = th[u]
    BY <1>1, <1>h DEF invoke, locksend
  <2>3. Fine(t, th[t])'
    <3> DEFINE next == [Idle EXCEPT !.task = "new"]
    <3>1. /\ DOMAIN next = Fields /\ next.task = "new"
          /\ next.hand = 0 /\ next.socket = 0
      BY DEF Idle, Fields
    <3>2. locksend(t, next)
      BY <1>1 DEF invoke
    <3> HIDE DEF next
    <3>3. SameBut(th'[t], next) /\ th'[t].pc \in {"sendwait", "newrequest"}
      BY <3>1, <3>2, <1>h, LockStates
    <3> QED BY <3>1, <3>3 DEF SameBut, SameTask, Fine, Sends, Reads
  <2> QED BY <2>1, <2>2, <2>3, <1>s
<1>2. ASSUME NEW t \in Thread, SendNotified(t) PROVE ThreadInv'
  <2>1. UNCHANGED request
    BY <1>2 DEF SendNotified
  <2>2. \A u \in Thread : u # t => th'[u] = th[u]
    BY <1>2, <1>h DEF SendNotified
  <2>3. Fine(t, th[t])'
    <3>1. th'[t] = Locked(th[t]) /\ th[t].pc = "sendwait" /\ DOMAIN th[t] = Fields
      BY <1>2, <1>h DEF SendNotified, At
    <3>2. SameBut(th'[t], th[t])
          /\ th'[t].pc = IF th[t].task = "new" THEN "newrequest" ELSE "send"
      BY <3>1, <1>h, LockStates
    <3>3. th[t].task \in {"new", "reissue"}
      BY <3>1, <1>0, <1>h DEF Fine, Sends, LockTypes, ThreadState
    <3> QED BY <3>1, <3>2, <3>3, <1>h, <2>1 DEF SameBut, SameTask, Fine, Sends, Reads
  <2> QED BY <2>1, <2>2, <2>3, <1>s
<1>3. ASSUME NEW t \in Thread, newrequest(t) PROVE ThreadInv'
  <2> DEFINE r == Len(request) + 1
  <2>1. /\ DOMAIN request' = DOMAIN request \cup {r} /\ r \in DOMAIN request'
        /\ \A q \in DOMAIN request : request'[q] = request[q]
    <3>1. \E x : request' = Append(request, x)
      BY <1>3 DEF newrequest
    <3> QED BY <3>1, <1>a, <1>0 DEF DataTypes
  <2>2. ASSUME NEW u \in Thread, u # t
        PROVE  /\ th'[u].pc = th[u].pc /\ th'[u].task = th[u].task /\ th'[u].msg = th[u].msg
               /\ th'[u].hand = th[u].hand /\ th'[u].socket = th[u].socket
               /\ th'[u].probe = th[u].probe
    BY <1>3, <1>h, <2>2 DEF newrequest
  <2>3. /\ th'[t].pc = "send" /\ th'[t].task = th[t].task /\ th'[t].msg = r
        /\ th'[t].socket = th[t].socket /\ th[t].pc = "newrequest"
    BY <1>3, <1>h DEF newrequest, At
  <2>4. Fine(t, th[t])'
    BY <2>1, <2>3, <1>h DEF Fine, Sends, Reads
  <2>5. ASSUME NEW u \in Thread, u # t PROVE Fine(u, th[u])'
    BY <2>1, <2>2, <2>5, <1>h DEF Fine
  <2> QED BY <2>4, <2>5 DEF ThreadInv
<1>4. ASSUME NEW t \in Thread, SendDone(t) PROVE ThreadInv'
  <2>1. UNCHANGED request
    BY <1>4 DEF SendDone
  <2>2. \A u \in Thread : u # t => th'[u] = th[u]
    BY <1>4, <1>h DEF SendDone
  <2>3. Fine(t, th[t])'
    BY <1>4, <2>1, <1>h DEF SendDone, At, Fine, Sends, Reads
  <2> QED BY <2>1, <2>2, <2>3, <1>s
<1>5. ASSUME NEW t \in Thread, SendBlocks(t) PROVE ThreadInv'
  <2>1. UNCHANGED request
    BY <1>5 DEF SendBlocks
  <2>2. \A u \in Thread : u # t => th'[u] = th[u]
    BY <1>5, <1>h DEF SendBlocks
  <2>3. Fine(t, th[t])'
    BY <1>5, <2>1, <1>h DEF SendBlocks, At, Fine, Sends, Reads
  <2> QED BY <2>1, <2>2, <2>3, <1>s
<1>6. ASSUME NEW t \in Thread, SendClosed(t) PROVE ThreadInv'
  <2>1. UNCHANGED request
    BY <1>6 DEF SendClosed
  <2>2. \A u \in Thread : u # t => th'[u] = th[u]
    BY <1>6, <1>h DEF SendClosed
  <2>3. Fine(t, th[t])'
    BY <1>6, <2>1, <1>h DEF SendClosed, At, Fine, Sends, Reads
  <2> QED BY <2>1, <2>2, <2>3, <1>s
<1>7. ASSUME NEW t \in Thread, Sent(t) PROVE ThreadInv'
  <2>1. /\ DOMAIN request' = DOMAIN request
        /\ \A r \in DOMAIN request : request'[r].owner = request[r].owner
    BY <1>7, <1>0 DEF Sent, DataTypes, Request
  <2>2. \A u \in Thread : u # t => th'[u] = th[u]
    BY <1>7, <1>h DEF Sent
  <2>3. Fine(t, th[t])'
    <3>1. th[t].pc = "freesend" /\ th[t].task \in {"new", "reissue"}
      BY <1>7, <1>0, <1>h DEF Sent, At, Fine, Sends, LockTypes, ThreadState
    <3>2. CASE th[t].task = "new"
      <4>1. th'[t] = Idle
        BY <3>2, <1>7, <1>h DEF Sent
      <4> QED BY <4>1 DEF Fine, Idle, Sends, Reads
    <3>3. CASE th[t].task # "new"
      <4>1. th'[t].task = "none" /\ th'[t].hand = th[t].hand /\ th'[t].socket = 0
            /\ th'[t].pc \in {"reissue", "fail"}
        BY <3>3, <1>7, <1>h DEF Sent, Idle
      <4> QED BY <4>1, <3>1, <3>3, <1>h, <2>1 DEF Fine, Sends, Reads
    <3> QED BY <3>2, <3>3
  <2> QED BY <2>1, <2>2, <2>3, <1>q
<1>8. ASSUME NEW t \in Thread, receivefrom(t) PROVE ThreadInv'
  <2>1. UNCHANGED request
    BY <1>8 DEF receivefrom
  <2>2. \A u \in Thread : u # t => th'[u] = th[u]
    BY <1>8, <1>h DEF receivefrom, lockreceive
  <2>3. Fine(t, th[t])'
    <3>1. PICK r \in DOMAIN request, probe \in {FALSE, (t \in Pollers)} :
             /\ request[r].owner = t
             /\ LET next == [Idle EXCEPT !.hand = r, !.probe = probe]
                IN  \/ lockreceive(t, next)
                    \/ th' = [th EXCEPT ![t] = [next EXCEPT !.pc = "handler"]]
      BY <1>8, Zenon DEF receivefrom
    <3> DEFINE next == [Idle EXCEPT !.hand = r, !.probe = probe]
    <3>2. DOMAIN next = Fields /\ next.task = "none" /\ next.hand = r /\ next.socket = 0
      BY DEF Idle, Fields
    <3> HIDE DEF next
    <3>3. th'[t].pc \in {"handler", "receive", "recvwait"} /\ SameBut(th'[t], next)
      <4>1. CASE lockreceive(t, next)
        BY <4>1, <3>2, <1>h, LockStates
      <4>2. CASE th' = [th EXCEPT ![t] = [next EXCEPT !.pc = "handler"]]
        BY <4>2, <3>2, <1>h DEF SameBut, SameTask, Fields
      <4> QED BY <3>1, <4>1, <4>2 DEF next
    <3> QED BY <3>1, <3>2, <3>3, <2>1 DEF SameBut, SameTask, Fine, Sends, Reads
  <2> QED BY <2>1, <2>2, <2>3, <1>s
<1>9. ASSUME NEW t \in Thread, ReceiveNotified(t) PROVE ThreadInv'
  <2>1. UNCHANGED request
    BY <1>9 DEF ReceiveNotified
  <2>2. \A u \in Thread : u # t => th'[u] = th[u]
    BY <1>9, <1>h DEF ReceiveNotified
  <2>3. Fine(t, th[t])'
    BY <1>9, <2>1, <1>h DEF ReceiveNotified, At, Outcome, Idle, Fine, Sends, Reads
  <2> QED BY <2>1, <2>2, <2>3, <1>s
<1>10. ASSUME NEW t \in Thread, ReceiveBlocks(t) PROVE ThreadInv'
  <2>1. UNCHANGED request
    BY <1>10 DEF ReceiveBlocks
  <2>2. \A u \in Thread : u # t => th'[u] = th[u]
    BY <1>10, <1>h DEF ReceiveBlocks, Goes
  <2>3. Fine(t, th[t])'
    BY <1>10, <2>1, <1>h DEF ReceiveBlocks, At, Goes, Fine, Sends, Reads
  <2> QED BY <2>1, <2>2, <2>3, <1>s
<1>11. ASSUME NEW t \in Thread, ReceiveReply(t) PROVE ThreadInv'
  <2>1. /\ DOMAIN request' = DOMAIN request
        /\ \A r \in DOMAIN request : request'[r].owner = request[r].owner
    BY <1>11, <1>0 DEF ReceiveReply, DataTypes, Request
  <2>2. \A u \in Thread : u # t => th'[u] = th[u]
    BY <1>11, <1>h DEF ReceiveReply
  <2>3. Fine(t, th[t])'
    BY <1>11, <2>1, <1>h DEF ReceiveReply, At, Fine, Sends, Reads
  <2> QED BY <2>1, <2>2, <2>3, <1>q
<1>12. ASSUME NEW t \in Thread, ReceiveWrong(t) PROVE ThreadInv'
  <2>1. UNCHANGED request
    BY <1>12 DEF ReceiveWrong
  <2>2. \A u \in Thread : u # t => th'[u] = th[u]
    BY <1>12, <1>h DEF ReceiveWrong
  <2>3. Fine(t, th[t])'
    BY <1>12, <2>1, <1>h DEF ReceiveWrong, At, Fine, Sends, Reads
  <2> QED BY <2>1, <2>2, <2>3, <1>s
<1>13. ASSUME NEW t \in Thread, ReceiveClosed(t) PROVE ThreadInv'
  <2>1. UNCHANGED request
    BY <1>13 DEF ReceiveClosed
  <2>2. \A u \in Thread : u # t => th'[u] = th[u]
    BY <1>13, <1>h DEF ReceiveClosed
  <2>3. Fine(t, th[t])'
    BY <1>13, <2>1, <1>h DEF ReceiveClosed, At, Fine, Sends, Reads
  <2> QED BY <2>1, <2>2, <2>3, <1>s
<1>14. ASSUME NEW t \in Thread, reissue(t) PROVE ThreadInv'
  <2>1. UNCHANGED request
    BY <1>14 DEF reissue
  <2>2. \A u \in Thread : u # t => th'[u] = th[u]
    BY <1>14, <1>h DEF reissue, locksend, Goes
  <2>3. Fine(t, th[t])'
    <3>1. th[t].pc = "reissue"
      BY <1>14 DEF reissue, At
    <3>2. CASE Goes(t, "receive")
      BY <3>1, <3>2, <1>h, <2>1 DEF Goes, Fine, Sends, Reads
    <3>3. ASSUME NEW id \in th[t].todo,
                 locksend(t, [th[t] EXCEPT !.task = "reissue", !.msg = channel[id],
                                           !.todo = @ \ {id}])
          PROVE  Fine(t, th[t])'
      <4> DEFINE next == [th[t] EXCEPT !.task = "reissue", !.msg = channel[id],
                                       !.todo = @ \ {id}]
      <4>1. channel[id] \in DOMAIN request
        BY <3>1, <1>0 DEF TaskInv, Tasked, Traversing, ChannelInv
      <4>2. /\ DOMAIN next = Fields /\ next.task = "reissue" /\ next.msg = channel[id]
            /\ next.hand = th[t].hand /\ next.socket = th[t].socket
        BY <1>h DEF Fields
      <4>l. locksend(t, next)
        BY <3>3
      <4> HIDE DEF next
      <4>3. SameBut(th'[t], next) /\ th'[t].pc \in {"sendwait", "send"}
        BY <4>l, <4>2, <1>h, LockStates
      <4> QED BY <3>1, <4>1, <4>2, <4>3, <1>h, <2>1 DEF SameBut, SameTask, Fine, Sends, Reads
    <3> QED BY <3>2, <3>3, <1>14 DEF reissue
  <2> QED BY <2>1, <2>2, <2>3, <1>s
<1>15. ASSUME NEW t \in Thread, Fail(t) PROVE ThreadInv'
  <2>1. /\ DOMAIN request' = DOMAIN request
        /\ \A r \in DOMAIN request : request'[r].owner = request[r].owner
    <3>1. UNCHANGED request
          \/ \E id \in th[t].todo : request' = [request EXCEPT ![channel[id]].success = "false"]
      BY <1>15 DEF Fail
    <3>2. ASSUME NEW id, request' = [request EXCEPT ![channel[id]].success = "false"],
                 NEW r \in DOMAIN request
          PROVE  request'[r].owner = request[r].owner
      BY <3>2, <1>r
    <3> QED BY <3>1, <3>2
  <2>2. \E x : /\ th' = [th EXCEPT ![t] = x]
               /\ x.pc \in {"fail", "freereceive"} /\ SameTask(x, th[t])
    <3>1. CASE Goes(t, "freereceive")
      <4> DEFINE x == [th[t] EXCEPT !.pc = "freereceive"]
      <4>1. th' = [th EXCEPT ![t] = x] /\ x.pc = "freereceive" /\ SameTask(x, th[t])
        BY <3>1, <1>h DEF Goes, Fields, SameTask
      <4> QED BY <4>1
    <3>2. ASSUME NEW id \in th[t].todo, th' = [th EXCEPT ![t].todo = @ \ {id}]
          PROVE \E x : /\ th' = [th EXCEPT ![t] = x]
                       /\ x.pc \in {"fail", "freereceive"} /\ SameTask(x, th[t])
      <4> DEFINE x == [th[t] EXCEPT !.todo = @ \ {id}]
      <4>1. th[t].pc = "fail"
        BY <1>15 DEF Fail, At
      <4>2. th' = [th EXCEPT ![t] = x] /\ x.pc = "fail" /\ SameTask(x, th[t])
        BY <3>2, <4>1, <1>h DEF Fields, SameTask
      <4> QED BY <4>2
    <3> QED BY <3>1, <3>2, <1>15 DEF Fail
  <2>3. /\ \A u \in Thread : u # t => th'[u] = th[u]
        /\ th'[t].pc \in {"fail", "freereceive"} /\ SameTask(th'[t], th[t])
    BY <2>2, <1>h
  <2>4. Fine(t, th[t])'
    <3>1. th[t].pc = "fail"
      BY <1>15 DEF Fail, At
    <3> QED BY <3>1, <2>1, <2>3, <1>h DEF SameTask, Fine, Sends, Reads
  <2> QED BY <2>1, <2>3, <2>4, <1>q
<1>16. ASSUME NEW t \in Thread, Received(t) PROVE ThreadInv'
  <2>1. UNCHANGED request
    BY <1>16 DEF Received
  <2>2. \A u \in Thread : u # t => th'[u] = th[u]
    BY <1>16, <1>h DEF Received
  <2>3. Fine(t, th[t])'
    BY <1>16, <2>1, <1>h DEF Received, At, Outcome, Idle, Fine, Sends, Reads
  <2> QED BY <2>1, <2>2, <2>3, <1>s
<1>17. ASSUME NEW t \in Thread, forward(t) PROVE ThreadInv'
  <2>1. /\ DOMAIN request' = DOMAIN request
        /\ \A r \in DOMAIN request : request'[r].owner = request[r].owner
    <3>1. PICK x \in {[request[th[t].hand] EXCEPT !.success = "nil", !.forwarded = TRUE],
                        [request[th[t].hand] EXCEPT !.success = "false"]} :
             request' = [request EXCEPT ![th[t].hand] = x]
      BY <1>17 DEF forward
    <3>2. /\ DOMAIN [request[th[t].hand] EXCEPT !.success = "nil", !.forwarded = TRUE]
                = DOMAIN request[th[t].hand]
          /\ th[t].hand \in DOMAIN request => x.owner = request[th[t].hand].owner
      BY <3>1, <1>r
    <3> QED BY <3>1, <3>2
  <2>2. \A u \in Thread : u # t => th'[u] = th[u]
    BY <1>17, <1>h, LockStates DEF forward
  <2>3. Fine(t, th[t])'
    <3>1. th[t].pc = "handler"
      BY <1>17 DEF forward, At
    <3>2. CASE th' = [th EXCEPT ![t] = Idle]
      BY <3>2, <1>h DEF Idle, Fine, Sends, Reads
    <3>3. CASE lockreceive(t, th[t])
      <4>1. SameBut(th'[t], th[t]) /\ th'[t].pc \in {"receive", "recvwait"}
        BY <3>3, <1>h, LockStates
      <4> QED BY <3>1, <4>1, <2>1, <1>h DEF SameBut, SameTask, Fine, Sends, Reads
    <3> QED BY <3>2, <3>3, <1>17 DEF forward
  <2> QED BY <2>1, <2>2, <2>3, <1>q
<1>18. ASSUME NEW t \in Thread, Execute(t) \/ ExecuteDead(t) PROVE ThreadInv'
  BY <1>0, <1>18 DEF Execute, ExecuteDead, ThreadInv, Fine
<1>19. ASSUME Answer \/ PeerFails PROVE ThreadInv'
  BY <1>0, <1>19 DEF Answer, PeerFails, ThreadInv, Fine
<1> QED BY <1>1, <1>2, <1>3, <1>4, <1>5, <1>6, <1>7, <1>8, <1>9, <1>10, <1>11, <1>12,
       <1>13, <1>14, <1>15, <1>16, <1>17, <1>18, <1>19 DEF Next, Step

-----------------------------------------------------------------------------
(* The mutex *)

(* Nothing changes for the locks when a thread goes on without one.         *)
LEMMA RolesKept ==
  ASSUME LockTypes, MutexInv, UNCHANGED lock, NEW t \in Thread, turn \in {t, Nobody},
         \A u \in Thread : u # t => /\ th'[u].pc = th[u].pc /\ th'[u].task = th[u].task
                                    /\ th'[u].hand = th[u].hand,
         \/ turn' \in {t, Nobody}
         \/ turn' \in Thread /\ th[turn'].pc = "recvwait" /\ turn' # receiving,
         {th[t].pc, th'[t].pc} \cap {"sendwait", "recvwait"} = {},
         th'[t].pc \in {"newrequest", "send", "freesend"}
            <=> th[t].pc \in {"newrequest", "send", "freesend"},
         th'[t].pc \in {"receive", "reissue", "fail", "freereceive"} \/ th'[t].task = "reissue"
            <=> \/ th[t].pc \in {"receive", "reissue", "fail", "freereceive"}
                \/ th[t].task = "reissue"
  PROVE  MutexInv'
<1> USE OilClientAssumption DEF lock, MutexInv
<1>1. Senders' = Senders
  BY DEF Senders, At
<1>2. Readers' = Readers
  BY DEF Readers, At
<1>3. Waiting' = Waiting
  BY DEF Waiting
<1>4. SendersInv' /\ ReadersInv' /\ QueueInv'
  BY <1>1, <1>2, <1>3 DEF SendersInv, ReadersInv, QueueInv
<1>5. ReceiversInv'
  <2>1. \A u \in Thread : /\ th'[u].pc = "recvwait" <=> th[u].pc = "recvwait"
                          /\ th[u].pc = "recvwait" => th'[u].hand = th[u].hand
    OBVIOUS
  <2>2. receivers' = receivers /\ receiving' = receiving /\ ReceiversInv
    OBVIOUS
  <2> QED BY ONLY <2>1, <2>2 DEF ReceiversInv
<1> QED BY <1>4, <1>5

(* A thread that asks for the lock to send gets it or waits behind others.  *)
LEMMA LocksendKept ==
  ASSUME LockTypes, MutexInv, NEW t \in Thread, turn \in {t, Nobody}, NEW next,
         DOMAIN next = Fields, locksend(t, next), UNCHANGED <<receiving, receivers>>,
         \/ th[t].pc = "out" /\ next.task = "new"
         \/ th[t].pc = "reissue" /\ next.task = "reissue",
         th[t].task = "none"
  PROVE  MutexInv'
<1> USE OilClientAssumption DEF MutexInv
<1>1. DOMAIN th = Thread
  BY DEF LockTypes
<1>2. /\ \A u \in Thread : u # t => th'[u] = th[u]
      /\ SameBut(th'[t], next)
      /\ \/ sending /\ th'[t].pc = "sendwait"
         \/ ~sending /\ th'[t].pc = IF next.task = "new" THEN "newrequest" ELSE "send"
  BY <1>1, LockStates
<1>3. ReadersInv'
  <2>1. Readers' = Readers
    BY <1>2 DEF Readers, At, locksend, SameBut, SameTask
  <2> QED BY <2>1 DEF ReadersInv
<1>4. ReceiversInv'
  BY <1>2 DEF ReceiversInv
<1>5. CASE sending
  <2>1. /\ senders' = Append(senders, t) /\ turn' = Nobody /\ sending'
        /\ th'[t].pc = "sendwait"
    BY <1>5, <1>2 DEF locksend
  <2>2. Senders' = Senders
    BY <1>2, <2>1 DEF Senders, At
  <2>3. t \notin Waiting /\ Waiting' = Waiting \cup {t}
    BY <1>2, <2>1 DEF Waiting
  <2>4. QueueInv'
    BY <2>1, <2>3, QueuedUp DEF QueueInv, LockTypes
  <2> QED BY <1>3, <1>4, <1>5, <2>1, <2>2, <2>4 DEF SendersInv
<1>6. CASE ~sending
  <2>1. /\ senders' = senders /\ turn' = t /\ sending' = TRUE
        /\ th'[t].pc \in {"newrequest", "send"}
    BY <1>6, <1>2 DEF locksend
  <2>2. Senders' = {t}
    <3>1. Senders = {}
      BY <1>6 DEF SendersInv
    <3> QED BY <1>2, <2>1, <3>1 DEF Senders, At
  <2>3. Waiting' = Waiting
    BY <1>2, <2>1 DEF Waiting
  <2> QED BY <1>3, <1>4, <2>1, <2>2, <2>3 DEF SendersInv, QueueInv
<1> QED BY <1>5, <1>6

(* A thread that asks to read gets to, or waits for who does.               *)
LEMMA LockreceiveKept ==
  ASSUME LockTypes, MutexInv, NEW t \in Thread, turn \in {t, Nobody}, NEW next,
         DOMAIN next = Fields, lockreceive(t, next), UNCHANGED <<sending, senders>>,
         th[t].pc \in {"out", "handler"}, th[t].task = "none", next.task = "none",
         \A u \in Thread : u # t /\ th[u].pc = "recvwait" => th[u].hand # next.hand
  PROVE  MutexInv'
<1> USE OilClientAssumption DEF MutexInv
<1>1. DOMAIN th = Thread
  BY DEF LockTypes
<1>2. /\ \A u \in Thread : u # t => th'[u] = th[u]
      /\ SameBut(th'[t], next)
      /\ th'[t].pc = IF receiving = Nobody THEN "receive" ELSE "recvwait"
      /\ turn' \in {t, Nobody}
  BY <1>1, LockStates DEF lockreceive
<1>3. Senders' = Senders
  BY <1>2 DEF Senders, At
<1>4. Waiting' = Waiting
  BY <1>2 DEF Waiting
<1>5. SendersInv' /\ QueueInv'
  BY <1>3, <1>4 DEF SendersInv, QueueInv
<1>6. CASE receiving = Nobody
  <2>1. receiving' = t /\ receivers' = receivers /\ th'[t].pc = "receive"
    BY <1>6, <1>2 DEF lockreceive
  <2>2. Readers' = {t}
    <3>1. Readers = {}
      BY <1>6 DEF ReadersInv
    <3> QED BY <1>2, <2>1, <3>1 DEF Readers, At
  <2>3. ReceiversInv'
    BY <1>2, <2>1 DEF ReceiversInv
  <2> QED BY <1>5, <2>1, <2>2, <2>3 DEF ReadersInv
<1>7. CASE receiving # Nobody
  <2>1. /\ receiving' = receiving /\ receivers' = With(receivers, next.hand, t)
        /\ th'[t].pc = "recvwait" /\ turn' = Nobody
    BY <1>7, <1>2 DEF lockreceive
  <2>2. Readers' = Readers
    BY <1>2, <2>1 DEF Readers, At, SameBut, SameTask
  <2>3. ReceiversInv'
    BY <1>2, <1>7, <2>1 DEF ReceiversInv, With, SameBut, SameTask
  <2> QED BY <1>5, <2>1, <2>2, <2>3 DEF ReadersInv
<1> QED BY <1>6, <1>7

(* A thread that has sent leaves the lock to the first that waits for it.   *)
LEMMA FreesendKept ==
  ASSUME LockTypes, MutexInv, NEW t \in Thread, turn = t, NEW next, freesend(t, next),
         th' = [th EXCEPT ![t] = next], UNCHANGED <<receiving, receivers>>,
         th[t].pc = "freesend", next.task = "none",
         th[t].task # "reissue" => next.pc = "out",
         th[t].task = "reissue" => next.pc \in {"reissue", "fail"}
  PROVE  MutexInv'
<1> USE OilClientAssumption DEF MutexInv
<1>1. th'[t] = next /\ \A u \in Thread : u # t => th'[u] = th[u]
  BY DEF LockTypes
<1>2. sending /\ Senders = {t}
  BY DEF SendersInv, Senders
<1>3. senders \in Seq(Thread)
  BY DEF LockTypes
<1>4. ReceiversInv'
  <2>1. next.pc # "recvwait"
    OBVIOUS
  <2> QED BY <1>1, <2>1 DEF ReceiversInv
<1>5. CASE senders = << >>
  <2>1. sending' = FALSE /\ turn' \in {t, Nobody} /\ senders' = senders
    BY <1>5 DEF freesend, TurnFor
  <2>2. Senders' = {}
    BY <1>1, <1>2, <2>1 DEF Senders, At
  <2>3. Readers' = Readers
    BY <1>1, <2>1 DEF Readers, At
  <2>4. Waiting' = Waiting
    BY <1>1, <2>1 DEF Waiting
  <2> QED BY <1>4, <1>5, <2>1, <2>2, <2>3, <2>4 DEF SendersInv, ReadersInv, QueueInv
<1>6. CASE senders # << >>
  <2>1. turn' = Head(senders) /\ senders' = Tail(senders) /\ sending' = sending
    BY <1>6 DEF freesend
  <2>2. /\ IsInjective(senders') /\ Head(senders) \in Waiting
        /\ ToSet(senders') = Waiting \ {Head(senders)}
    BY <1>3, <1>6, <2>1, LeftTheQueue DEF QueueInv
  <2>3. /\ turn' \in Thread /\ turn' # t /\ th[turn'].pc = "sendwait"
    BY <2>1, <2>2 DEF Waiting
  <2>4. Senders' = {turn'}
    BY <1>1, <1>2, <2>3 DEF Senders, At
  <2>5. Readers' = Readers
    BY <1>1, <2>3 DEF Readers, At
  <2>6. Waiting' = Waiting \ {turn'}
    BY <1>1, <2>3 DEF Waiting
  <2> QED BY <1>2, <1>4, <2>1, <2>2, <2>3, <2>4, <2>5, <2>6
             DEF SendersInv, ReadersInv, QueueInv
<1> QED BY <1>5, <1>6

(* A thread that has read leaves the reading to one that waits, if any does. *)
LEMMA FreereceiveKept ==
  ASSUME LockTypes, MutexInv, NEW t \in Thread, turn = t, NEW next, freereceive(t, next),
         th' = [th EXCEPT ![t] = next], UNCHANGED <<sending, senders, receivers>>,
         th[t].pc = "freereceive", next.task = "none", next.pc \in {"out", "handler"}
  PROVE  MutexInv'
<1> USE OilClientAssumption DEF MutexInv
<1>1. th'[t] = next /\ \A u \in Thread : u # t => th'[u] = th[u]
  BY DEF LockTypes
<1>2. Readers = {t} /\ receiving = t
  BY DEF ReadersInv, Readers
<1>3. \/ receivers = << >> /\ receiving' = Nobody /\ turn' \in {t, Nobody}
      \/ \E r \in DOMAIN receivers : receiving' = receivers[r] /\ turn' = receivers[r]
  BY DEF freereceive, TurnFor
<1>4. \/ turn' \in {t, Nobody}
      \/ turn' \in Thread /\ th[turn'].pc = "recvwait" /\ turn' # t
  BY <1>3 DEF ReceiversInv
<1>5. Senders' = Senders
  BY <1>1, <1>4 DEF Senders, At
<1>6. Waiting' = Waiting
  BY <1>1, <1>4 DEF Waiting
<1>7. SendersInv' /\ QueueInv'
  BY <1>5, <1>6 DEF SendersInv, QueueInv
<1>r. /\ \A u \in Thread : u # t /\ th[u].pc = "recvwait" =>
            th[u].hand \in DOMAIN receivers' /\ receivers'[th[u].hand] = u
      /\ \A r \in DOMAIN receivers' :
            /\ receivers'[r] \in Thread /\ receivers'[r] # t
            /\ th[receivers'[r]].pc = "recvwait" /\ th[receivers'[r]].hand = r
  BY DEF ReceiversInv
<1>8. CASE receivers = << >> /\ receiving' = Nobody /\ turn' \in {t, Nobody}
  <2>1. Readers' = {}
    BY <1>1, <1>2, <1>8 DEF Readers, At
  <2>2. \A u \in Thread : th[u].pc # "recvwait"
    BY <1>8 DEF ReceiversInv
  <2>3. ReceiversInv'
    BY <1>1, <1>8, <2>2 DEF ReceiversInv
  <2> QED BY <1>7, <1>8, <2>1, <2>3 DEF ReadersInv
<1>9. ASSUME NEW r \in DOMAIN receivers, receiving' = receivers[r], turn' = receivers[r]
      PROVE  MutexInv'
  <2>1. turn' \in Thread /\ th[turn'].pc = "recvwait" /\ turn' # t /\ receiving' = turn'
    BY <1>9 DEF ReceiversInv
  <2>2. Readers' = {turn'}
    BY <1>1, <1>2, <2>1 DEF Readers, At
  <2>3. ReceiversInv'
    <3>1. receiving' # Nobody /\ th'[t].pc # "recvwait"
      BY <2>1, <1>1
    <3>2. \A u \in Thread : u # t => th'[u] = th[u]
      BY <1>1
    <3> QED BY ONLY <3>1, <3>2, <1>r DEF ReceiversInv
  <2> QED BY <1>7, <2>1, <2>2, <2>3 DEF ReadersInv
<1> QED BY <1>3, <1>8, <1>9

(* No step breaks the mutex.                                                *)
LEMMA MutexStep == ASSUME IInv, Next PROVE MutexInv'
<1>0. LockTypes /\ DataTypes /\ ThreadInv /\ MutexInv
  BY DEF IInv, TypeInv
<1> USE OilClientAssumption DEF lock, history, Fields
<1>h. /\ DOMAIN th = Thread
      /\ \A t \in Thread : DOMAIN th[t] = Fields /\ Fine(t, th[t])
  BY <1>0 DEF LockTypes, ThreadState, ThreadInv, Fields
<1>i. /\ DOMAIN Idle = Fields /\ Idle.task = "none" /\ Idle.pc = "out"
  BY DEF Idle, Fields
<1>f. \A t \in Thread : th[t].pc \notin Sends => th[t].task = "none"
  BY <1>h DEF Fine
<1>1. ASSUME NEW t \in Thread, invoke(t) PROVE MutexInv'
  <2> DEFINE next == [Idle EXCEPT !.task = "new"]
  <2>1. DOMAIN next = Fields /\ next.task = "new"
    BY DEF Idle, Fields
  <2>2. locksend(t, next) /\ UNCHANGED <<receiving, receivers>>
    BY <1>1 DEF invoke
  <2> HIDE DEF next
  <2>3. turn = Nobody /\ th[t].pc = "out" /\ th[t].task = "none"
    BY <1>1, <1>f DEF invoke, AtOut, Sends
  <2> QED BY <1>0, <2>1, <2>2, <2>3, LocksendKept
<1>2. ASSUME NEW t \in Thread, SendNotified(t) PROVE MutexInv'
  <2>1. /\ turn = t /\ turn' = t /\ th[t].pc = "sendwait" /\ UNCHANGED lock
        /\ th' = [th EXCEPT ![t] = Locked(th[t])]
    BY <1>2 DEF SendNotified, At
  <2>2. /\ th'[t].pc \in {"newrequest", "send"} /\ th'[t].task = th[t].task
        /\ \A u \in Thread : u # t => th'[u] = th[u]
    BY <2>1, <1>h, LockStates DEF SameBut, SameTask
  <2>3. Senders' = Senders
    BY <2>1, <2>2 DEF Senders, At
  <2>4. Readers' = Readers
    BY <2>1, <2>2 DEF Readers, At
  <2>5. Waiting' = Waiting
    BY <2>1, <2>2 DEF Waiting
  <2>6. ReceiversInv'
    BY <1>0, <2>1, <2>2 DEF MutexInv, ReceiversInv
  <2> QED BY <1>0, <2>1, <2>3, <2>4, <2>5, <2>6
          DEF MutexInv, SendersInv, ReadersInv, QueueInv
<1>3. ASSUME NEW t \in Thread, newrequest(t) PROVE MutexInv'
  <2>1. UNCHANGED lock /\ turn = t /\ turn' = t /\ th[t].pc = "newrequest"
    BY <1>3 DEF newrequest, At
  <2>2. ASSUME NEW u \in Thread, u # t
        PROVE  th'[u].pc = th[u].pc /\ th'[u].task = th[u].task /\ th'[u].hand = th[u].hand
    BY <1>3, <1>h, <2>2 DEF newrequest
  <2>3. th'[t].pc = "send" /\ th'[t].task = th[t].task
    BY <1>3, <1>h DEF newrequest
  <2> QED BY <1>0, <2>1, <2>2, <2>3, RolesKept
<1>4. ASSUME NEW t \in Thread, SendDone(t) PROVE MutexInv'
  <2>1. UNCHANGED lock /\ turn = t /\ turn' \in {t, Nobody}
    BY <1>4 DEF SendDone, At
  <2>2. \A u \in Thread : u # t => th'[u] = th[u]
    BY <1>4, <1>h DEF SendDone
  <2>3. /\ {th[t].pc, th'[t].pc} \cap {"sendwait", "recvwait"} = {}
        /\ th'[t].pc \in {"newrequest", "send", "freesend"}
              <=> th[t].pc \in {"newrequest", "send", "freesend"}
        /\ \/ th'[t].pc \in {"receive", "reissue", "fail", "freereceive"}
           \/ th'[t].task = "reissue"
           <=> \/ th[t].pc \in {"receive", "reissue", "fail", "freereceive"}
               \/ th[t].task = "reissue"
    BY <1>4, <1>h DEF SendDone, At
  <2> QED BY <1>0, <2>1, <2>2, <2>3, RolesKept
<1>5. ASSUME NEW t \in Thread, SendBlocks(t) PROVE MutexInv'
  <2>1. UNCHANGED lock /\ turn = t /\ turn' \in {t, Nobody}
    BY <1>5 DEF SendBlocks, At
  <2>2. \A u \in Thread : u # t => th'[u] = th[u]
    BY <1>5, <1>h DEF SendBlocks
  <2>3. /\ {th[t].pc, th'[t].pc} \cap {"sendwait", "recvwait"} = {}
        /\ th'[t].pc \in {"newrequest", "send", "freesend"}
              <=> th[t].pc \in {"newrequest", "send", "freesend"}
        /\ \/ th'[t].pc \in {"receive", "reissue", "fail", "freereceive"}
           \/ th'[t].task = "reissue"
           <=> \/ th[t].pc \in {"receive", "reissue", "fail", "freereceive"}
               \/ th[t].task = "reissue"
    BY <1>5, <1>h DEF SendBlocks, At
  <2> QED BY <1>0, <2>1, <2>2, <2>3, RolesKept
<1>6. ASSUME NEW t \in Thread, SendClosed(t) PROVE MutexInv'
  <2>1. UNCHANGED lock /\ turn = t /\ turn' \in {t, Nobody}
    BY <1>6 DEF SendClosed, At
  <2>2. \A u \in Thread : u # t => th'[u] = th[u]
    BY <1>6, <1>h DEF SendClosed
  <2>3. /\ {th[t].pc, th'[t].pc} \cap {"sendwait", "recvwait"} = {}
        /\ th'[t].pc \in {"newrequest", "send", "freesend"}
              <=> th[t].pc \in {"newrequest", "send", "freesend"}
        /\ \/ th'[t].pc \in {"receive", "reissue", "fail", "freereceive"}
           \/ th'[t].task = "reissue"
           <=> \/ th[t].pc \in {"receive", "reissue", "fail", "freereceive"}
               \/ th[t].task = "reissue"
    BY <1>6, <1>h DEF SendClosed, At
  <2> QED BY <1>0, <2>1, <2>2, <2>3, RolesKept
<1>7. ASSUME NEW t \in Thread, Sent(t) PROVE MutexInv'
  <2> DEFINE next == IF th[t].task = "new" THEN Idle
                     ELSE [Idle EXCEPT !.hand = th[t].hand, !.probe = th[t].probe,
                              !.pc = IF th[t].ok THEN "reissue" ELSE "fail",
                              !.todo = IF th[t].ok THEN th[t].todo ELSE DOMAIN channel]
  <2>1. /\ turn = t /\ th[t].pc = "freesend" /\ freesend(t, next)
        /\ th' = [th EXCEPT ![t] = next] /\ UNCHANGED <<receiving, receivers>>
    BY <1>7 DEF Sent, At
  <2>2. /\ next.task = "none"
        /\ th[t].task = "new" => next.pc = "out"
        /\ th[t].task # "new" => next.pc \in {"reissue", "fail"}
    BY DEF Idle
  <2> HIDE DEF next
  <2>3. th[t].task \in {"new", "reissue"}
    BY <2>1, <1>h, <1>0 DEF Fine, Sends, LockTypes, ThreadState
  <2> QED BY <1>0, <2>1, <2>2, <2>3, FreesendKept
<1>8. ASSUME NEW t \in Thread, receivefrom(t) PROVE MutexInv'
  <2>1. PICK r \in DOMAIN request, probe \in {FALSE, (t \in Pollers)} :
           /\ request[r].owner = t
           /\ LET next == [Idle EXCEPT !.hand = r, !.probe = probe]
              IN  \/ lockreceive(t, next)
                  \/ /\ th' = [th EXCEPT ![t] = [next EXCEPT !.pc = "handler"]]
                     /\ turn' = t /\ UNCHANGED <<receiving, receivers>>
    BY <1>8, Zenon DEF receivefrom
  <2> DEFINE next == [Idle EXCEPT !.hand = r, !.probe = probe]
  <2>2. DOMAIN next = Fields /\ next.task = "none" /\ next.hand = r
    BY DEF Idle, Fields
  <2>3. /\ turn = Nobody /\ th[t].pc = "out" /\ th[t].task = "none"
        /\ UNCHANGED <<sending, senders>>
    BY <1>8, <1>f DEF receivefrom, AtOut, Sends
  <2>4. \A u \in Thread : u # t /\ th[u].pc = "recvwait" => th[u].hand # r
    BY <1>h, <2>1 DEF Fine, Reads
  <2>5. \/ lockreceive(t, next)
        \/ /\ th' = [th EXCEPT ![t] = [next EXCEPT !.pc = "handler"]]
           /\ turn' = t /\ UNCHANGED <<receiving, receivers>>
    BY <2>1
  <2> HIDE DEF next
  <2>6. CASE lockreceive(t, next)
    BY <1>0, <2>2, <2>3, <2>4, <2>6, LockreceiveKept
  <2>7. CASE /\ th' = [th EXCEPT ![t] = [next EXCEPT !.pc = "handler"]]
             /\ turn' = t /\ UNCHANGED <<receiving, receivers>>
    <3>1. /\ th'[t].pc = "handler" /\ th'[t].task = "none"
          /\ \A u \in Thread : u # t => th'[u] = th[u]
      BY <2>2, <2>7, <1>h
    <3> QED BY <1>0, <2>3, <2>7, <3>1, RolesKept
  <2> QED BY <2>5, <2>6, <2>7
<1>9. ASSUME NEW t \in Thread, ReceiveNotified(t) PROVE MutexInv'
  <2>1. /\ turn = t /\ th[t].pc = "recvwait" /\ th[t].task = "none"
        /\ receivers' = Without(receivers, th[t].hand)
        /\ UNCHANGED <<sending, senders, receiving>> /\ turn' \in {t, Nobody}
    BY <1>9, <1>f DEF ReceiveNotified, At, TurnFor, Sends
  <2>2. /\ \A u \in Thread : u # t => th'[u] = th[u]
        /\ th'[t].task = "none"
        /\ th'[t].pc \in IF receiving = t THEN {"receive"} ELSE {"out", "handler"}
    BY <1>9, <1>h, <2>1 DEF ReceiveNotified, Outcome, Idle
  <2>3. Senders' = Senders
    BY <2>1, <2>2 DEF Senders, At
  <2>4. Readers' = Readers
    BY <2>1, <2>2 DEF Readers, At
  <2>5. Waiting' = Waiting
    BY <2>1, <2>2 DEF Waiting
  <2>6. ReceiversInv'
    <3>1. ASSUME NEW u \in Thread, th'[u].pc = "recvwait"
          PROVE  /\ th'[u].hand \in DOMAIN receivers' /\ receivers'[th'[u].hand] = u
                 /\ receiving' # Nobody
      <4>1. u # t /\ th[u].pc = "recvwait" /\ th'[u] = th[u]
        BY <3>1, <2>2
      <4>2. th[u].hand # th[t].hand
        BY <4>1, <2>1, <1>h DEF Fine, Reads
      <4> QED BY <4>1, <4>2, <2>1, <1>0 DEF MutexInv, ReceiversInv, Without
    <3>2. ASSUME NEW r \in DOMAIN receivers'
          PROVE  /\ receivers'[r] \in Thread /\ th'[receivers'[r]].pc = "recvwait"
                 /\ th'[receivers'[r]].hand = r
      <4>1. r \in DOMAIN receivers /\ r # th[t].hand /\ receivers'[r] = receivers[r]
        BY <3>2, <2>1 DEF Without
      <4>2. /\ receivers[r] \in Thread /\ th[receivers[r]].pc = "recvwait"
            /\ th[receivers[r]].hand = r
        BY <4>1, <1>0 DEF MutexInv, ReceiversInv
      <4> QED BY <4>1, <4>2, <2>2
    <3> QED BY <3>1, <3>2 DEF ReceiversInv
  <2> QED BY <1>0, <2>1, <2>3, <2>4, <2>5, <2>6
          DEF MutexInv, SendersInv, ReadersInv, QueueInv
<1>10. ASSUME NEW t \in Thread, ReceiveBlocks(t) PROVE MutexInv'
  <2>1. UNCHANGED lock /\ turn = t /\ turn' \in {t, Nobody}
    BY <1>10 DEF ReceiveBlocks, At
  <2>2. \A u \in Thread : u # t => th'[u] = th[u]
    BY <1>10, <1>h DEF ReceiveBlocks, Goes
  <2>3. /\ {th[t].pc, th'[t].pc} \cap {"sendwait", "recvwait"} = {}
        /\ th'[t].pc \in {"newrequest", "send", "freesend"}
              <=> th[t].pc \in {"newrequest", "send", "freesend"}
        /\ \/ th'[t].pc \in {"receive", "reissue", "fail", "freereceive"}
           \/ th'[t].task = "reissue"
           <=> \/ th[t].pc \in {"receive", "reissue", "fail", "freereceive"}
               \/ th[t].task = "reissue"
    BY <1>10, <1>h DEF ReceiveBlocks, Goes, At
  <2> QED BY <1>0, <2>1, <2>2, <2>3, RolesKept
<1>11. ASSUME NEW t \in Thread, ReceiveReply(t) PROVE MutexInv'
  <2>1. UNCHANGED lock /\ turn = t /\ th[t].pc = "receive" /\ th[t].task = "none"
    BY <1>11, <1>f DEF ReceiveReply, At, Sends
  <2>2. receiving = t
    BY <1>0, <2>1 DEF MutexInv, ReadersInv, Readers
  <2>3. \/ turn' = t
        \/ \E r \in DOMAIN receivers : turn' = receivers[r]
    BY <1>11, <2>1 DEF ReceiveReply, notifyreceived
  <2>4. \/ turn' = t
        \/ turn' \in Thread /\ th[turn'].pc = "recvwait" /\ turn' # receiving
    BY <2>1, <2>2, <2>3, <1>0 DEF MutexInv, ReceiversInv
  <2>5. /\ \A u \in Thread : u # t => th'[u] = th[u]
        /\ th'[t].task = "none" /\ th'[t].pc \in {"receive", "freereceive"}
    BY <1>11, <2>1, <1>h DEF ReceiveReply, Goes
  <2> QED BY <1>0, <2>1, <2>4, <2>5, RolesKept
<1>12. ASSUME NEW t \in Thread, ReceiveWrong(t) PROVE MutexInv'
  <2>1. UNCHANGED lock /\ turn = t /\ turn' \in {t, Nobody}
    BY <1>12 DEF ReceiveWrong, At
  <2>2. \A u \in Thread : u # t => th'[u] = th[u]
    BY <1>12, <1>h DEF ReceiveWrong
  <2>3. /\ {th[t].pc, th'[t].pc} \cap {"sendwait", "recvwait"} = {}
        /\ th'[t].pc \in {"newrequest", "send", "freesend"}
              <=> th[t].pc \in {"newrequest", "send", "freesend"}
        /\ \/ th'[t].pc \in {"receive", "reissue", "fail", "freereceive"}
           \/ th'[t].task = "reissue"
           <=> \/ th[t].pc \in {"receive", "reissue", "fail", "freereceive"}
               \/ th[t].task = "reissue"
    BY <1>12, <1>h DEF ReceiveWrong, At
  <2> QED BY <1>0, <2>1, <2>2, <2>3, RolesKept
<1>13. ASSUME NEW t \in Thread, ReceiveClosed(t) PROVE MutexInv'
  <2>1. UNCHANGED lock /\ turn = t /\ turn' \in {t, Nobody}
    BY <1>13 DEF ReceiveClosed, At
  <2>2. \A u \in Thread : u # t => th'[u] = th[u]
    BY <1>13, <1>h DEF ReceiveClosed
  <2>3. /\ {th[t].pc, th'[t].pc} \cap {"sendwait", "recvwait"} = {}
        /\ th'[t].pc \in {"newrequest", "send", "freesend"}
              <=> th[t].pc \in {"newrequest", "send", "freesend"}
        /\ \/ th'[t].pc \in {"receive", "reissue", "fail", "freereceive"}
           \/ th'[t].task = "reissue"
           <=> \/ th[t].pc \in {"receive", "reissue", "fail", "freereceive"}
               \/ th[t].task = "reissue"
    BY <1>13, <1>h DEF ReceiveClosed, At
  <2> QED BY <1>0, <2>1, <2>2, <2>3, RolesKept
<1>14. ASSUME NEW t \in Thread, reissue(t) PROVE MutexInv'
  <2>1. /\ turn = t /\ th[t].pc = "reissue" /\ th[t].task = "none"
        /\ UNCHANGED <<receiving, receivers>>
    BY <1>14, <1>f DEF reissue, At, Sends
  <2>2. CASE Goes(t, "receive") /\ UNCHANGED <<turn, sending, senders>>
    <3>1. /\ \A u \in Thread : u # t => th'[u] = th[u]
          /\ th'[t].task = "none" /\ th'[t].pc = "receive"
      BY <2>1, <2>2, <1>h DEF Goes
    <3> QED BY <1>0, <2>1, <2>2, <3>1, RolesKept
  <2>3. ASSUME NEW id \in th[t].todo,
               locksend(t, [th[t] EXCEPT !.task = "reissue", !.msg = channel[id],
                                         !.todo = @ \ {id}])
        PROVE  MutexInv'
    <3> DEFINE next == [th[t] EXCEPT !.task = "reissue", !.msg = channel[id],
                                     !.todo = @ \ {id}]
    <3>1. DOMAIN next = Fields /\ next.task = "reissue" /\ locksend(t, next)
      BY <2>3, <1>h DEF Fields
    <3> HIDE DEF next
    <3> QED BY <1>0, <2>1, <3>1, LocksendKept
  <2> QED BY <2>2, <2>3, <1>14 DEF reissue
<1>15. ASSUME NEW t \in Thread, Fail(t) PROVE MutexInv'
  <2>1. UNCHANGED lock /\ turn = t /\ th[t].pc = "fail" /\ th[t].task = "none"
    BY <1>15, <1>f DEF Fail, At, Sends
  <2>2. receiving = t
    BY <1>0, <2>1 DEF MutexInv, ReadersInv, Readers
  <2>3. \/ turn' = t
        \/ \E r \in DOMAIN receivers : turn' = receivers[r]
    BY <1>15, <2>1 DEF Fail, notifyreceived
  <2>4. \/ turn' = t
        \/ turn' \in Thread /\ th[turn'].pc = "recvwait" /\ turn' # receiving
    BY <2>1, <2>2, <2>3, <1>0 DEF MutexInv, ReceiversInv
  <2>5. /\ \A u \in Thread : u # t => th'[u] = th[u]
        /\ th'[t].task = "none" /\ th'[t].pc \in {"fail", "freereceive"}
    BY <1>15, <2>1, <1>h DEF Fail, Goes
  <2> QED BY <1>0, <2>1, <2>4, <2>5, RolesKept
<1>16. ASSUME NEW t \in Thread, Received(t) PROVE MutexInv'
  <2>1. /\ turn = t /\ th[t].pc = "freereceive" /\ freereceive(t, Outcome(t))
        /\ th' = [th EXCEPT ![t] = Outcome(t)] /\ UNCHANGED <<sending, senders, receivers>>
    BY <1>16 DEF Received, At
  <2>2. Outcome(t).task = "none" /\ Outcome(t).pc \in {"out", "handler"}
    BY DEF Outcome, Idle
  <2> QED BY <1>0, <2>1, <2>2, FreereceiveKept
<1>17. ASSUME NEW t \in Thread, forward(t) PROVE MutexInv'
  <2>1. /\ turn = t /\ th[t].pc = "handler" /\ th[t].task = "none"
        /\ UNCHANGED <<sending, senders>>
    BY <1>17, <1>f DEF forward, At, Sends
  <2>2. CASE /\ th' = [th EXCEPT ![t] = Idle] /\ turn' = Nobody
             /\ UNCHANGED <<receiving, receivers>>
    <3>1. /\ \A u \in Thread : u # t => th'[u] = th[u]
          /\ th'[t].task = "none" /\ th'[t].pc = "out"
      BY <2>2, <1>h, <1>i
    <3> QED BY <1>0, <2>1, <2>2, <3>1, RolesKept
  <2>3. CASE lockreceive(t, th[t])
    <3>1. \A u \in Thread : u # t /\ th[u].pc = "recvwait" => th[u].hand # th[t].hand
      BY <1>h, <2>1 DEF Fine, Reads
    <3> QED BY <1>0, <1>h, <2>1, <2>3, <3>1, LockreceiveKept
  <2> QED BY <2>2, <2>3, <1>17 DEF forward
<1>18. ASSUME NEW t \in Thread, Execute(t) \/ ExecuteDead(t) PROVE MutexInv'
  <2>1. UNCHANGED lock /\ UNCHANGED th /\ turn = Nobody /\ turn' = t
    BY <1>18 DEF Execute, ExecuteDead
  <2>2. th[t].pc \notin {"sendwait", "recvwait"}
    BY <1>18, <1>h DEF Execute, ExecuteDead, Fine
  <2> QED BY <1>0, <2>1, <2>2, RolesKept
<1>19. ASSUME Answer \/ PeerFails PROVE MutexInv'
  <2>1. UNCHANGED <<turn, th, lock>>
    BY <1>19 DEF Answer, PeerFails
  <2> QED BY <1>0, <2>1 DEF MutexInv, SendersInv, ReadersInv, QueueInv, ReceiversInv,
             Senders, Readers, Waiting, At
<1> QED BY <1>1, <1>2, <1>3, <1>4, <1>5, <1>6, <1>7, <1>8, <1>9, <1>10, <1>11, <1>12,
       <1>13, <1>14, <1>15, <1>16, <1>17, <1>18, <1>19 DEF Next, Step

-----------------------------------------------------------------------------
(* What is registered *)

\* The requests are told at most that they failed, or that they are forwarded.
RequestsKeep ==
    /\ DOMAIN request' = DOMAIN request
    /\ \A r \in DOMAIN request :
          /\ request'[r].id = request[r].id /\ request'[r].reply = request[r].reply
          /\ request'[r].success = "oneway" <=> request[r].success = "oneway"
          /\ request'[r].success = "nil" /\ ~request'[r].forwarded
                => request[r].success = "nil" /\ ~request[r].forwarded
          /\ request[r].success \in {"nil", "false"}
                => request'[r].success \in {"nil", "false"}

QuietStep(t) ==
    \/ invoke(t) \/ SendNotified(t) \/ SendBlocks(t) \/ Sent(t) \/ receivefrom(t)
    \/ ReceiveNotified(t) \/ ReceiveBlocks(t) \/ reissue(t) \/ Fail(t) \/ Received(t)
    \/ forward(t) \/ Execute(t) \/ ExecuteDead(t)

(* Most steps of a thread leave the connection and what is registered alone. *)
LEMMA Quiet ==
  ASSUME IInv, NEW t \in Thread, QuietStep(t)
  PROVE  UNCHANGED <<channel, conn, doubled>> /\ RequestsKeep
<1>0. /\ DataTypes /\ LockTypes /\ ThreadInv /\ ChannelInv /\ TaskInv
  BY DEF IInv, TypeInv
<1> USE DEF lock, history
<1>r. \A r \in DOMAIN request :
         DOMAIN request[r] = {"owner", "held", "id", "success", "reply", "forwarded"}
  <2>1. \A r \in DOMAIN request : request[r] \in Request
    BY <1>0 DEF DataTypes
  <2>2. \A x \in Request :
           DOMAIN x = {"owner", "held", "id", "success", "reply", "forwarded"}
    BY DEF Request
  <2> QED BY <2>1, <2>2
<1>1. UNCHANGED <<channel, conn, doubled>>
  BY DEF QuietStep, invoke, SendNotified, SendBlocks, Sent, receivefrom, ReceiveNotified,
         ReceiveBlocks, reissue, Fail, Received, forward, Execute, ExecuteDead
<1>2. UNCHANGED request => RequestsKeep
  BY DEF RequestsKeep
<1>3. CASE Sent(t)
  <2>1. \/ UNCHANGED request
        \/ request' = [request EXCEPT ![th[t].msg].held = FALSE]
    BY <1>3 DEF Sent
  <2>2. ASSUME request' = [request EXCEPT ![th[t].msg].held = FALSE] PROVE RequestsKeep
    BY <2>2, <1>r DEF RequestsKeep
  <2> QED BY <1>1, <1>2, <2>1, <2>2
<1>4. CASE Fail(t)
  <2>1. ASSUME NEW id \in th[t].todo,
               request' = [request EXCEPT ![channel[id]].success = "false"]
        PROVE  RequestsKeep
    <3>1. /\ channel[id] \in DOMAIN request
          /\ request[channel[id]].success \in {"nil", "false"}
      BY <1>0, <1>4 DEF Fail, At, TaskInv, Tasked, Traversing, ChannelInv
    <3> QED BY <2>1, <3>1, <1>r DEF RequestsKeep
  <2> QED BY <1>1, <1>2, <1>4, <2>1 DEF Fail
<1>5. CASE forward(t)
  <2> DEFINE r == th[t].hand
  <2>1. r \in DOMAIN request /\ request[r].success # "oneway"
    BY <1>0, <1>5 DEF forward, At, ThreadInv, Fine, TaskInv, Tasked, Reads
  <2>2. \/ request' = [request EXCEPT ![r].success = "nil", ![r].forwarded = TRUE]
        \/ request' = [request EXCEPT ![r].success = "false"]
    BY <1>5 DEF forward
  <2> HIDE DEF r
  <2>3. CASE request' = [request EXCEPT ![r].success = "nil", ![r].forwarded = TRUE]
    <3>1. /\ DOMAIN request' = DOMAIN request
          /\ request'[r].success = "nil" /\ request'[r].forwarded = TRUE
          /\ request'[r].id = request[r].id /\ request'[r].reply = request[r].reply
          /\ \A q \in DOMAIN request : q # r => request'[q] = request[q]
      BY <2>1, <2>3, <1>r
    <3> QED BY <1>1, <2>1, <3>1 DEF RequestsKeep
  <2>4. CASE request' = [request EXCEPT ![r].success = "false"]
    <3>1. /\ DOMAIN request' = DOMAIN request /\ request'[r].success = "false"
          /\ request'[r].id = request[r].id /\ request'[r].reply = request[r].reply
          /\ \A q \in DOMAIN request : q # r => request'[q] = request[q]
      BY <2>1, <2>4, <1>r
    <3> QED BY <1>1, <2>1, <3>1 DEF RequestsKeep
  <2> QED BY <1>1, <2>2, <2>3, <2>4
<1>6. CASE UNCHANGED request
  BY <1>1, <1>2, <1>6
<1> QED BY <1>3, <1>4, <1>5, <1>6
        DEF QuietStep, invoke, SendNotified, SendBlocks, receivefrom, ReceiveNotified,
         ReceiveBlocks, reissue, Received, Execute, ExecuteDead

(* A new identifier is nobody's.                                            *)
LEMMA NewIdentifier ==
  ASSUME ChannelInv, DataTypes, NEW id \in 1..MaxRequests, NEW r, register(r, id)
  PROVE  /\ id \notin DOMAIN channel /\ id # 0
         /\ DOMAIN channel' = DOMAIN channel \cup {id} /\ channel'[id] = r
         /\ \A k \in DOMAIN channel : channel'[k] = channel[k]
<1>1. id \in Int /\ id # 0 /\ id - 1 + 1 = id
  OBVIOUS
<1>2. id \notin DOMAIN channel
  BY <1>1 DEF register, Borders
<1> QED BY <1>1, <1>2 DEF register, With

(* A new request is the next, and is registered unless it is oneway.        *)
LEMMA NewRequestEffect ==
  ASSUME IInv, NEW t \in Thread, newrequest(t)
  PROVE  LET r == Len(request) + 1
         IN  /\ r \in Nat \ {0} /\ r \notin DOMAIN request
             /\ DOMAIN request' = DOMAIN request \cup {r}
             /\ \A q \in DOMAIN request : request'[q] = request[q]
             /\ request'[r].reply = 0
             /\ UNCHANGED <<conn, doubled>>
             /\ \/ UNCHANGED channel /\ request'[r].success = "oneway"
                \/ /\ request'[r].success = "nil" /\ request'[r].id \notin DOMAIN channel
                   /\ DOMAIN channel' = DOMAIN channel \cup {request'[r].id}
                   /\ channel'[request'[r].id] = r
                   /\ \A k \in DOMAIN channel : channel'[k] = channel[k]
<1> DEFINE r == Len(request) + 1
           new == [owner |-> t, held |-> TRUE, id |-> 0, success |-> "nil", reply |-> 0,
                   forwarded |-> FALSE]
<1>0. DataTypes /\ ChannelInv
  BY DEF IInv, TypeInv
<1>1. DOMAIN request = 1..Len(request) /\ Len(request) \in Nat /\ request \in Seq(Request)
  BY <1>0 DEF DataTypes
<1>2. \A x : request' = Append(request, x) =>
           /\ DOMAIN request' = DOMAIN request \cup {r} /\ r \notin DOMAIN request
           /\ request'[r] = x
           /\ \A q \in DOMAIN request : request'[q] = request[q]
  BY <1>1
<1>3. UNCHANGED <<conn, doubled>> /\ r \in Nat \ {0}
  BY <1>1 DEF newrequest
<1>4. CASE /\ request' = Append(request, [new EXCEPT !.success = "oneway"])
           /\ UNCHANGED channel
  BY <1>2, <1>3, <1>4
<1>5. ASSUME NEW id \in 1..MaxRequests, register(r, id),
             request' = Append(request, [new EXCEPT !.id = id])
      PROVE  /\ r \notin DOMAIN request
             /\ DOMAIN request' = DOMAIN request \cup {r}
             /\ \A q \in DOMAIN request : request'[q] = request[q]
             /\ request'[r].reply = 0
             /\ request'[r].success = "nil" /\ request'[r].id \notin DOMAIN channel
             /\ DOMAIN channel' = DOMAIN channel \cup {request'[r].id}
             /\ channel'[request'[r].id] = r
             /\ \A k \in DOMAIN channel : channel'[k] = channel[k]
  <2>1. /\ request'[r].id = id /\ request'[r].success = "nil" /\ request'[r].reply = 0
        /\ DOMAIN request' = DOMAIN request \cup {r} /\ r \notin DOMAIN request
        /\ \A q \in DOMAIN request : request'[q] = request[q]
    BY <1>2, <1>5
  <2> HIDE DEF r, new
  <2>2. /\ id \notin DOMAIN channel /\ channel'[id] = r
        /\ DOMAIN channel' = DOMAIN channel \cup {id}
        /\ \A k \in DOMAIN channel : channel'[k] = channel[k]
    BY <1>0, <1>5, NewIdentifier
  <2> QED BY <2>1, <2>2
<1>6. \/ /\ request' = Append(request, [new EXCEPT !.success = "oneway"])
         /\ UNCHANGED channel
      \/ \E id \in 1..MaxRequests :
            register(r, id) /\ request' = Append(request, [new EXCEPT !.id = id])
  BY DEF newrequest
<1> HIDE DEF new
<1> QED BY <1>3, <1>4, <1>5, <1>6

\* What a step does that takes reply m from the wire.
Taken(m) ==
    LET r == channel[m.id]
    IN  /\ m.id \in DOMAIN channel
        /\ m.r \in conn.posted /\ m.id = request[m.r].id
        /\ m.status \in {"true", "forward"}
        /\ r \in DOMAIN request /\ request[r].id = m.id
        /\ DOMAIN request' = DOMAIN request
        /\ request'[r].success = m.status /\ request'[r].reply = m.r
        /\ request'[r].id = m.id
        /\ \A q \in DOMAIN request : q # r => request'[q] = request[q]
        /\ DOMAIN channel' = DOMAIN channel \ {m.id}
        /\ \A k \in DOMAIN channel' : channel'[k] = channel[k] /\ channel[k] # r
        /\ conn'.sent = conn.sent /\ conn'.posted = conn.posted
        /\ conn'.wire = conn.wire (-) SetToBag({m})
        /\ UNCHANGED doubled

(* A reply is taken from the wire, for the request that is registered under *)
(* its identifier, and that one is registered no longer.                    *)
LEMMA ReplyEffect ==
  ASSUME IInv, NEW t \in Thread, ReceiveReply(t)
  PROVE  \E m \in DOMAIN conn.wire : Taken(m)
<1>0. DataTypes /\ ChannelInv /\ WireInv
  BY DEF IInv, TypeInv
<1>1. PICK m \in DOMAIN conn.wire :
         /\ m.id \in DOMAIN channel /\ unregister(m.id)
         /\ request' = [request EXCEPT ![channel[m.id]].success = m.status,
                                       ![channel[m.id]].reply = m.r]
         /\ conn' = [conn EXCEPT !.wire = @ (-) SetToBag({m})]
  BY DEF ReceiveReply, BagToSet
<1>2. m.r \in conn.posted /\ m.id = request[m.r].id /\ m.status \in {"true", "forward"}
  <2>1. m.id # 0
    BY <1>1, <1>0 DEF DataTypes
  <2> QED BY <2>1, <1>0 DEF WireInv, Error
<1> DEFINE r == channel[m.id]
<1>3. r \in DOMAIN request /\ request[r].id = m.id
  BY <1>1, <1>0 DEF ChannelInv
<1>4. /\ DOMAIN request' = DOMAIN request
      /\ request'[r].success = m.status /\ request'[r].reply = m.r
      /\ request'[r].id = request[r].id
      /\ \A q \in DOMAIN request : q # r => request'[q] = request[q]
  <2>1. DOMAIN request[r] = {"owner", "held", "id", "success", "reply", "forwarded"}
    <3>1. request[r] \in Request
      BY <1>3, <1>0 DEF DataTypes
    <3> HIDE DEF r
    <3> QED BY <3>1 DEF Request
  <2>2. request' = [request EXCEPT ![r] = [@ EXCEPT !.success = m.status, !.reply = m.r]]
    BY <1>1
  <2> HIDE DEF r
  <2> QED BY <1>3, <2>1, <2>2
<1>5. DOMAIN channel' = DOMAIN channel \ {m.id}
      /\ \A k \in DOMAIN channel' : channel'[k] = channel[k]
  BY <1>1 DEF unregister, Without
<1>6. \A k \in DOMAIN channel' : channel[k] # r
  BY <1>3, <1>5, <1>0 DEF ChannelInv
<1>7. /\ conn'.sent = conn.sent /\ conn'.posted = conn.posted
      /\ conn'.wire = conn.wire (-) SetToBag({m})
  BY <1>1, <1>0 DEF DataTypes, ConnType
<1>8. UNCHANGED doubled
  BY DEF ReceiveReply, history
<1> HIDE DEF r
<1>9. Taken(m)
  BY <1>1, <1>2, <1>3, <1>4, <1>5, <1>6, <1>7, <1>8 DEF r, Taken
<1> QED BY <1>9

(* What is registered leads to its request and has no outcome, and what has *)
(* none is registered.                                                     *)
LEMMA ChannelKept == ASSUME IInv, Next PROVE ChannelInv'
<1>0. ChannelInv
  BY DEF IInv
<1> USE DEF lock, history
<1>1. ASSUME NEW t \in Thread, QuietStep(t) PROVE ChannelInv'
  BY <1>0, <1>1, Quiet DEF ChannelInv, PendingIsRegistered, RequestsKeep
<1>2. ASSUME UNCHANGED <<request, channel>> PROVE ChannelInv'
  BY <1>0, <1>2 DEF ChannelInv, PendingIsRegistered
<1>3. ASSUME NEW t \in Thread, newrequest(t) PROVE ChannelInv'
  BY <1>0, <1>3, NewRequestEffect DEF ChannelInv, PendingIsRegistered
<1>4. ASSUME NEW t \in Thread, ReceiveReply(t) PROVE ChannelInv'
  <2>1. PICK m \in DOMAIN conn.wire : Taken(m)
    BY <1>4, ReplyEffect
  <2> QED BY <1>0, <2>1 DEF Taken, ChannelInv, PendingIsRegistered
<1> QED BY <1>1, <1>2, <1>3, <1>4
        DEF Next, Step, QuietStep, SendDone, SendClosed, ReceiveWrong, ReceiveClosed,
            Answer, PeerFails

(* A step of a thread leaves the states of the others, but for the           *)
(* traversals that a new request disturbs.                                 *)
LEMMA OthersStay ==
  ASSUME LockTypes, NEW t \in Thread, NEW u \in Thread, u # t,
         QuietStep(t) \/ SendDone(t) \/ SendClosed(t) \/ ReceiveReply(t) \/ ReceiveWrong(t)
            \/ ReceiveClosed(t)
  PROVE  th'[u] = th[u]
<1>1. DOMAIN th = Thread
  BY DEF LockTypes
<1>2. ASSUME NEW next, locksend(t, next) \/ lockreceive(t, next) PROVE th'[u] = th[u]
  BY <1>1, <1>2 DEF locksend, lockreceive
<1>3. CASE invoke(t) \/ receivefrom(t) \/ forward(t) \/ reissue(t)
  BY <1>1, <1>2, <1>3 DEF invoke, receivefrom, forward, reissue, Goes
<1>4. CASE \/ SendNotified(t) \/ SendBlocks(t) \/ Sent(t) \/ ReceiveNotified(t)
           \/ ReceiveBlocks(t) \/ Fail(t) \/ Received(t) \/ Execute(t) \/ ExecuteDead(t)
  BY <1>1, <1>4 DEF SendNotified, SendBlocks, Sent, ReceiveNotified, ReceiveBlocks, Fail,
                    Received, Execute, ExecuteDead, Goes
<1>5. CASE SendDone(t) \/ SendClosed(t) \/ ReceiveReply(t) \/ ReceiveWrong(t)
           \/ ReceiveClosed(t)
  BY <1>1, <1>5 DEF SendDone, SendClosed, ReceiveReply, ReceiveWrong, ReceiveClosed
<1> QED BY <1>3, <1>4, <1>5 DEF QuietStep

(* Whoever keeps what it has in hand is not disturbed by a quiet step.       *)
LEMMA StillTasked ==
  ASSUME IInv, NEW u \in Thread, UNCHANGED <<channel, conn, doubled>>, RequestsKeep,
         SameBut(th'[u], th[u]), th'[u].pc = th[u].pc
  PROVE  Tasked(u)'
<1>1. Tasked(u) /\ Fine(u, th[u])
  BY DEF IInv, TaskInv, ThreadInv
<1> QED BY <1>1 DEF Tasked, Fine, Traversing, Registered, RequestsKeep, SameBut, SameTask,
                    Sends, Reads

(* A quiet step leaves a thread with a task that is in order.               *)
LEMMA QuietTask == ASSUME IInv, NEW t \in Thread, QuietStep(t) PROVE Tasked(t)'
<1>0. /\ LockTypes /\ DataTypes /\ ThreadInv /\ ChannelInv
      /\ Tasked(t) /\ Fine(t, th[t])
      /\ UNCHANGED <<channel, conn, doubled>> /\ RequestsKeep
  BY Quiet DEF IInv, TypeInv, TaskInv, ThreadInv
<1> USE DEF lock, history, Fields
<1>h. DOMAIN th = Thread /\ DOMAIN th[t] = Fields
      /\ th[t].task \in {"none", "new", "reissue"}
  BY <1>0 DEF LockTypes, ThreadState
<1>i. /\ DOMAIN Idle = Fields /\ Idle.task = "none" /\ Idle.pc = "out"
  BY DEF Idle
<1>n. ASSUME th'[t].task = "none", th'[t].pc \in {"receive", "recvwait", "handler",
                                                  "freereceive", "out"},
             th'[t].pc # "out" => /\ th'[t].hand \in DOMAIN request
                                  /\ request[th'[t].hand].success # "oneway"
      PROVE  Tasked(t)'
  BY <1>n, <1>0 DEF Tasked, Traversing, Reads, RequestsKeep
<1>g. \/ th[t].pc \in Reads
      \/ th[t].task = "reissue"
      => th[t].hand \in DOMAIN request /\ request[th[t].hand].success # "oneway"
  BY <1>0 DEF Fine, Tasked
<1>o. th[t].pc \in Reads =>
         /\ Outcome(t).task = "none" /\ Outcome(t).pc \in {"out", "handler"}
         /\ Outcome(t).pc # "out" => /\ Outcome(t).hand \in DOMAIN request
                                     /\ request[Outcome(t).hand].success # "oneway"
  BY <1>g DEF Outcome, Idle
<1>1. CASE invoke(t)
  <2> DEFINE next == [Idle EXCEPT !.task = "new"]
  <2>1. DOMAIN next = Fields /\ next.task = "new"
    BY DEF Idle
  <2>2. locksend(t, next)
    BY <1>1 DEF invoke
  <2> HIDE DEF next
  <2>3. th'[t].task = "new" /\ th'[t].pc \in {"sendwait", "newrequest"}
    BY <2>1, <2>2, <1>h, LockStates DEF SameBut, SameTask
  <2> QED BY <2>3 DEF Tasked, Traversing, Reads
<1>2. CASE SendNotified(t)
  <2>1. th'[t] = Locked(th[t]) /\ th[t].pc = "sendwait"
    BY <1>2, <1>h DEF SendNotified, At
  <2>2. SameBut(th'[t], th[t])
        /\ th'[t].pc = IF th[t].task = "new" THEN "newrequest" ELSE "send"
    BY <2>1, <1>h, LockStates
  <2>3. th[t].task \in {"new", "reissue"}
    BY <2>1, <1>h, <1>0 DEF Fine, Sends
  <2>4. UNCHANGED request
    BY <1>2 DEF SendNotified
  <2> QED BY <2>1, <2>2, <2>3, <2>4, <1>0
          DEF Tasked, Traversing, Registered, Reads, SameBut, SameTask
<1>3. CASE SendBlocks(t)
  <2>1. /\ th'[t].pc = th[t].pc /\ th'[t].task = th[t].task /\ th'[t].msg = th[t].msg /\ th'[t].hand = th[t].hand
        /\ th'[t].todo = th[t].todo /\ UNCHANGED request /\ th[t].pc = "send"
    BY <1>3, <1>h DEF SendBlocks, At
  <2> QED BY <2>1, <1>0 DEF Tasked, Traversing, Registered, Reads
<1>4. CASE Sent(t)
  <2>1. th[t].pc = "freesend" /\ th[t].task \in {"new", "reissue"}
    BY <1>4, <1>h, <1>0 DEF Sent, At, Fine, Sends
  <2>2. CASE th[t].task = "new"
    <3>1. th'[t] = Idle
      BY <2>2, <1>4, <1>h DEF Sent
    <3> QED BY <3>1, <1>i, <1>n
  <2>3. CASE th[t].task # "new"
    <3>1. /\ th'[t].task = "none" /\ th'[t].hand = th[t].hand
          /\ th'[t].pc \in {"reissue", "fail"}
          /\ th'[t].todo \in {th[t].todo, DOMAIN channel}
      BY <2>3, <1>4, <1>h DEF Sent, Idle
    <3>2. th[t].todo \subseteq DOMAIN channel
      BY <2>1, <2>3, <1>0 DEF Tasked, Traversing
    <3> QED BY <3>1, <3>2, <2>1, <2>3, <1>0, <1>g DEF Tasked, Traversing, Reads, RequestsKeep
  <2> QED BY <2>2, <2>3
<1>5. CASE receivefrom(t)
  <2>1. PICK r \in DOMAIN request, probe \in {FALSE, (t \in Pollers)} :
           LET next == [Idle EXCEPT !.hand = r, !.probe = probe]
           IN  \/ request[r].success = "nil" /\ lockreceive(t, next)
               \/ /\ request[r].success = "forward"
                  /\ th' = [th EXCEPT ![t] = [next EXCEPT !.pc = "handler"]]
    BY <1>5, Zenon DEF receivefrom
  <2> DEFINE next == [Idle EXCEPT !.hand = r, !.probe = probe]
  <2>2. DOMAIN next = Fields /\ next.task = "none" /\ next.hand = r
    BY DEF Idle
  <2>3. \/ request[r].success = "nil" /\ lockreceive(t, next)
        \/ /\ request[r].success = "forward"
           /\ th' = [th EXCEPT ![t] = [next EXCEPT !.pc = "handler"]]
    BY <2>1
  <2> HIDE DEF next
  <2>4. /\ th'[t].task = "none" /\ th'[t].hand = r
        /\ th'[t].pc \in {"receive", "recvwait", "handler"}
    <3>1. CASE lockreceive(t, next)
      BY <3>1, <2>2, <1>h, LockStates DEF SameBut, SameTask
    <3>2. CASE th' = [th EXCEPT ![t] = [next EXCEPT !.pc = "handler"]]
      BY <3>2, <2>2, <1>h
    <3> QED BY <2>3, <3>1, <3>2
  <2> QED BY <2>3, <2>4, <1>n
<1>6. CASE ReceiveNotified(t)
  <2>1. /\ th[t].pc = "recvwait"
        /\ th'[t] \in {[th[t] EXCEPT !.pc = "receive"], Outcome(t)}
    BY <1>6, <1>h DEF ReceiveNotified, At
  <2>2. th[t].task = "none"
    BY <2>1, <1>0 DEF Fine, Sends
  <2> QED BY <2>1, <2>2, <1>g, <1>h, <1>o, <1>n DEF Reads
<1>7. CASE ReceiveBlocks(t)
  <2>1. th[t].pc = "receive" /\ th'[t].task = th[t].task /\ th'[t].hand = th[t].hand
        /\ th'[t].pc \in {"receive", "freereceive"}
    BY <1>7, <1>h DEF ReceiveBlocks, At, Goes
  <2>2. th[t].task = "none"
    BY <2>1, <1>0 DEF Fine, Sends
  <2> QED BY <2>1, <2>2, <1>g, <1>n DEF Reads
<1>8. CASE reissue(t)
  <2>1. th[t].pc = "reissue" /\ th[t].task = "none" /\ UNCHANGED request
    BY <1>8, <1>0 DEF reissue, At, Fine, Sends
  <2>2. CASE Goes(t, "receive")
    <3>1. th'[t].pc = "receive" /\ th'[t].task = "none" /\ th'[t].hand = th[t].hand
      BY <2>1, <2>2, <1>h DEF Goes
    <3> QED BY <2>1, <3>1, <1>g, <1>n DEF Reads
  <2>3. ASSUME NEW id \in th[t].todo,
               locksend(t, [th[t] EXCEPT !.task = "reissue", !.msg = channel[id],
                                         !.todo = @ \ {id}])
        PROVE  Tasked(t)'
    <3> DEFINE next == [th[t] EXCEPT !.task = "reissue", !.msg = channel[id],
                                     !.todo = @ \ {id}]
    <3>1. /\ DOMAIN next = Fields /\ next.task = "reissue" /\ next.msg = channel[id]
          /\ next.hand = th[t].hand /\ next.todo = th[t].todo \ {id}
      BY <1>h
    <3>2. locksend(t, next)
      BY <2>3
    <3> HIDE DEF next
    <3>3. SameBut(th'[t], next) /\ th'[t].pc \in {"sendwait", "send"}
      BY <3>1, <3>2, <1>h, LockStates
    <3>4. th[t].todo \subseteq DOMAIN channel
      BY <2>1, <1>0 DEF Tasked, Traversing
    <3>5. Registered(channel[id])
      BY <3>4, <1>0 DEF ChannelInv, Registered
    <3> QED BY <2>1, <3>1, <3>3, <3>4, <3>5, <1>0, <1>g
            DEF Tasked, Traversing, Registered, Reads, SameBut, SameTask
  <2> QED BY <2>2, <2>3, <1>8 DEF reissue
<1>9. CASE Fail(t)
  <2>1. th[t].pc = "fail" /\ th[t].task = "none"
    BY <1>9, <1>0 DEF Fail, At, Fine, Sends
  <2>2. CASE Goes(t, "freereceive")
    <3>1. th'[t].pc = "freereceive" /\ th'[t].task = "none" /\ th'[t].hand = th[t].hand
      BY <2>1, <2>2, <1>h DEF Goes
    <3> QED BY <2>1, <3>1, <1>g, <1>n DEF Reads
  <2>3. ASSUME NEW id \in th[t].todo, th' = [th EXCEPT ![t].todo = @ \ {id}]
        PROVE  Tasked(t)'
    <3>1. /\ th'[t].pc = "fail" /\ th'[t].task = "none" /\ th'[t].hand = th[t].hand
          /\ th'[t].todo = th[t].todo \ {id}
      BY <2>1, <2>3, <1>h
    <3>2. th[t].todo \subseteq DOMAIN channel
      BY <2>1, <1>0 DEF Tasked, Traversing
    <3> QED BY <2>1, <3>1, <3>2, <1>0, <1>g DEF Tasked, Traversing, Reads, RequestsKeep
  <2> QED BY <2>2, <2>3, <1>9 DEF Fail
<1>10. CASE Received(t)
  <2>1. th[t].pc = "freereceive" /\ th'[t] = Outcome(t)
    BY <1>10, <1>h DEF Received, At
  <2> QED BY <2>1, <1>o, <1>n DEF Reads
<1>11. CASE forward(t)
  <2>1. th[t].pc = "handler" /\ th[t].task = "none"
    BY <1>11, <1>0 DEF forward, At, Fine, Sends
  <2>2. CASE th' = [th EXCEPT ![t] = Idle]
    BY <2>2, <1>h, <1>i, <1>n
  <2>3. CASE lockreceive(t, th[t])
    <3>1. /\ th'[t].task = "none" /\ th'[t].hand = th[t].hand
          /\ th'[t].pc \in {"receive", "recvwait"}
      BY <2>1, <2>3, <1>h, LockStates DEF SameBut, SameTask
    <3> QED BY <2>1, <3>1, <1>g, <1>n DEF Reads
  <2> QED BY <2>2, <2>3, <1>11 DEF forward
<1>12. CASE Execute(t) \/ ExecuteDead(t)
  <2>1. UNCHANGED th
    BY <1>12 DEF Execute, ExecuteDead
  <2> QED BY <2>1, <1>0, StillTasked DEF SameBut, SameTask
<1> QED BY <1>1, <1>2, <1>3, <1>4, <1>5, <1>6, <1>7, <1>8, <1>9, <1>10, <1>11, <1>12
        DEF QuietStep

(* Whoever waits to send, or neither sends nor reads, is not disturbed.      *)
LEMMA AloneTasked ==
  ASSUME IInv, NEW u \in Thread, th'[u] = th[u], UNCHANGED <<request, channel>>,
         doubled => doubled',
         th[u].pc = "send" => conn'.posted \subseteq conn.posted
  PROVE  Tasked(u)'
<1>1. Tasked(u)
  BY DEF IInv, TaskInv
<1> QED BY <1>1 DEF Tasked, Traversing, Registered, Reads

(* No step leaves a thread with a task that is out of order.                *)
LEMMA TaskKept == ASSUME IInv, Next PROVE TaskInv'
<1>0. /\ LockTypes /\ DataTypes /\ ThreadInv /\ MutexInv /\ ChannelInv /\ WireInv /\ TaskInv
      /\ ReplyInv
  BY DEF IInv, TypeInv
<1> USE OilClientAssumption DEF lock, history, Fields
<1>h. /\ DOMAIN th = Thread
      /\ \A t \in Thread : /\ DOMAIN th[t] = Fields /\ Fine(t, th[t]) /\ Tasked(t)
                           /\ th[t].task \in {"none", "new", "reissue"}
  BY <1>0 DEF LockTypes, ThreadState, ThreadInv, TaskInv
<1>f. \A t \in Thread : th[t].pc \notin Sends => th[t].task = "none"
  BY <1>h DEF Fine
<1>p. ConnType /\ conn.posted \subseteq DOMAIN request
  BY <1>0 DEF DataTypes, WireInv
<1>c. /\ conn' = Connected(conn.socket + 1) => conn'.posted \subseteq conn.posted
      /\ conn' = [conn EXCEPT !.state = "closed", !.wire = EmptyBag, !.sent = EmptyBag]
         => conn'.posted \subseteq conn.posted
  <2>1. conn' = Connected(conn.socket + 1) => conn'.posted \subseteq conn.posted
    BY DEF Connected
  <2>2. ASSUME conn' = [conn EXCEPT !.state = "closed", !.wire = EmptyBag, !.sent = EmptyBag]
        PROVE  conn'.posted \subseteq conn.posted
    BY <2>2, <1>p DEF ConnType
  <2> QED BY <2>1, <2>2
<1>1. ASSUME NEW t \in Thread, QuietStep(t) PROVE TaskInv'
  <2>1. ASSUME NEW u \in Thread, u # t PROVE Tasked(u)'
    <3>1. th'[u] = th[u]
      BY <1>0, <1>1, <2>1, OthersStay
    <3> QED BY <3>1, <1>1, Quiet, StillTasked DEF SameBut, SameTask
  <2> QED BY <1>1, <2>1, QuietTask DEF TaskInv
<1>2. ASSUME NEW t \in Thread, newrequest(t) PROVE TaskInv'
  <2>r. PICK r : r = Len(request) + 1
    OBVIOUS
  <2>1. /\ r \notin DOMAIN request /\ DOMAIN request' = DOMAIN request \cup {r}
        /\ \A q \in DOMAIN request : request'[q] = request[q]
        /\ UNCHANGED <<conn, doubled>>
        /\ DOMAIN channel \subseteq DOMAIN channel'
        /\ \A k \in DOMAIN channel : channel'[k] = channel[k]
        /\ request'[r].success = "oneway" \/ Registered(r)'
    <3>1. /\ r \notin DOMAIN request /\ DOMAIN request' = DOMAIN request \cup {r}
          /\ \A q \in DOMAIN request : request'[q] = request[q]
          /\ UNCHANGED <<conn, doubled>>
          /\ \/ UNCHANGED channel /\ request'[r].success = "oneway"
             \/ /\ DOMAIN channel' = DOMAIN channel \cup {request'[r].id}
                /\ channel'[request'[r].id] = r
                /\ \A k \in DOMAIN channel : channel'[k] = channel[k]
      BY <1>2, <2>r, NewRequestEffect
    <3>2. CASE UNCHANGED channel /\ request'[r].success = "oneway"
      BY <3>1, <3>2
    <3>3. CASE /\ DOMAIN channel' = DOMAIN channel \cup {request'[r].id}
               /\ channel'[request'[r].id] = r
               /\ \A k \in DOMAIN channel : channel'[k] = channel[k]
      BY <3>1, <3>3 DEF Registered
    <3> QED BY <3>1, <3>2, <3>3
  <2> DEFINE sends == [th[t] EXCEPT !.pc = "send", !.msg = r]
  <2>s. \/ UNCHANGED channel /\ th' = [th EXCEPT ![t] = sends]
        \/ \E visits \in SUBSET DOMAIN channel' :
              th' = [v \in Thread |->
                        IF v = t THEN sends
                        ELSE IF Traversing(v) THEN [th[v] EXCEPT !.todo = visits]
                        ELSE th[v]]
    BY <1>2, <2>r DEF newrequest
  <2>2. /\ th'[t].pc = "send" /\ th'[t].task = "new" /\ th'[t].msg = r
    <3>1. th'[t] = sends
      BY <2>s, <1>h
    <3>2. th[t].task = "new"
      BY <1>2, <1>h DEF newrequest, At, Fine
    <3> QED BY <3>1, <3>2, <1>h
  <2>3. Tasked(t)'
    <3>1. r \notin conn'.posted
      BY <2>1, <1>p
    <3> QED BY <2>1, <2>2, <3>1 DEF Tasked, Traversing, Reads
  <2>4. ASSUME NEW u \in Thread, u # t PROVE Tasked(u)'
    <3>1. SameTask(th'[u], th[u]) /\ th'[u].pc = th[u].pc
      BY <1>2, <1>h, <2>4 DEF newrequest, SameTask
    <3>2. Traversing(u) => th'[u].todo \subseteq DOMAIN channel'
      <4>1. CASE UNCHANGED channel /\ th' = [th EXCEPT ![t] = sends]
        BY <4>1, <1>h, <2>4 DEF Tasked
      <4>2. ASSUME NEW visits \in SUBSET DOMAIN channel',
                   th' = [v \in Thread |->
                            IF v = t THEN sends
                            ELSE IF Traversing(v) THEN [th[v] EXCEPT !.todo = visits]
                            ELSE th[v]]
            PROVE  Traversing(u) => th'[u].todo \subseteq DOMAIN channel'
        BY <4>2, <1>h, <2>4
      <4> QED BY <2>s, <4>1, <4>2
    <3>3. /\ th[u].pc \in Reads \/ th[u].task = "reissue" => th[u].hand \in DOMAIN request
          /\ th[u].pc = "send" => th[u].msg \in DOMAIN request
      BY <1>h DEF Fine
    <3>4. \A q : Registered(q) /\ q \in DOMAIN request => Registered(q)'
      BY <2>1 DEF Registered
    <3>5. th[u].task = "reissue" => th[u].msg \in DOMAIN request
      BY <1>h DEF Fine
    <3>6. Traversing(u)' <=> Traversing(u)
      BY <3>1 DEF Traversing, SameTask
    <3> QED BY <2>1, <3>1, <3>2, <3>3, <3>4, <3>5, <3>6, <1>h DEF Tasked, SameTask
  <2> QED BY <2>3, <2>4 DEF TaskInv
<1>3. ASSUME NEW t \in Thread, SendDone(t) PROVE TaskInv'
  <2>1. /\ th[t].pc = "send" /\ UNCHANGED <<request, channel>>
        /\ doubled => doubled'
    BY <1>3 DEF SendDone, At
  <2>2. ASSUME NEW u \in Thread, u # t PROVE Tasked(u)'
    <3>1. th[u].pc # "send"
      BY <2>1, <2>2, <1>0 DEF MutexInv, SendersInv, Senders
    <3>2. th'[u] = th[u]
      BY <1>0, <1>3, <2>2, OthersStay
    <3> QED BY <2>1, <3>1, <3>2, AloneTasked
  <2>3. /\ th'[t].pc = "freesend" /\ th'[t].task = th[t].task
        /\ th'[t].todo = th[t].todo /\ th'[t].hand = th[t].hand
    BY <1>3, <1>h DEF SendDone
  <2>4. Tasked(t)'
    BY <2>1, <2>3, <1>h DEF Tasked, Traversing, Reads
  <2> QED BY <2>2, <2>4 DEF TaskInv
<1>4. ASSUME NEW t \in Thread, SendClosed(t) PROVE TaskInv'
  <2>1. th[t].pc = "send" /\ UNCHANGED <<request, channel, doubled>>
    BY <1>4 DEF SendClosed, At
  <2>2. conn'.posted \subseteq conn.posted
    BY <1>4, <1>p, <1>c DEF SendClosed
  <2>3. ASSUME NEW u \in Thread, u # t PROVE Tasked(u)'
    BY <1>0, <1>4, <2>1, <2>2, <2>3, OthersStay, AloneTasked
  <2>4. /\ th'[t].pc \in {"send", "freesend"} /\ th'[t].task = th[t].task
        /\ th'[t].todo = th[t].todo /\ th'[t].hand = th[t].hand /\ th'[t].msg = th[t].msg
    BY <1>4, <2>1, <1>h DEF SendClosed
  <2>5. Tasked(t)'
    BY <2>1, <2>2, <2>4, <1>h DEF Tasked, Traversing, Registered, Reads
  <2> QED BY <2>3, <2>5 DEF TaskInv
<1>5. ASSUME NEW t \in Thread, ReceiveReply(t) PROVE TaskInv'
  <2>1. PICK m \in DOMAIN conn.wire : Taken(m)
    BY <1>5, ReplyEffect
  <2> DEFINE r == channel[m.id]
  <2>2. /\ th[t].pc = "receive" /\ th[t].task = "none"
    BY <1>5, <1>f DEF ReceiveReply, At, Sends
  <2>3. /\ th'[t].pc \in {"receive", "freereceive"} /\ th'[t].task = "none"
        /\ th'[t].hand = th[t].hand
    BY <1>5, <2>2, <1>h DEF ReceiveReply
  <2>4. \A q \in DOMAIN request : request[q].success # "oneway" => request'[q].success # "oneway"
    BY <2>1 DEF Taken
  <2>5. Tasked(t)'
    BY <2>2, <2>3, <2>4, <1>h DEF Tasked, Fine, Traversing, Reads
  <2>6. ASSUME NEW u \in Thread, u # t PROVE Tasked(u)'
    <3>1. th'[u] = th[u]
      BY <1>0, <1>5, <2>6, OthersStay
    <3>2. th[u].task # "reissue" /\ ~Traversing(u)
      BY <2>2, <2>6, <1>0 DEF MutexInv, ReadersInv, Readers, Traversing
    <3>3. ASSUME ~doubled, th[u].pc = "send", request[th[u].msg].success # "oneway"
          PROVE  Registered(th[u].msg)'
      <4>1. th[u].task = "new" /\ th[u].msg \notin conn.posted /\ th[u].msg \in DOMAIN request
        BY <3>2, <3>3, <1>h DEF Fine, Sends, Tasked
      <4>2. m.r = r /\ m.r \in conn.posted
        <5>1. m.r # 0
          BY <2>1, <1>p, <1>0 DEF Taken, DataTypes
        <5> QED BY <5>1, <2>1, <3>3, <1>0 DEF Taken, ReplyInv, Registered
      <4>3. Registered(th[u].msg) /\ th[u].msg # r
        BY <4>1, <4>2, <3>3, <1>h DEF Tasked
      <4>4. /\ request'[th[u].msg] = request[th[u].msg]
            /\ request[th[u].msg].id # m.id
        BY <4>1, <4>3, <2>1 DEF Taken, Registered
      <4> QED BY <3>1, <4>3, <4>4, <2>1 DEF Taken, Registered
    <3>4. ASSUME ~doubled, th[u].pc = "send", request[th[u].msg].success = "oneway"
          PROVE  request'[th[u].msg].success = "oneway"
      <4>1. th[u].msg \in DOMAIN request /\ th[u].msg # r
        BY <3>4, <2>1, <1>0, <1>h DEF Fine, Taken, ChannelInv
      <4> QED BY <4>1, <3>4, <2>1 DEF Taken
    <3>5. conn'.posted = conn.posted /\ doubled' = doubled
      BY <2>1 DEF Taken
    <3>6. th[u].pc \in Reads => request'[th[u].hand].success # "oneway"
      BY <2>4, <1>h DEF Fine, Tasked
    <3> QED BY <3>1, <3>2, <3>3, <3>4, <3>5, <3>6, <1>h DEF Tasked, Traversing
  <2> QED BY <2>5, <2>6 DEF TaskInv
<1>6. ASSUME NEW t \in Thread, ReceiveWrong(t) \/ ReceiveClosed(t) PROVE TaskInv'
  <2>1. /\ th[t].pc = "receive" /\ th[t].task = "none"
        /\ UNCHANGED <<request, channel, doubled>>
    BY <1>6, <1>f DEF ReceiveWrong, ReceiveClosed, At, Sends
  <2>2. conn'.posted \subseteq conn.posted
    <3>1. CASE ReceiveWrong(t)
      BY <3>1, <1>p DEF ReceiveWrong, ConnType
    <3> QED BY <1>6, <3>1, <1>c DEF ReceiveClosed
  <2>3. ASSUME NEW u \in Thread, u # t PROVE Tasked(u)'
    BY <1>0, <1>6, <2>1, <2>2, <2>3, OthersStay, AloneTasked
  <2>4. /\ th'[t].pc \in {"reissue", "fail"} /\ th'[t].task = "none"
        /\ th'[t].todo = DOMAIN channel /\ th'[t].hand = th[t].hand
    BY <1>6, <2>1, <1>h DEF ReceiveWrong, ReceiveClosed
  <2>5. Tasked(t)'
    BY <2>1, <2>4, <1>h DEF Tasked, Traversing, Reads
  <2> QED BY <2>3, <2>5 DEF TaskInv
<1>7. ASSUME Answer \/ PeerFails PROVE TaskInv'
  <2>1. UNCHANGED <<th, request, channel, doubled>> /\ conn'.posted = conn.posted
    BY <1>7, <1>p DEF Answer, PeerFails, ConnType
  <2> QED BY <2>1, AloneTasked DEF TaskInv
<1> QED BY <1>1, <1>2, <1>3, <1>4, <1>5, <1>6, <1>7 DEF Next, Step, QuietStep

-----------------------------------------------------------------------------
(* What is on the connection *)

(* When requests and what is registered are kept, so is what holds of both. *)
LEMMA SameWire ==
  ASSUME IInv, UNCHANGED <<channel, conn, doubled>>, RequestsKeep
  PROVE  WireInv' /\ ReplyInv'
<1>1. WireInv /\ ReplyInv
  BY DEF IInv
<1>2. WireInv'
  BY <1>1 DEF WireInv, RequestsKeep
<1>3. ASSUME ~doubled' PROVE ReplyInv'
  <2>1. \A r \in DOMAIN request : Registered(r) => Registered(r)'
    BY DEF RequestsKeep, Registered
  <2>2. /\ \A r \in DOMAIN conn.sent : r \in DOMAIN request
        /\ \A m \in DOMAIN conn.wire : m.r # 0 => m.r \in DOMAIN request
    BY <1>1 DEF WireInv, Error
  <2> QED BY <1>1, <1>3, <2>1, <2>2 DEF ReplyInv, OwnReply, RequestsKeep
<1> QED BY <1>2, <1>3 DEF ReplyInv

(* On a new connection, or one that was given up, there is nothing.         *)
LEMMA EmptyWire ==
  ASSUME IInv, UNCHANGED <<request, channel>>, doubled => doubled',
         conn'.sent = EmptyBag, conn'.wire = EmptyBag, conn'.posted \subseteq conn.posted
  PROVE  WireInv' /\ ReplyInv'
<1>1. WireInv /\ ReplyInv
  BY DEF IInv
<1>2. /\ IsABag(conn'.sent) /\ IsABag(conn'.wire)
      /\ DOMAIN conn'.sent = {} /\ DOMAIN conn'.wire = {}
  BY EmptyBagFacts
<1> QED BY <1>1, <1>2 DEF WireInv, ReplyInv, OwnReply

(* No step puts a message where it does not belong.                         *)
LEMMA WireKept == ASSUME IInv, Next PROVE WireInv' /\ ReplyInv'
<1>0. DataTypes /\ ConnType /\ ThreadInv /\ ChannelInv /\ WireInv /\ TaskInv /\ ReplyInv
  BY DEF IInv, TypeInv, DataTypes
<1> USE DEF lock, history
<1>b. IsABag(conn.sent) /\ IsABag(conn.wire)
  BY <1>0 DEF WireInv
<1>n. /\ \A r \in DOMAIN request : r # 0
      /\ \A r \in conn.posted : r \in DOMAIN request
      /\ \A r \in DOMAIN conn.sent : r \in conn.posted
  BY <1>0 DEF DataTypes, WireInv
<1>c. ASSUME \/ conn' = Connected(conn.socket + 1)
             \/ conn' = [conn EXCEPT !.state = "closed", !.wire = EmptyBag, !.sent = EmptyBag]
      PROVE  /\ conn'.sent = EmptyBag /\ conn'.wire = EmptyBag
             /\ conn'.posted \subseteq conn.posted
  <2>1. CASE conn' = Connected(conn.socket + 1)
    BY <2>1 DEF Connected
  <2>2. CASE conn' = [conn EXCEPT !.state = "closed", !.wire = EmptyBag, !.sent = EmptyBag]
    BY <2>2, <1>0 DEF ConnType
  <2> QED BY <1>c, <2>1, <2>2
<1>1. ASSUME NEW t \in Thread, QuietStep(t) PROVE WireInv' /\ ReplyInv'
  BY <1>1, Quiet, SameWire
<1>2. ASSUME NEW t \in Thread, newrequest(t) PROVE WireInv' /\ ReplyInv'
  <2>r. PICK new : new = Len(request) + 1
    OBVIOUS
  <2>1. /\ new \notin DOMAIN request /\ DOMAIN request' = DOMAIN request \cup {new}
        /\ \A q \in DOMAIN request : request'[q] = request[q]
        /\ request'[new].reply = 0
        /\ UNCHANGED <<conn, doubled>>
        /\ DOMAIN channel \subseteq DOMAIN channel'
        /\ \A k \in DOMAIN channel : channel'[k] = channel[k]
    BY <1>2, <2>r, NewRequestEffect
  <2>2. WireInv'
    BY <1>0, <1>n, <2>1 DEF WireInv
  <2>3. ASSUME ~doubled' PROVE ReplyInv'
    <3>1. \A r \in DOMAIN request : Registered(r) => Registered(r)'
      BY <2>1 DEF Registered
    <3>2. /\ \A r \in DOMAIN conn.sent : r \in DOMAIN request
          /\ \A m \in DOMAIN conn.wire : m.r # 0 => m.r \in DOMAIN request
      BY <1>0, <1>n DEF WireInv, Error
    <3> QED BY <1>0, <2>1, <2>3, <3>1, <3>2 DEF ReplyInv, OwnReply
  <2> QED BY <2>2, <2>3 DEF ReplyInv
<1>3. ASSUME NEW t \in Thread, SendDone(t) PROVE WireInv' /\ ReplyInv'
  <2>r. PICK r : r = th[t].msg
    OBVIOUS
  <2>1. /\ UNCHANGED <<request, channel>> /\ doubled' = (doubled \/ r \in conn.posted)
        /\ conn'.wire = conn.wire /\ conn'.posted = conn.posted \cup {r}
        /\ \/ conn'.sent = conn.sent
           \/ /\ request[r].success # "oneway"
              /\ conn'.sent = conn.sent (+) SetToBag({r})
    <3>1. /\ UNCHANGED <<request, channel>> /\ doubled' = (doubled \/ r \in conn.posted)
          /\ conn' = [conn EXCEPT
                  !.posted = @ \cup {r},
                  !.sent = IF conn.state = "peer" \/ request[r].success = "oneway" THEN @
                           ELSE @ (+) SetToBag({r})]
      BY <1>3, <2>r DEF SendDone
    <3> QED BY <3>1, <1>0 DEF ConnType
  <2>2. /\ r \in DOMAIN request
        /\ ~doubled => request[r].success = "oneway" \/ Registered(r)
    BY <1>0, <1>3, <2>r DEF SendDone, At, ThreadInv, Fine, TaskInv, Tasked
  <2>3. CASE conn'.sent = conn.sent
    BY <1>0, <1>n, <2>1, <2>2, <2>3 DEF WireInv, ReplyInv, OwnReply, Registered
  <2>4. CASE /\ request[r].success # "oneway"
             /\ conn'.sent = conn.sent (+) SetToBag({r})
    <3>1. /\ IsABag(conn'.sent) /\ DOMAIN conn'.sent = DOMAIN conn.sent \cup {r}
          /\ \A q \in DOMAIN conn'.sent : q # r => conn'.sent[q] = conn.sent[q]
          /\ r \notin DOMAIN conn.sent => conn'.sent[r] = 1
      <4>1. conn'.sent = conn.sent (+) SetToBag({r})
        BY <2>4
      <4>2. /\ IsABag(conn.sent (+) SetToBag({r}))
            /\ DOMAIN (conn.sent (+) SetToBag({r})) = DOMAIN conn.sent \cup {r}
            /\ \A y \in DOMAIN (conn.sent (+) SetToBag({r})) :
                  y # r => (conn.sent (+) SetToBag({r}))[y] = conn.sent[y]
            /\ r \notin DOMAIN conn.sent => (conn.sent (+) SetToBag({r}))[r] = 1
        BY ONLY <1>b, BagAdds, Zenon
      <4> QED BY ONLY <4>1, <4>2, Zenon
    <3>2. WireInv'
      BY <1>0, <1>n, <2>1, <2>2, <3>1 DEF WireInv
    <3>3. ASSUME ~doubled' PROVE ReplyInv'
      <4>1. ~doubled /\ r \notin conn.posted /\ Registered(r)
        BY <3>3, <2>1, <2>2, <2>4
      <4>2. \A m \in DOMAIN conn.wire : m.r # r
        BY <4>1, <2>2, <1>0, <1>n DEF WireInv, Error
      <4>3. r \notin DOMAIN conn.sent
        BY <4>1, <1>n
      <4>4. \A q : Registered(q)' <=> Registered(q)
        BY <2>1 DEF Registered
      <4> QED BY <1>0, <2>1, <3>1, <4>1, <4>2, <4>3, <4>4 DEF ReplyInv, OwnReply
    <3> QED BY <3>2, <3>3 DEF ReplyInv
  <2> QED BY <2>1, <2>3, <2>4
<1>4. ASSUME NEW t \in Thread, SendClosed(t) \/ ReceiveClosed(t) PROVE WireInv' /\ ReplyInv'
  <2>1. UNCHANGED <<request, channel, doubled>>
    BY <1>4 DEF SendClosed, ReceiveClosed
  <2>2. \/ conn' = Connected(conn.socket + 1)
        \/ conn' = [conn EXCEPT !.state = "closed", !.wire = EmptyBag, !.sent = EmptyBag]
    BY <1>4 DEF SendClosed, ReceiveClosed
  <2> QED BY <2>1, <2>2, <1>c, EmptyWire
<1>5. ASSUME NEW t \in Thread, ReceiveReply(t) PROVE WireInv' /\ ReplyInv'
  <2>1. PICK m \in DOMAIN conn.wire : Taken(m)
    BY <1>5, ReplyEffect
  <2>r. PICK r : r = channel[m.id]
    OBVIOUS
  <2>2. /\ DOMAIN request' = DOMAIN request
        /\ \A q \in DOMAIN request : request'[q].id = request[q].id
        /\ \A q \in DOMAIN request : q # r => request'[q].reply = request[q].reply
        /\ request'[r].reply = m.r
        /\ conn'.sent = conn.sent /\ conn'.posted = conn.posted /\ doubled' = doubled
        /\ conn'.wire = conn.wire (-) SetToBag({m})
        /\ m.r \in DOMAIN request /\ m.id = request[m.r].id
    BY <2>1, <2>r, <1>n DEF Taken
  <2>3. /\ IsABag(conn'.wire) /\ DOMAIN conn'.wire \subseteq DOMAIN conn.wire
        /\ \A n \in DOMAIN conn'.wire : n # m => conn'.wire[n] = conn.wire[n]
        /\ conn.wire[m] = 1 => m \notin DOMAIN conn'.wire
    BY <1>b, <2>2, BagTakes
  <2>4. WireInv'
    BY <1>0, <1>n, <2>2, <2>3 DEF WireInv
  <2>5. ASSUME ~doubled' PROVE ReplyInv'
    <3>1. /\ m.r # 0 /\ conn.wire[m] = 1 /\ Registered(m.r)
          /\ \A n \in DOMAIN conn.wire : n.r = m.r => n = m
          /\ \A q \in DOMAIN conn.sent : q # m.r
      BY <2>5, <2>2, <1>n, <1>0 DEF ReplyInv
    <3>2. r = m.r
      BY <3>1, <2>2, <2>r DEF Registered
    <3>3. \A q \in DOMAIN request : Registered(q) /\ q # r => Registered(q)'
      BY <2>1, <2>2, <2>r DEF Registered, Taken
    <3>4. \A n \in DOMAIN conn'.wire : n \in DOMAIN conn.wire /\ n # m /\ n.r # r
      BY <3>1, <3>2, <2>3
    <3>5. \A n \in DOMAIN conn.wire : n.r # 0 => n.r \in DOMAIN request
      BY <1>0, <1>n DEF WireInv, Error
    <3>6. OwnReply'
      BY <1>0, <2>2, <2>5, <3>2 DEF ReplyInv, OwnReply
    <3>7. \A q \in DOMAIN conn'.sent :
             conn'.sent[q] = 1 /\ Registered(q)' /\ \A n \in DOMAIN conn'.wire : n.r # q
      BY <1>0, <1>n, <2>2, <2>5, <3>1, <3>2, <3>3, <3>4 DEF ReplyInv
    <3>8. ASSUME NEW n \in DOMAIN conn'.wire, n.r # 0
          PROVE  /\ conn'.wire[n] = 1 /\ Registered(n.r)'
                 /\ \A k \in DOMAIN conn'.wire : k.r = n.r => k = n
      <4>1. /\ conn.wire[n] = 1 /\ Registered(n.r)
            /\ \A k \in DOMAIN conn.wire : k.r = n.r => k = n
        BY <1>0, <2>2, <2>5, <3>4, <3>8 DEF ReplyInv
      <4> QED BY <2>3, <3>3, <3>4, <3>5, <3>8, <4>1
    <3> QED BY <3>6, <3>7, <3>8 DEF ReplyInv
  <2> QED BY <2>4, <2>5 DEF ReplyInv
<1>6. ASSUME NEW t \in Thread, ReceiveWrong(t) PROVE WireInv' /\ ReplyInv'
  <2>1. PICK m \in DOMAIN conn.wire : conn' = [conn EXCEPT !.wire = @ (-) SetToBag({m})]
    BY <1>6 DEF ReceiveWrong, BagToSet
  <2>2. /\ conn'.wire = conn.wire (-) SetToBag({m})
        /\ conn'.sent = conn.sent /\ conn'.posted = conn.posted
        /\ UNCHANGED <<request, channel, doubled>>
    BY <1>6, <2>1, <1>0 DEF ReceiveWrong, ConnType
  <2>3. /\ IsABag(conn'.wire) /\ DOMAIN conn'.wire \subseteq DOMAIN conn.wire
        /\ \A n \in DOMAIN conn'.wire : n # m => conn'.wire[n] = conn.wire[n]
        /\ conn.wire[m] = 1 => m \notin DOMAIN conn'.wire
    BY <1>b, <2>2, BagTakes
  <2>4. WireInv'
    BY <1>0, <2>2, <2>3 DEF WireInv
  <2>5. ReplyInv'
    <3>1. \A q : Registered(q)' <=> Registered(q)
      BY <2>2 DEF Registered
    <3> QED BY <1>0, <2>2, <2>3, <3>1 DEF ReplyInv, OwnReply
  <2> QED BY <2>4, <2>5
<1>7. ASSUME Answer PROVE WireInv' /\ ReplyInv'
  <2>1. PICK r \in DOMAIN conn.sent, status \in {"true", "forward"} :
           conn' = [conn EXCEPT
                !.sent = @ (-) SetToBag({r}),
                !.wire = @ (+) SetToBag({[id |-> request[r].id, r |-> r, status |-> status]})]
    BY <1>7 DEF Answer, BagToSet
  <2>m. PICK m : m = [id |-> request[r].id, r |-> r, status |-> status]
    OBVIOUS
  <2>2. /\ conn'.sent = conn.sent (-) SetToBag({r}) /\ conn'.wire = conn.wire (+) SetToBag({m})
        /\ conn'.posted = conn.posted /\ UNCHANGED <<request, channel, doubled>>
    BY <1>7, <2>1, <2>m, <1>0 DEF Answer, ConnType
  <2>3. /\ m.r = r /\ r \in conn.posted /\ m.id = request[r].id
        /\ m.status \in {"true", "forward"} /\ r # 0
    BY <2>m, <1>n
  <2>4. /\ IsABag(conn'.sent) /\ DOMAIN conn'.sent \subseteq DOMAIN conn.sent
        /\ \A q \in DOMAIN conn'.sent : q # r => conn'.sent[q] = conn.sent[q]
        /\ conn.sent[r] = 1 => r \notin DOMAIN conn'.sent
    BY <1>b, <2>2, BagTakes
  <2>5. /\ IsABag(conn'.wire) /\ DOMAIN conn'.wire = DOMAIN conn.wire \cup {m}
        /\ \A n \in DOMAIN conn'.wire : n # m => conn'.wire[n] = conn.wire[n]
        /\ m \notin DOMAIN conn.wire => conn'.wire[m] = 1
    <3>1. conn'.wire = conn.wire (+) SetToBag({m})
      BY <2>2
    <3>2. /\ IsABag(conn.wire (+) SetToBag({m}))
          /\ DOMAIN (conn.wire (+) SetToBag({m})) = DOMAIN conn.wire \cup {m}
          /\ \A y \in DOMAIN (conn.wire (+) SetToBag({m})) :
                y # m => (conn.wire (+) SetToBag({m}))[y] = conn.wire[y]
          /\ m \notin DOMAIN conn.wire => (conn.wire (+) SetToBag({m}))[m] = 1
      BY ONLY <1>b, BagAdds, Zenon
    <3> QED BY ONLY <3>1, <3>2, Zenon
  <2>6. WireInv'
    BY <1>0, <2>2, <2>3, <2>4, <2>5 DEF WireInv
  <2>7. ASSUME ~doubled' PROVE ReplyInv'
    <3>1. /\ conn.sent[r] = 1 /\ Registered(r) /\ \A n \in DOMAIN conn.wire : n.r # r
      BY <1>0, <2>2, <2>7 DEF ReplyInv
    <3>2. \A q : Registered(q)' <=> Registered(q)
      BY <2>2 DEF Registered
    <3>3. r \notin DOMAIN conn'.sent /\ m \notin DOMAIN conn.wire
      BY <3>1, <2>3, <2>4
    <3>4. OwnReply'
      BY <1>0, <2>2, <2>7 DEF ReplyInv, OwnReply
    <3>5. ASSUME NEW q \in DOMAIN conn'.sent
          PROVE  /\ conn'.sent[q] = 1 /\ Registered(q)'
                 /\ \A n \in DOMAIN conn'.wire : n.r # q
      BY <1>0, <2>2, <2>3, <2>4, <2>5, <2>7, <3>2, <3>3 DEF ReplyInv
    <3>6. ASSUME NEW n \in DOMAIN conn'.wire, n.r # 0
          PROVE  /\ conn'.wire[n] = 1 /\ Registered(n.r)'
                 /\ \A k \in DOMAIN conn'.wire : k.r = n.r => k = n
      BY <1>0, <2>2, <2>3, <2>5, <2>7, <3>1, <3>2, <3>3, <3>6 DEF ReplyInv
    <3> QED BY <3>4, <3>5, <3>6 DEF ReplyInv
  <2> QED BY <2>6, <2>7 DEF ReplyInv
<1>8. ASSUME PeerFails PROVE WireInv' /\ ReplyInv'
  <2>1. /\ UNCHANGED <<request, channel, doubled>> /\ conn'.posted = conn.posted
        /\ \/ conn'.sent = conn.sent /\ conn'.wire = conn.wire (+) SetToBag({Error})
           \/ conn'.sent = EmptyBag /\ conn'.wire = conn.wire
    BY <1>8, <1>0 DEF PeerFails, ConnType, Error
  <2>2. \A q : Registered(q)' <=> Registered(q)
    BY <2>1 DEF Registered
  <2>3. CASE conn'.sent = conn.sent /\ conn'.wire = conn.wire (+) SetToBag({Error})
    <3>1. /\ IsABag(conn'.wire) /\ DOMAIN conn'.wire = DOMAIN conn.wire \cup {Error}
          /\ \A n \in DOMAIN conn'.wire : n # Error => conn'.wire[n] = conn.wire[n]
      <4>1. conn'.wire = conn.wire (+) SetToBag({Error})
        BY <2>3
      <4>2. /\ IsABag(conn.wire (+) SetToBag({Error}))
            /\ DOMAIN (conn.wire (+) SetToBag({Error})) = DOMAIN conn.wire \cup {Error}
            /\ \A y \in DOMAIN (conn.wire (+) SetToBag({Error})) :
                  y # Error => (conn.wire (+) SetToBag({Error}))[y] = conn.wire[y]
            /\ Error \notin DOMAIN conn.wire => (conn.wire (+) SetToBag({Error}))[Error] = 1
        BY ONLY <1>b, BagAdds, Zenon
      <4> QED BY ONLY <4>1, <4>2, Zenon
    <3>2. Error.r = 0
      BY DEF Error
    <3>3. WireInv'
      BY <1>0, <2>1, <2>3, <3>1 DEF WireInv
    <3>4. ReplyInv'
      BY <1>0, <1>n, <2>1, <2>2, <2>3, <3>1, <3>2 DEF ReplyInv, OwnReply
    <3> QED BY <3>3, <3>4
  <2>4. CASE conn'.sent = EmptyBag /\ conn'.wire = conn.wire
    <3>1. IsABag(conn'.sent) /\ DOMAIN conn'.sent = {}
      BY <2>4, EmptyBagFacts
    <3> QED BY <1>0, <2>1, <2>2, <2>4, <3>1 DEF WireInv, ReplyInv, OwnReply
  <2> QED BY <2>1, <2>3, <2>4
<1> QED BY <1>1, <1>2, <1>3, <1>4, <1>5, <1>6, <1>7, <1>8 DEF Next, Step, QuietStep

-----------------------------------------------------------------------------
(* The theorems *)

(* Every step keeps the invariant.                                          *)
LEMMA Inductive == IInv /\ [Next]_vars => IInv'
<1> SUFFICES ASSUME IInv, [Next]_vars PROVE IInv'
  OBVIOUS
<1>1. CASE Next
  BY <1>1, TypeKept, ThreadKept, MutexStep, ChannelKept, WireKept, TaskKept DEF IInv
<1>2. CASE UNCHANGED vars
  <2>1. TypeInv'
    BY <1>2 DEF vars, lock, history, IInv, TypeInv, LockTypes, DataTypes, ConnType
  <2>2. ThreadInv' /\ TaskInv'
    BY <1>2 DEF vars, lock, history, IInv, ThreadInv, Fine, TaskInv, Tasked, Traversing,
                Registered
  <2>3. MutexInv'
    BY <1>2 DEF vars, lock, history, IInv, MutexInv, SendersInv, ReadersInv, QueueInv,
                ReceiversInv, Senders, Readers, Waiting, At
  <2>4. ChannelInv' /\ WireInv' /\ ReplyInv'
    BY <1>2 DEF vars, lock, history, IInv, ChannelInv, PendingIsRegistered, WireInv,
                ReplyInv, OwnReply, Registered
  <2> QED BY <2>1, <2>2, <2>3, <2>4 DEF IInv
<1> QED BY <1>1, <1>2

(* What the invariant says of the locks.                                    *)
LEMMA MutexFollows == IInv => MutexKept
<1> SUFFICES ASSUME IInv PROVE MutexKept
  OBVIOUS
<1>1. LockTypes /\ DataTypes /\ ChannelInv /\ SendersInv /\ ReadersInv /\ QueueInv
      /\ ReceiversInv
  BY DEF IInv, TypeInv, MutexInv
<1>2. ClientTypeOK
  BY <1>1 DEF ClientTypeOK, LockTypes, DataTypes, ChannelInv
<1>3. Cardinality(Senders) = IF sending THEN 1 ELSE 0
  BY <1>1, FS_Singleton, FS_EmptySet DEF SendersInv
<1>4. OneAtATime
  BY <1>1, <1>3 DEF OneAtATime, ReadersInv
<1>5. NobodyWaitsAlone
  BY <1>1 DEF NobodyWaitsAlone, SendersInv, QueueInv, ReceiversInv, Waiting
<1> QED BY <1>2, <1>4, <1>5 DEF MutexKept

(* What is written to a connection has no answer.                           *)
LEMMA Unanswered ==
  ASSUME IInv, [Next]_vars, ~doubled, NEW r \in conn'.posted \ conn.posted
  PROVE  request[r].success # "true"
<1>0. ConnType /\ TaskInv /\ ThreadInv /\ ChannelInv
  BY DEF IInv, TypeInv, DataTypes
<1> USE DEF lock, history
<1>1. CASE \E t \in Thread : SendDone(t)
  <2>1. PICK t \in Thread : SendDone(t)
    BY <1>1
  <2>2. conn'.posted = conn.posted \cup {th[t].msg} /\ th[t].pc = "send"
    BY <2>1, <1>0 DEF SendDone, At, ConnType
  <2>3. r = th[t].msg
    BY <2>2
  <2> QED BY <2>2, <2>3, <1>0 DEF TaskInv, Tasked, Registered, ChannelInv
<1>2. ASSUME conn'.posted \subseteq conn.posted PROVE FALSE
  BY <1>2
<1>3. ASSUME NEW t \in Thread, QuietStep(t) PROVE FALSE
  BY <1>2, <1>3, Quiet
<1>4. ASSUME NEW t \in Thread, newrequest(t) \/ ReceiveReply(t) \/ ReceiveWrong(t)
      PROVE  FALSE
  <2>1. newrequest(t) => conn' = conn
    BY DEF newrequest
  <2>2. ReceiveReply(t) => \E w : conn' = [conn EXCEPT !.wire = w]
    BY DEF ReceiveReply
  <2>3. ReceiveWrong(t) => \E w : conn' = [conn EXCEPT !.wire = w]
    BY DEF ReceiveWrong
  <2>4. \A w : conn' = [conn EXCEPT !.wire = w] => conn'.posted = conn.posted
    BY <1>0 DEF ConnType
  <2> QED BY <1>2, <1>4, <2>1, <2>2, <2>3, <2>4
<1>5. ASSUME NEW t \in Thread, SendClosed(t) \/ ReceiveClosed(t) PROVE FALSE
  <2>1. \/ conn' = Connected(conn.socket + 1)
        \/ conn' = [conn EXCEPT !.state = "closed", !.wire = EmptyBag, !.sent = EmptyBag]
    BY <1>5 DEF SendClosed, ReceiveClosed
  <2>2. conn' = Connected(conn.socket + 1) => conn'.posted = {}
    BY DEF Connected
  <2>3. conn' = [conn EXCEPT !.state = "closed", !.wire = EmptyBag, !.sent = EmptyBag]
        => conn'.posted = conn.posted
    BY <1>0 DEF ConnType
  <2> QED BY <1>2, <2>1, <2>2, <2>3
<1>6. ASSUME Answer \/ PeerFails PROVE FALSE
  <2>1. conn'.posted = conn.posted
    BY <1>0, <1>6 DEF Answer, PeerFails, ConnType
  <2> QED BY <1>2, <2>1
<1>7. CASE UNCHANGED vars
  BY <1>2, <1>7 DEF vars
<1> QED BY <1>1, <1>3, <1>4, <1>5, <1>6, <1>7 DEF Next, Step, QuietStep

(* The mutex does what it is for: one thread writes to the connection at a   *)
(* time and one reads, the locks tell so, and whoever waits is remembered   *)
(* where the one that has the lock finds it.                                *)
THEOREM MutexAlwaysKept == Spec => []MutexKept
<1>1. Spec => []IInv
  BY InitInv, Inductive, PTL DEF Spec
<1> QED BY <1>1, MutexFollows, PTL

(* A request without an outcome stays registered under its identifier,       *)
(* whatever fails and however often the connection is renewed.              *)
THEOREM PendingStaysRegistered == Spec => []PendingIsRegistered
<1>1. Spec => []IInv
  BY InitInv, Inductive, PTL DEF Spec
<1>2. IInv => PendingIsRegistered
  BY DEF IInv, ChannelInv
<1> QED BY <1>1, <1>2, PTL

(* While no request is written twice to one connection, a reply goes to the  *)
(* request that it answers.                                                 *)
THEOREM RepliesAreOwn == Spec => []OwnReply
<1>1. Spec => []IInv
  BY InitInv, Inductive, PTL DEF Spec
<1>2. IInv => OwnReply
  BY DEF IInv, ReplyInv, OwnReply
<1> QED BY <1>1, <1>2, PTL

(* Nor is a request that was answered written to a connection then.          *)
THEOREM AnsweredStaysUnsent == Spec => AnsweredIsNotSent
<1>1. Spec => []IInv
  BY InitInv, Inductive, PTL DEF Spec
<1>2. IInv /\ [Next]_vars =>
         [~doubled => \A r \in conn'.posted \ conn.posted : request[r].success # "true"]_vars
  BY Unanswered
<1> QED BY <1>1, <1>2, PTL DEF Spec, AnsweredIsNotSent

=============================================================================

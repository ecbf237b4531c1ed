----------------------------- MODULE OilClient ------------------------------
(***************************************************************************)
(* The client side of OiL with co-operative threads: requests of several    *)
(* threads go over one connection, and whichever thread reads a reply hands *)
(* it to the thread that waits for it.  The Mutex decides who sends and who *)
(* reads, the Requester numbers the requests and sends them again when the  *)
(* connection is renewed.                                                   *)
(*                                                                          *)
(* Threads are not preempted: turn is the thread that executes, and Nobody     *)
(* when the scheduler may choose the next.  resume() passes the turn to the *)
(* thread it names at once (Scheduler, SwitchIsImmediate).  The other end   *)
(* of the connection is the environment.                                    *)
(***************************************************************************)
EXTENDS Integers, Sequences, FiniteSets, SequencesExt, Bags

CONSTANTS
    Thread,
    Nobody,       \* nobody
    Pollers,      \* the threads that call ready()
    Calls,        \* bound: calls of invoke() by each thread
    MaxOneway,    \* bound: those of oneway operations
    MaxFaults     \* bound: connections closed, errors, forwards

ASSUME OilClientAssumption ==
    /\ Nobody \notin Thread /\ Pollers \subseteq Thread
    /\ Calls \in [Thread -> Nat] /\ MaxOneway \in Nat
    /\ MaxFaults \in Nat

VARIABLES
    turn,       \* the thread that executes, or Nobody
    th,         \* where each thread is, and its local variables: see Idle
    sending,    \* the lock of the channel: some thread is sending
    senders,    \* threads that wait to send, in their order
    receiving,  \* the thread that reads, Nobody for none
    receivers,  \* the threads that wait for their replies, by request
    request,    \* the requests, in the order of their making
    channel,    \* the requests that are registered, by identifier
    conn,       \* the connection: see Connected
    faults,     \* what went wrong outside, counted
    doubled,    \* a request was sent twice on a connection (history)
    cut         \* others were let down (history)

MaxRequests == FoldFunction(+, 0, Calls)

lock == <<sending, senders, receiving, receivers>>
history == <<faults, doubled, cut>>
vars == <<turn, th, lock, request, channel, conn, history>>

Idle == [pc |-> "out", task |-> "none", msg |-> 0, hand |-> 0, probe |-> FALSE,
         reset |-> FALSE, ok |-> TRUE, todo |-> {}, socket |-> 0]

\* A new connection: bags of what was sent on it and not answered and of what
\* came back and was not read, and the requests that were written to it.
Connected(n) == [socket |-> n, state |-> "open", sent |-> EmptyBag, wire |-> EmptyBag,
                 posted |-> {}]

Init ==
    /\ turn = Nobody
    /\ th = [t \in Thread |-> Idle]
    /\ sending = FALSE /\ senders = << >>
    /\ receiving = Nobody /\ receivers = << >>
    /\ request = << >> /\ channel = << >>
    /\ conn = Connected(1)
    /\ faults = 0 /\ doubled = FALSE /\ cut = FALSE

At(t, pc) == turn = t /\ th[t].pc = pc

\* Application code, which may let others execute before it goes on.
AtOut(t) == turn = Nobody /\ th[t].pc = "out"

\* The turn of a thread that is to do this next.
TurnFor(t, next) == IF next.pc = "out" THEN Nobody ELSE t

Goes(t, pc) == th' = [th EXCEPT ![t].pc = pc]

\* A table with a key set to v, and without a key.
With(f, k, v) == [x \in DOMAIN f \cup {k} |-> IF x = k THEN v ELSE f[x]]
Without(f, k) == [x \in DOMAIN f \ {k} |-> f[x]]

-----------------------------------------------------------------------------
(* Mutex *)

\* What a thread does with the lock.
Locked(next) ==
    [next EXCEPT !.pc = IF next.task = "new" THEN "newrequest" ELSE "send"]

\* The thread goes on with the lock, or waits behind those that wait for it.
locksend(t, next) ==
    \/ /\ sending
       /\ senders' = Append(senders, t)
       /\ th' = [th EXCEPT ![t] = [next EXCEPT !.pc = "sendwait"]]
       /\ turn' = Nobody
       /\ UNCHANGED sending
    \/ /\ ~sending
       /\ sending' = TRUE
       /\ th' = [th EXCEPT ![t] = Locked(next)]
       /\ turn' = t
       /\ UNCHANGED senders

\* The lock goes to the first that waits, which continues at once.
freesend(t, next) ==
    IF senders = << >>
    THEN sending' = FALSE /\ turn' = TurnFor(t, next) /\ UNCHANGED senders
    ELSE turn' = Head(senders) /\ senders' = Tail(senders) /\ UNCHANGED sending

\* Fault: the thread waits although nobody reads.
LockreceiveWaits(t, next) ==
    /\ receivers' = With(receivers, next.hand, t)
    /\ turn' = Nobody
    /\ th' = [th EXCEPT ![t] = [next EXCEPT !.pc = "recvwait"]]
    /\ UNCHANGED receiving

\* The thread becomes the one that reads, or waits for its reply.
lockreceive(t, next) ==
    IF receiving = Nobody
    THEN /\ receiving' = t /\ turn' = t
         /\ th' = [th EXCEPT ![t] = [next EXCEPT !.pc = "receive"]]
         /\ UNCHANGED receivers
    ELSE /\ receivers' = With(receivers, next.hand, t)
         /\ turn' = Nobody
         /\ th' = [th EXCEPT ![t] = [next EXCEPT !.pc = "recvwait"]]
         /\ UNCHANGED receiving

\* The thread that waits for the reply to r, if any, continues at once.
notifyreceived(t, r) ==
    turn' = IF r \in DOMAIN receivers THEN receivers[r] ELSE t

\* Fault: nobody is asked to read on.
FreereceiveStops(t, next) == receiving' = Nobody /\ turn' = TurnFor(t, next)

\* Another thread that waits for a reply has to read from now on.
freereceive(t, next) ==
    \/ receivers = << >> /\ receiving' = Nobody /\ turn' = TurnFor(t, next)
    \/ \E r \in DOMAIN receivers :
          receiving' = receivers[r] /\ turn' = receivers[r]

-----------------------------------------------------------------------------
(* Invoking an operation *)

\* #channel: any border of a table that may have holes.
Borders == {n \in 0..MaxRequests : /\ n = 0 \/ n \in DOMAIN channel
                                   /\ n + 1 \notin DOMAIN channel}

\* Fault: the number of those registered is taken for their last identifier.
RegisterCounting(r, id) ==
    id = Cardinality(DOMAIN channel) + 1 /\ channel' = With(channel, id, r)

\* The request goes under an identifier that nobody has.
register(r, id) == id - 1 \in Borders /\ channel' = With(channel, id, r)

\* A thread in the middle of a traversal of the table, where a new key may make
\* it skip some of the others or visit them again.
Traversing(t) == th[t].pc \in {"reissue", "fail"}
                     \/ (th[t].pc # "out" /\ th[t].task = "reissue")

\* invoke(): the channel is in the reference already.
invoke(t) ==
    /\ AtOut(t)
    /\ Cardinality({r \in DOMAIN request : request[r].owner = t}) < Calls[t]
    /\ locksend(t, [Idle EXCEPT !.task = "new"])
    /\ UNCHANGED <<receiving, receivers, request, channel, conn, history>>

\* suspend() of locksend returns.
SendNotified(t) ==
    /\ At(t, "sendwait")
    /\ th' = [th EXCEPT ![t] = Locked(th[t])]
    /\ UNCHANGED <<turn, lock, request, channel, conn, history>>

\* newrequest() up to sendmsg(); a oneway request is not registered.
newrequest(t) ==
    /\ At(t, "newrequest")
    /\ LET r == Len(request) + 1
           new == [owner |-> t, held |-> TRUE, id |-> 0, success |-> "nil", reply |-> 0,
                   forwarded |-> FALSE]
           sends == [th[t] EXCEPT !.pc = "send", !.msg = r]
       IN  \/ /\ Cardinality({q \in DOMAIN request : request[q].id = 0}) < MaxOneway
              /\ request' = Append(request, [new EXCEPT !.success = "oneway"])
              /\ th' = [th EXCEPT ![t] = sends]
              /\ UNCHANGED <<channel, cut>>
           \/ /\ \E id \in 1..MaxRequests :
                    /\ register(r, id)
                    /\ request' = Append(request, [new EXCEPT !.id = id])
              /\ \E visits \in SUBSET DOMAIN channel' :
                    /\ (\A u \in Thread : ~Traversing(u)) => visits = {}
                    /\ th' = [u \in Thread |->
                                 IF u = t THEN sends
                                 ELSE IF Traversing(u) THEN [th[u] EXCEPT !.todo = visits]
                                 ELSE th[u]]
                    /\ cut' = (cut \/ \E u \in Thread : /\ Traversing(u)
                                                        /\ ~(th[u].todo \subseteq visits))
    /\ UNCHANGED <<turn, lock, conn, faults, doubled>>

-----------------------------------------------------------------------------
(* sendmsg() and receivemsg() on the channel *)

\* Somebody else waits on the socket of the channel, or was promised that his
\* request is on its way.
Others(t) ==
    \E u \in Thread \ {t} : th[u].socket = conn.socket

Underway(t) == \E id \in DOMAIN channel : /\ channel[id] \in conn.posted
                                          /\ channel[id] # th[t].msg

\* The socket that the thread takes, or waits on already, was closed by this
\* program, or replaced.
Dead(t) == th[t].socket \notin {0, conn.socket} \/ conn.state = "closed"

\* The message is written; what the other end has closed loses it.
SendDone(t) ==
    /\ At(t, "send")
    /\ ~Dead(t)
    /\ LET r == th[t].msg
       IN  /\ conn' = [conn EXCEPT
                  !.posted = @ \cup {r},
                  !.sent = IF conn.state = "peer" \/ request[r].success = "oneway" THEN @
                           ELSE @ (+) SetToBag({r})]
           /\ doubled' = (doubled \/ (r \in conn.posted))
    /\ th' = [th EXCEPT ![t].pc = "freesend", ![t].ok = TRUE, ![t].socket = 0]
    /\ UNCHANGED <<turn, lock, request, channel, faults, cut>>

\* The buffers are full.
SendBlocks(t) ==
    /\ At(t, "send") /\ ~Dead(t) /\ th[t].socket = 0
    /\ th' = [th EXCEPT ![t].socket = conn.socket]
    /\ turn' = Nobody
    /\ UNCHANGED <<lock, request, channel, conn, history>>

\* The connection is found closed.  Once for a message sendmsg renews it and
\* writes the message again, and that message only; otherwise it gives up.
SendClosed(t) ==
    /\ At(t, "send")
    /\ Dead(t) \/ conn.state = "peer"
    /\ \/ /\ ~th[t].reset
          /\ conn' = Connected(conn.socket + 1)
          /\ th' = [th EXCEPT ![t].reset = TRUE, ![t].socket = 0]
          /\ cut' = (cut \/ Others(t) \/ Underway(t))
       \/ /\ conn' = [conn EXCEPT !.state = "closed", !.wire = EmptyBag, !.sent = EmptyBag]
          /\ th' = [th EXCEPT ![t].pc = "freesend", ![t].ok = FALSE, ![t].socket = 0]
          /\ cut' = (cut \/ Others(t))
    /\ UNCHANGED <<turn, lock, request, channel, faults, doubled>>

\* freesend(), and back to invoke() or to the traversal of getreply().  A
\* request that could not be sent stays registered, though its caller gets an
\* error instead of it.
Sent(t) ==
    /\ At(t, "freesend")
    /\ LET me   == th[t]
           next == IF me.task = "new" THEN Idle
                   ELSE [Idle EXCEPT !.hand = me.hand, !.probe = me.probe,
                            !.pc = IF me.ok THEN "reissue" ELSE "fail",
                            !.todo = IF me.ok THEN me.todo ELSE DOMAIN channel]
       IN  /\ freesend(t, next)
           /\ th' = [th EXCEPT ![t] = next]
           /\ request' = IF me.task = "new" /\ ~me.ok
                         THEN [request EXCEPT ![me.msg].held = FALSE] ELSE request
    /\ UNCHANGED <<receiving, receivers, channel, conn, history>>

-----------------------------------------------------------------------------
(* Waiting for replies *)

\* request:results(), or request:ready() if it only probes, up to lockreceive.
receivefrom(t) ==
    /\ AtOut(t)
    /\ \E r \in DOMAIN request, probe \in {FALSE, (t \in Pollers)} :
         /\ request[r].owner = t /\ request[r].held
         /\ LET next == [Idle EXCEPT !.hand = r, !.probe = probe]
            IN  \/ request[r].success = "nil" /\ lockreceive(t, next)
                \/ /\ request[r].success = "forward"
                   /\ th' = [th EXCEPT ![t] = [next EXCEPT !.pc = "handler"]]
                   /\ turn' = t
                   /\ UNCHANGED <<receiving, receivers>>
    /\ UNCHANGED <<sending, senders, request, channel, conn, history>>

\* receivefrom() is over: only a forward has a handler.
Outcome(t) == IF request[th[t].hand].success = "forward"
              THEN [Idle EXCEPT !.pc = "handler", !.hand = th[t].hand, !.probe = th[t].probe]
              ELSE Idle

\* suspend() of lockreceive returns.
ReceiveNotified(t) ==
    /\ At(t, "recvwait")
    /\ receivers' = Without(receivers, th[t].hand)
    /\ LET next == IF receiving = t THEN [th[t] EXCEPT !.pc = "receive"] ELSE Outcome(t)
       IN  th' = [th EXCEPT ![t] = next] /\ turn' = TurnFor(t, next)
    /\ UNCHANGED <<sending, senders, receiving, request, channel, conn, history>>

Readable == conn.state # "closed" /\ (conn.wire # EmptyBag \/ conn.state = "peer")

\* Nothing has come: a probe is over, and others wait.
ReceiveBlocks(t) ==
    /\ At(t, "receive") /\ ~Readable
    /\ IF th[t].probe THEN Goes(t, "freereceive") /\ UNCHANGED turn
       ELSE /\ ~Dead(t)
            /\ th' = [th EXCEPT ![t].socket = conn.socket]
            /\ turn' = Nobody
    /\ UNCHANGED <<lock, request, channel, conn, history>>

\* Fault: the request stays registered.
UnregisterKeeps(id) == UNCHANGED channel

unregister(id) == channel' = Without(channel, id)

\* A reply to a request that is registered: the thread that waits for it is
\* told, and reading goes on unless the reply is the reader's own.
ReceiveReply(t) ==
    /\ At(t, "receive") /\ ~Dead(t)
    /\ \E m \in BagToSet(conn.wire) :
         /\ m.id \in DOMAIN channel
         /\ LET r == channel[m.id]
            IN  /\ unregister(m.id)
                /\ request' = [request EXCEPT ![r].success = m.status, ![r].reply = m.r]
                /\ notifyreceived(t, r)
                /\ th' = [th EXCEPT ![t].socket = 0,
                       ![t].pc = IF r = th[t].hand THEN "freereceive" ELSE "receive"]
         /\ conn' = [conn EXCEPT !.wire = @ (-) SetToBag({m})]
    /\ UNCHANGED <<lock, history>>

\* Anything else: all that are registered are told of an error.
ReceiveWrong(t) ==
    /\ At(t, "receive") /\ ~Dead(t)
    /\ \E m \in BagToSet(conn.wire) :
         /\ m.id \notin DOMAIN channel
         /\ conn' = [conn EXCEPT !.wire = @ (-) SetToBag({m})]
    /\ th' = [th EXCEPT ![t].pc = "fail", ![t].todo = DOMAIN channel, ![t].socket = 0]
    /\ UNCHANGED <<turn, lock, request, channel, history>>

\* The connection is closed: it is renewed, to send all that are registered
\* again, or refused.
ReceiveClosed(t) ==
    /\ At(t, "receive")
    /\ Dead(t) \/ (conn.state = "peer" /\ conn.wire = EmptyBag)
    /\ th[t].probe => Readable
    /\ cut' = (cut \/ Others(t))
    /\ \/ /\ conn' = Connected(conn.socket + 1)
          /\ th' = [th EXCEPT ![t].pc = "reissue", ![t].todo = DOMAIN channel,
                              ![t].socket = 0]
       \/ /\ conn' = [conn EXCEPT !.state = "closed", !.wire = EmptyBag, !.sent = EmptyBag]
          /\ th' = [th EXCEPT ![t].pc = "fail", ![t].todo = DOMAIN channel,
                              ![t].socket = 0]
    /\ UNCHANGED <<turn, lock, request, channel, faults, doubled>>

\* An iteration over those to be sent again, or what follows the last.
reissue(t) ==
    /\ At(t, "reissue")
    /\ \/ /\ th[t].todo = {}
          /\ Goes(t, "receive")
          /\ UNCHANGED <<turn, sending, senders>>
       \/ \E id \in th[t].todo :
             locksend(t, [th[t] EXCEPT !.task = "reissue", !.msg = channel[id],
                                       !.todo = @ \ {id}])
    /\ UNCHANGED <<receiving, receivers, request, channel, conn, history>>

\* An iteration over those to be told of an error; they stay registered.
Fail(t) ==
    /\ At(t, "fail")
    /\ \/ /\ th[t].todo = {}
          /\ Goes(t, "freereceive")
          /\ UNCHANGED <<turn, request>>
       \/ \E id \in th[t].todo :
             /\ request' = [request EXCEPT ![channel[id]].success = "false"]
             /\ notifyreceived(t, channel[id])
             /\ th' = [th EXCEPT ![t].todo = @ \ {id}]
    /\ UNCHANGED <<lock, channel, conn, history>>

\* freereceive() at the end of reading.
Received(t) ==
    /\ At(t, "freereceive")
    /\ freereceive(t, Outcome(t))
    /\ th' = [th EXCEPT ![t] = Outcome(t)]
    /\ UNCHANGED <<sending, senders, receivers, request, channel, conn, history>>

\* The handler of a forward gets a channel for the new reference, and waits once
\* more, on the same channel as before.
forward(t) ==
    /\ At(t, "handler")
    /\ LET r == th[t].hand
       IN  \/ /\ request' = [request EXCEPT ![r].success = "nil", ![r].forwarded = TRUE]
              /\ lockreceive(t, th[t])
           \/ /\ request' = [request EXCEPT ![r].success = "false"]
              /\ th' = [th EXCEPT ![t] = Idle] /\ turn' = Nobody
              /\ UNCHANGED <<receiving, receivers>>
    /\ UNCHANGED <<sending, senders, channel, conn, history>>

-----------------------------------------------------------------------------
(* The scheduler and the other end of the connection *)

\* A thread that is not suspended continues, on a socket when it can.
Execute(t) ==
    /\ turn = Nobody
    /\ th[t].pc \notin {"out", "sendwait", "recvwait"}
    /\ th[t].socket # 0 => ~Dead(t)
    /\ th[t].socket # 0 /\ th[t].pc = "receive" => Readable
    /\ turn' = t
    /\ UNCHANGED <<th, lock, request, channel, conn, history>>

\* Whether select() reports a socket that this program has closed meanwhile is
\* up to LuaSocket.
ExecuteDead(t) ==
    /\ turn = Nobody
    /\ th[t].socket # 0 /\ Dead(t)
    /\ turn' = t
    /\ UNCHANGED <<th, lock, request, channel, conn, history>>

\* Requests are answered in any order, each with a result or with a forward.
Answer ==
    /\ turn = Nobody /\ conn.state = "open"
    /\ \E r \in BagToSet(conn.sent), status \in {"true", "forward"} :
         /\ status = "forward" => faults < MaxFaults
         /\ faults' = IF status = "forward" THEN faults + 1 ELSE faults
         /\ conn' = [conn EXCEPT
                !.sent = @ (-) SetToBag({r}),
                !.wire = @ (+) SetToBag({[id |-> request[r].id, r |-> r, status |-> status]})]
    /\ UNCHANGED <<turn, th, lock, request, channel, doubled, cut>>

\* The other end sends an error, or closes the connection.
PeerFails ==
    /\ turn = Nobody /\ conn.state = "open"
    /\ faults < MaxFaults /\ faults' = faults + 1
    /\ \/ conn' = [conn EXCEPT !.wire = @ (+) SetToBag({[id |-> 0, r |-> 0, status |-> "error"]})]
       \/ conn' = [conn EXCEPT !.state = "peer", !.sent = EmptyBag]
    /\ UNCHANGED <<turn, th, lock, request, channel, doubled, cut>>

\* What a thread does when it has the turn.
Step(t) ==
    \/ SendNotified(t) \/ newrequest(t)
    \/ SendDone(t) \/ SendBlocks(t) \/ SendClosed(t) \/ Sent(t)
    \/ ReceiveNotified(t) \/ ReceiveBlocks(t) \/ ReceiveReply(t)
    \/ ReceiveWrong(t) \/ ReceiveClosed(t) \/ reissue(t) \/ Fail(t) \/ Received(t)
    \/ forward(t)

Next ==
    \/ \E t \in Thread : invoke(t) \/ receivefrom(t) \/ Step(t)
                          \/ Execute(t) \/ ExecuteDead(t)
    \/ Answer \/ PeerFails

Spec == /\ Init /\ [][Next]_vars
        /\ \A t \in Thread : WF_vars(Step(t)) /\ SF_vars(Execute(t))
        /\ SF_vars(Answer)

-----------------------------------------------------------------------------
(* Properties *)

\* The threads that may be writing to the connection.
Senders == {t \in Thread : \/ th[t].pc \in {"newrequest", "send", "freesend"}
                           \/ At(t, "sendwait")}

Readers == {t \in Thread :
    \/ th[t].pc \in {"receive", "reissue", "fail", "freereceive"}
    \/ th[t].task = "reissue"
    \/ At(t, "recvwait") /\ receiving = t}

\* The variables have their types; an identifier leads to a request that has it.
ClientTypeOK ==
    /\ turn \in Thread \cup {Nobody} /\ receiving \in Thread \cup {Nobody}
    /\ sending \in BOOLEAN
    /\ DOMAIN channel \subseteq 1..MaxRequests
    /\ \A id \in DOMAIN channel : /\ channel[id] \in DOMAIN request
                                  /\ request[channel[id]].id = id

\* One thread at a time writes to the connection, so that messages are not
\* mixed, and one at a time reads; the locks tell so.
OneAtATime ==
    /\ Cardinality(Senders) = IF sending THEN 1 ELSE 0
    /\ Readers = {receiving} \ {Nobody}

\* Whoever waits to send waits for a thread that has the lock, and whoever waits
\* for a reply for one that reads; each waits in one place.
NobodyWaitsAlone ==
    /\ senders # << >> => sending
    /\ IsInjective(senders)
    /\ ToSet(senders) = {t \in Thread : th[t].pc = "sendwait" /\ turn # t}
    /\ \A t \in Thread : th[t].pc = "recvwait" =>
          /\ th[t].hand \in DOMAIN receivers /\ receivers[th[t].hand] = t
          /\ receiving # Nobody

\* The mutex does what it is for, and the variables have their types.
MutexKept == ClientTypeOK /\ OneAtATime /\ NobodyWaitsAlone

\* A request without an outcome stays registered, whatever fails and however
\* often the connection is renewed, unless it was forwarded: its identifier
\* goes to no other, and the next renewal sends it again.
PendingIsRegistered ==
    \A r \in DOMAIN request :
        request[r].success = "nil" /\ ~request[r].forwarded =>
            /\ request[r].id \in DOMAIN channel
            /\ channel[request[r].id] = r

\* As long as no request is sent twice on a connection, a reply goes to the
\* request that it answers, in whatever order replies come, identifiers are
\* used again and the connection is renewed.
OwnReply ==
    ~doubled => \A r \in DOMAIN request : request[r].reply \in {0, r}

\* Nor is what was answered sent again then, on a later connection.
AnsweredIsNotSent ==
    [][~doubled => \A r \in conn'.posted \ conn.posted : request[r].success # "true"]_vars

\* A thread that waits for a reply returns, unless the request was forwarded,
\* or a thread gave the connection up while others relied on it, or made a
\* request while another thread was sending them all again, so that one is skipped.
EveryWaitEnds ==
    \A t \in Thread :
        th[t].hand # 0
            ~> (th[t].hand = 0 \/ request[th[t].hand].forwarded \/ cut)

=============================================================================

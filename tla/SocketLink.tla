----------------------------- MODULE SocketLink -----------------------------
(***************************************************************************)
(* One direction of the connection between two machines                    *)
(* (oneflow/core/comm_network/epoll): threads that call AsyncWrite, the    *)
(* poller thread that runs the SocketWriteHelper, the socket, and the      *)
(* poller thread of the peer that runs its SocketReadHelper.  Sockets are  *)
(* non-blocking and registered edge-triggered.                             *)
(*                                                                         *)
(* A message is a header of HeadSize units, which kRequestRead follows by  *)
(* the memory it announces; a unit is what no read or write splits.        *)
(***************************************************************************)
EXTENDS Integers, Sequences, FiniteSets

CONSTANTS
    Writer,      \* threads that send messages over this connection
    Program,     \* Writer -> sequence of body sizes, NoBody where no body follows
    NoBody,
    HeadSize,    \* sizeof(SocketMsg), in units
    Capacity,    \* units the kernel holds between the two machines
    MayCrash     \* whether the sending process may end without a shutdown

ASSUME ProgramAssumption ==
    NoBody \notin Nat /\ Program \in [Writer -> Seq(Nat \cup {NoBody})]
ASSUME SizeAssumption ==
    HeadSize \in Nat \ {0} /\ Capacity \in Nat \ {0} /\ MayCrash \in BOOLEAN

Msg == UNION {{w} \X (1 .. Len(Program[w])) : w \in Writer}
Body(m) == Program[m[1]][m[2]]
Size(m) == HeadSize + (IF Body(m) = NoBody THEN 0 ELSE Body(m))

VARIABLES
    next,                  \* messages each writer has handed over
    wpc,                   \* "event": the writer is about to SendQueueNotEmptyEvent
    pending, cur,          \* pending_msg_queue_ and cur_msg_queue_
    eventCnt,              \* the counter of queue_not_empty_fd_
    edge,                  \* events raised and not yet returned by epoll_wait
    ppc, batch,            \* the writing poller; events of its epoll_wait to be handled
    whandle, wmsg, wleft,  \* cur_write_handle_, cur_msg_, write_size_
    sock,                  \* units in the socket: <<m, i>> is the i-th of message m
    nospace,               \* a write failed for lack of space
    rpc, rhandle, rbuf, rleft,  \* the reading poller, what it has read, read_size_
    delivered,             \* messages handled by the peer
    closed,                \* the sending process has ended
    accepted               \* history: messages in the order of AsyncWrite

writerVars == <<next, wpc, pending, accepted>>
pollVars == <<ppc, batch>>
writeVars == <<cur, whandle, wmsg, wleft>>
readVars == <<rpc, rhandle, rbuf, rleft, delivered>>
vars == <<writerVars, eventCnt, edge, pollVars, writeVars, sock, nospace, readVars, closed>>

Init ==
    /\ next = [w \in Writer |-> 0] /\ wpc = [w \in Writer |-> "idle"]
    /\ pending = <<>> /\ cur = <<>>
    /\ eventCnt = 0 /\ edge = {"EPOLLOUT"}
    /\ ppc = "wait" /\ batch = {}
    /\ whandle = "InitMsg" /\ wmsg = <<>> /\ wleft = 0
    /\ sock = <<>> /\ nospace = FALSE
    /\ rpc = "wait" /\ rhandle = "MsgHead" /\ rbuf = <<>> /\ rleft = HeadSize
    /\ delivered = <<>> /\ closed = FALSE /\ accepted = <<>>

-----------------------------------------------------------------------------
(***************************************************************************)
(* SocketWriteHelper::AsyncWrite: push under the mutex, then wake the      *)
(* poller if the queue was empty.                                          *)
(***************************************************************************)
NeedSendEvent_AfterPush(q, m) == Append(q, m) = <<>>
NeedSendEvent(q, m) == q = <<>>

AsyncWrite(w) ==
    /\ ~closed /\ wpc[w] = "idle" /\ next[w] < Len(Program[w])
    /\ LET m == <<w, next[w] + 1>> IN
       /\ pending' = Append(pending, m) /\ accepted' = Append(accepted, m)
       /\ wpc' = [wpc EXCEPT ![w] = IF NeedSendEvent(pending, m) THEN "event" ELSE "idle"]
    /\ next' = [next EXCEPT ![w] = @ + 1]
    /\ UNCHANGED <<eventCnt, edge, pollVars, writeVars, sock, nospace, readVars, closed>>

SendQueueNotEmptyEvent(w) ==
    /\ ~closed /\ wpc[w] = "event"
    /\ eventCnt' = eventCnt + 1 /\ edge' = edge \cup {"event"}
    /\ wpc' = [wpc EXCEPT ![w] = "idle"]
    /\ UNCHANGED <<next, pending, accepted, pollVars, writeVars, sock, nospace, readVars, closed>>

-----------------------------------------------------------------------------
(***************************************************************************)
(* IOEventPoller::EpollLoop of the sending machine.  epoll_wait returns    *)
(* the events that were raised and whose descriptor is still ready.        *)
(***************************************************************************)
Ready == {e \in edge : \/ e = "event" /\ eventCnt > 0
                       \/ e = "EPOLLOUT" /\ Len(sock) < Capacity}

EpollWait ==
    /\ ~closed /\ ppc = "wait" /\ Ready # {}
    /\ batch' = Ready /\ edge' = edge \ Ready
    /\ ppc' = "handle"
    /\ UNCHANGED <<writerVars, eventCnt, writeVars, sock, nospace, readVars, closed>>

NextEvent == ppc' = IF batch = {} THEN "wait" ELSE "handle"

ProcessQueueNotEmptyEvent ==
    /\ ~closed /\ ppc = "handle" /\ "event" \in batch
    /\ eventCnt' = 0
    /\ batch' = batch \ {"event"} /\ ppc' = "write"
    /\ UNCHANGED <<writerVars, edge, writeVars, sock, nospace, readVars, closed>>

NotifyMeSocketWriteable ==
    /\ ~closed /\ ppc = "handle" /\ "EPOLLOUT" \in batch
    /\ batch' = batch \ {"EPOLLOUT"} /\ ppc' = "write"
    /\ UNCHANGED <<writerVars, eventCnt, edge, writeVars, sock, nospace, readVars, closed>>

(***************************************************************************)
(* WriteUntilMsgQueueEmptyOrSocketNotWriteable, one handle at a time.      *)
(* InitMsgWriteHandle swaps the queues, under the mutex, when its own one  *)
(* is empty.                                                               *)
(***************************************************************************)
InitMsgWriteHandle_PendingFirst ==
    /\ ~closed /\ ppc = "write" /\ whandle = "InitMsg"
    /\ LET queue == pending \o cur
       IN /\ pending' = <<>>
          /\ IF queue = <<>>
             THEN NextEvent /\ UNCHANGED writeVars
             ELSE /\ wmsg' = Head(queue) /\ cur' = Tail(queue)
                  /\ wleft' = HeadSize /\ whandle' = "MsgHead"
                  /\ UNCHANGED ppc
    /\ UNCHANGED <<next, wpc, accepted, eventCnt, edge, batch, sock, nospace, readVars, closed>>

InitMsgWriteHandle ==
    /\ ~closed /\ ppc = "write" /\ whandle = "InitMsg"
    /\ LET swap == cur = <<>>
           queue == IF swap THEN pending ELSE cur
       IN /\ pending' = IF swap THEN <<>> ELSE pending
          /\ IF queue = <<>>
             THEN NextEvent /\ UNCHANGED writeVars
             ELSE /\ wmsg' = Head(queue) /\ cur' = Tail(queue)
                  /\ wleft' = HeadSize /\ whandle' = "MsgHead"
                  /\ UNCHANGED ppc
    /\ UNCHANGED <<next, wpc, accepted, eventCnt, edge, batch, sock, nospace, readVars, closed>>

WriteDone_EveryTypeHasBody ==
    IF whandle = "MsgHead"
    THEN whandle' = "MsgBody" /\ wleft' = Body(wmsg)
    ELSE whandle' = "InitMsg" /\ wleft' = 0

\* SetStatusWhenMsgHeadDone and SetStatusWhenMsgBodyDone.
WriteDone ==
    IF whandle = "MsgHead" /\ Body(wmsg) # NoBody
    THEN whandle' = "MsgBody" /\ wleft' = Body(wmsg)
    ELSE whandle' = "InitMsg" /\ wleft' = 0

\* How much of the message is written: where write_ptr_ points to.
Written == (IF whandle = "MsgHead" THEN HeadSize ELSE Size(wmsg)) - wleft

\* DoCurWrite: the kernel takes n units; a write of nothing succeeds.
DoCurWrite(n) ==
    /\ ~closed /\ ppc = "write" /\ whandle # "InitMsg"
    /\ n <= wleft /\ n <= Capacity - Len(sock) /\ (n = 0 => wleft = 0)
    /\ sock' = sock \o [i \in 1 .. n |-> <<wmsg, Written + i>>]
    /\ edge' = IF n > 0 THEN edge \cup {"EPOLLIN"} ELSE edge
    /\ IF n = wleft THEN WriteDone ELSE wleft' = wleft - n /\ UNCHANGED whandle
    /\ UNCHANGED <<writerVars, eventCnt, pollVars, cur, wmsg, nospace, readVars, closed>>

\* EAGAIN: the loop ends; the kernel raises EPOLLOUT once there is space again.
WriteAgain ==
    /\ ~closed /\ ppc = "write" /\ whandle # "InitMsg"
    /\ wleft > 0 /\ Len(sock) = Capacity
    /\ nospace' = TRUE /\ NextEvent
    /\ UNCHANGED <<writerVars, eventCnt, edge, batch, writeVars, sock, readVars, closed>>

-----------------------------------------------------------------------------
(***************************************************************************)
(* The reading machine.  AddFd registers EPOLLIN and EPOLLOUT only; the    *)
(* loop treats EPOLLRDHUP, had it been registered, as fatal.               *)
(***************************************************************************)
RegisteredEvents == {"EPOLLIN", "EPOLLOUT"}

NotifyMeSocketReadable ==
    /\ rpc = "wait" /\ "EPOLLIN" \in edge /\ (sock # <<>> \/ closed)
    /\ edge' = edge \ {"EPOLLIN"}
    /\ rpc' = IF closed /\ "EPOLLRDHUP" \in RegisteredEvents THEN "fatal" ELSE "read"
    /\ UNCHANGED <<writerVars, eventCnt, pollVars, writeVars, sock, nospace,
                   rhandle, rbuf, rleft, delivered, closed>>

\* What the header that has been read says: the message whose units it consists of.
ReadMsg(buf) == buf[1][1]

ReadDone_AddSize(buf) ==
    IF rhandle = "MsgHead" /\ Body(ReadMsg(buf)) # NoBody
    THEN /\ rhandle' = "MsgBody" /\ rleft' = Body(ReadMsg(buf)) /\ rbuf' = buf
         /\ UNCHANGED delivered
    ELSE /\ rhandle' = "MsgHead" /\ rleft' = rleft + HeadSize /\ rbuf' = <<>>
         /\ delivered' = Append(delivered, ReadMsg(buf))

\* SetStatusWhenMsgHeadDone and SetStatusWhenMsgBodyDone.  The body goes to the
\* memory that dst_token names, which has the size of the memory it is read from.
ReadDone(buf) ==
    IF rhandle = "MsgHead" /\ Body(ReadMsg(buf)) # NoBody
    THEN /\ rhandle' = "MsgBody" /\ rleft' = Body(ReadMsg(buf)) /\ rbuf' = buf
         /\ UNCHANGED delivered
    ELSE /\ rhandle' = "MsgHead" /\ rleft' = HeadSize /\ rbuf' = <<>>
         /\ delivered' = Append(delivered, ReadMsg(buf))

DoCurRead_NothingIsNoProgress(n) ==
    /\ rpc = "read" /\ n <= rleft /\ n <= Len(sock) /\ n > 0
    /\ sock' = SubSeq(sock, n + 1, Len(sock))
    /\ LET buf == rbuf \o SubSeq(sock, 1, n) IN
       IF n = rleft THEN ReadDone(buf)
                    ELSE rbuf' = buf /\ rleft' = rleft - n /\ UNCHANGED <<rhandle, delivered>>
    /\ edge' = IF nospace /\ n > 0 THEN edge \cup {"EPOLLOUT"} ELSE edge
    /\ nospace' = (nospace /\ n = 0)
    /\ UNCHANGED <<writerVars, eventCnt, pollVars, writeVars, rpc, closed>>

\* DoCurRead: n units have arrived; a read of nothing succeeds.
DoCurRead(n) ==
    /\ rpc = "read" /\ n <= rleft /\ n <= Len(sock) /\ (n = 0 => rleft = 0)
    /\ sock' = SubSeq(sock, n + 1, Len(sock))
    /\ LET buf == rbuf \o SubSeq(sock, 1, n) IN
       IF n = rleft THEN ReadDone(buf)
                    ELSE rbuf' = buf /\ rleft' = rleft - n /\ UNCHANGED <<rhandle, delivered>>
    /\ edge' = IF nospace /\ n > 0 THEN edge \cup {"EPOLLOUT"} ELSE edge
    /\ nospace' = (nospace /\ n = 0)
    /\ UNCHANGED <<writerVars, eventCnt, pollVars, writeVars, rpc, closed>>

\* EAGAIN: nothing to read.
ReadAgain ==
    /\ rpc = "read" /\ rleft > 0 /\ sock = <<>> /\ ~closed
    /\ rpc' = "wait"
    /\ UNCHANGED <<writerVars, eventCnt, edge, pollVars, writeVars, sock, nospace,
                   rhandle, rbuf, rleft, delivered, closed>>

\* End of file: read returns 0, which is not an error, and the loop goes on.
ReadEof ==
    /\ rpc = "read" /\ rleft > 0 /\ sock = <<>> /\ closed
    /\ UNCHANGED vars

\* The sending process ends; its kernel closes the connection.
PeerCloses ==
    /\ MayCrash /\ ~closed
    /\ closed' = TRUE /\ edge' = edge \cup {"EPOLLIN"}
    /\ UNCHANGED <<writerVars, eventCnt, pollVars, writeVars, sock, nospace, readVars>>

-----------------------------------------------------------------------------
WriterStep(w) == AsyncWrite(w) \/ SendQueueNotEmptyEvent(w)
WritePollerStep ==
    \/ EpollWait \/ ProcessQueueNotEmptyEvent \/ NotifyMeSocketWriteable
    \/ InitMsgWriteHandle \/ WriteAgain \/ \E n \in 0 .. Capacity : DoCurWrite(n)
ReadPollerStep ==
    \/ NotifyMeSocketReadable \/ ReadAgain \/ ReadEof \/ \E n \in 0 .. Capacity : DoCurRead(n)

Next == (\E w \in Writer : WriterStep(w)) \/ WritePollerStep \/ ReadPollerStep \/ PeerCloses

Spec == Init /\ [][Next]_vars

\* Threads run.
FairSpec ==
    /\ Spec
    /\ \A w \in Writer : WF_vars(WriterStep(w))
    /\ WF_vars(WritePollerStep) /\ WF_vars(ReadPollerStep)

-----------------------------------------------------------------------------
TypeOK ==
    /\ next \in [Writer -> Nat] /\ wpc \in [Writer -> {"idle", "event"}]
    /\ pending \in Seq(Msg) /\ cur \in Seq(Msg) /\ accepted \in Seq(Msg) /\ wmsg \in Msg \cup {<<>>}
    /\ eventCnt \in Nat /\ edge \subseteq {"event", "EPOLLIN", "EPOLLOUT"}
    /\ ppc \in {"wait", "handle", "write"} /\ batch \subseteq {"event", "EPOLLOUT"}
    /\ whandle \in {"InitMsg", "MsgHead", "MsgBody"} /\ wleft \in Nat
    /\ sock \in Seq(Msg \X Nat) /\ Len(sock) <= Capacity
    /\ nospace \in BOOLEAN /\ closed \in BOOLEAN
    /\ rpc \in {"wait", "read", "fatal"} /\ rhandle \in {"MsgHead", "MsgBody"}
    /\ rbuf \in Seq(Msg \X Nat) /\ rleft \in Nat
    /\ delivered \in Seq(Msg)

(***************************************************************************)
(* No poller sleeps on something to do.  AsyncWrite raises the event only  *)
(* when the queue it pushes to was empty, the poller takes the whole queue *)
(* at once and may stop in the middle of a message when the socket is full;*)
(* yet whatever is left when it waits is announced by an event that is     *)
(* raised, by a writer about to raise it, or by the space to come.  And    *)
(* units in the socket are announced to a reader that waits, although it   *)
(* is told of what arrives only once.                                      *)
(***************************************************************************)
NoLostEvent ==
    /\ ppc = "wait" /\ ~closed =>
        /\ cur # <<>> \/ whandle # "InitMsg" => nospace \/ "EPOLLOUT" \in edge
        /\ pending # <<>> => \/ nospace \/ "EPOLLOUT" \in edge
                             \/ "event" \in edge /\ eventCnt > 0
                             \/ \E w \in Writer : wpc[w] = "event"
    /\ rpc = "wait" /\ sock # <<>> => "EPOLLIN" \in edge

(***************************************************************************)
(* The stream stays framed: what the reader has read of a message, after   *)
(* partial reads and writes, is that message from its first unit on, and   *)
(* never the units of another one.                                         *)
(***************************************************************************)
Framed == \A i \in 1 .. Len(rbuf) : rbuf[i] = <<ReadMsg(rbuf), i>>

(***************************************************************************)
(* The connection implements MsgFifo: the messages on their way are those  *)
(* that were accepted after the last one delivered.                        *)
(***************************************************************************)
InFlight == SubSeq(accepted, Len(delivered) + 1, Len(accepted))
Fifo == INSTANCE MsgFifo WITH queue <- InFlight
ImplementsFifo == Fifo!Spec

(***************************************************************************)
(* Every message handed to AsyncWrite is handled by the peer, unless the   *)
(* sending process ends.                                                   *)
(***************************************************************************)
AllDelivered == <>(closed \/ Len(delivered) = Cardinality(Msg))

(***************************************************************************)
(* EpollLoop: "fd ... closed by peer" is fatal, so a process whose peer    *)
(* has gone stops.                                                         *)
(***************************************************************************)
PeerCloseIsFatal == closed ~> rpc = "fatal"

=============================================================================

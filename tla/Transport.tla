----------------------------- MODULE Transport ------------------------------
(***************************************************************************)
(* Transport (oneflow/core/transport/transport.cpp) on the read stream of  *)
(* CommNet (comm_network/comm_network.cpp) and the messages of             *)
(* EpollCommNet: how the memory given to Send gets to the memory given to  *)
(* Receive, between machines and on one machine.                           *)
(*                                                                         *)
(* A channel is what framework/transport_util.cpp makes of a pair of       *)
(* threads: the k-th Send and the k-th Receive use the k-th token, whose   *)
(* counter is a bit field that wraps around.  Connections are FIFO, as     *)
(* SocketLink implements them.                                             *)
(***************************************************************************)
EXTENDS Integers, Sequences, FiniteSets, Functions

CONSTANTS
    Machine, Channel, Src, Dst,   \* the machines a channel leads from and to
    Calls,                        \* Channel -> number of transfers
    SeqMod,                       \* 2 ^ 24 in the code: values of seq_id_
    Window,                       \* callbacks a thread leaves outstanding
    SendSize, MaxSize             \* sizes by channel and call

Xfer == UNION {{c} \X (1 .. Calls[c]) : c \in Channel}
Token == Channel \X (0 .. SeqMod - 1)

ASSUME ChannelAssumption ==
    /\ Src \in [Channel -> Machine] /\ Dst \in [Channel -> Machine] /\ Calls \in [Channel -> Nat]
ASSUME WindowAssumption == SeqMod \in Nat /\ Window \in Nat \ {0} /\ Window < SeqMod
ASSUME SizeAssumption ==
    /\ SendSize \in [Xfer -> Nat] /\ MaxSize \in [Xfer -> Nat]
    /\ \A x \in Xfer : SendSize[x] <= MaxSize[x]

VARIABLES
    sent, recvd,      \* calls of Send and Receive begun, by channel
    slog, rlog,       \* callbacks that ran, by channel, in order
    moved,            \* <<c, k, j>>: memory of Send k copied to that of Receive j
    sstat, dstat,     \* token2status_ of the source and of the destination
    reg,              \* registered memory: <<c, k, side, size>>
    net,              \* connections, by pair of machines
    msgch,            \* msg_channel_
    doing,            \* DoRead under way, by thread
    ready, waiting,   \* ready_cbs_ and waiting_list
    cb,               \* what the callback poller is in the middle of
    lstat, lpc        \* token2local_copy_status_ and the threads that found it

callVars == <<sent, recvd, slog, rlog, moved>>
statVars == <<sstat, dstat, reg>>
commVars == <<net, msgch, ready, waiting, cb>>
localVars == <<lstat, lpc>>
vars == <<callVars, statVars, commVars, doing, localVars>>

None == <<>>
Local(c) == Src[c] = Dst[c]
TokenOf(c, k) == <<c, k % SeqMod>>
Poller == {"poller"} \X Machine
Receiver == {"receiver"} \X Channel
MachineOf(e) == IF e \in Poller THEN e[2] ELSE Dst[e[2]]

Init ==
    /\ sent = [c \in Channel |-> 0] /\ recvd = [c \in Channel |-> 0]
    /\ slog = [c \in Channel |-> <<>>] /\ rlog = [c \in Channel |-> <<>>]
    /\ moved = {} /\ reg = {}
    /\ sstat = [t \in Token |-> None] /\ dstat = [t \in Token |-> None]
    /\ net = [l \in Machine \X Machine |-> <<>>]
    /\ msgch = [m \in Machine |-> <<>>]
    /\ doing = [e \in Poller \cup Receiver |-> None]
    /\ ready = [m \in Machine |-> <<>>] /\ waiting = [m \in Machine |-> <<>>]
    /\ cb = [m \in Machine |-> None]
    /\ lstat = [t \in Token |-> None]
    /\ lpc = [p \in Channel \X {"send", "recv"} |-> None]

\* SendTransportMsg, and the messages of a read.
SendTo(from, to, msg) == net' = [net EXCEPT ![<<from, to>>] = Append(@, msg)]

\* transport_util: a thread waits for its callbacks in batches.
MaySend(c) == sent[c] < Calls[c] /\ sent[c] - Len(slog[c]) < Window /\ lpc[<<c, "send">>] = None
MayReceive(c) ==
    /\ recvd[c] < Calls[c] /\ recvd[c] - Len(rlog[c]) < Window
    /\ doing[<<"receiver", c>>] = None /\ lpc[<<c, "recv">>] = None

-----------------------------------------------------------------------------
(***************************************************************************)
(* Send to another machine.  The status is filled in outside of the lock:  *)
(* nobody looks the token up before the message is on its way.             *)
(***************************************************************************)
SendCheck(c) == sstat[TokenOf(c, sent[c] + 1)] = None

Send(c) ==
    LET k == sent[c] + 1 IN
    /\ MaySend(c) /\ ~Local(c) /\ SendCheck(c)
    /\ sstat' = [sstat EXCEPT ![TokenOf(c, k)] = [src |-> k, size |-> SendSize[<<c, k>>]]]
    /\ reg' = reg \cup {<<c, k, "src", SendSize[<<c, k>>]>>}
    /\ SendTo(Src[c], Dst[c], [type |-> "Send", c |-> c, src |-> k, size |-> SendSize[<<c, k>>]])
    /\ sent' = [sent EXCEPT ![c] = k]
    /\ UNCHANGED <<recvd, slog, rlog, moved, dstat, msgch, ready, waiting, cb, doing, localVars>>

\* Receive from another machine: whoever comes second reads.
ReceiveCheck(c) ==
    LET k == recvd[c] + 1 s == dstat[TokenOf(c, k)] IN s # None => s.size <= MaxSize[<<c, k>>]

Receive(c) ==
    LET k == recvd[c] + 1
        t == TokenOf(c, k)
    IN
    /\ MayReceive(c) /\ ~Local(c) /\ ReceiveCheck(c)
    /\ IF dstat[t] = None
       THEN /\ dstat' = [dstat EXCEPT ![t] = [send |-> 0, recv |-> k, dst |-> 0, size |-> MaxSize[<<c, k>>]]]
            /\ UNCHANGED doing
       ELSE /\ dstat' = [dstat EXCEPT ![t].recv = k]
            /\ doing' = [doing EXCEPT ![<<"receiver", c>>] = <<t, "lock">>]
    /\ recvd' = [recvd EXCEPT ![c] = k]
    /\ UNCHANGED <<sent, slog, rlog, moved, sstat, reg, commVars, localVars>>

(***************************************************************************)
(* The poller of msg_channel_.  A Send message creates the status, or      *)
(* gives the one of Receive its true size and reads.                       *)
(***************************************************************************)
NextMsg(m, type) ==
    /\ doing[<<"poller", m>>] = None /\ msgch[m] # <<>> /\ Head(msgch[m]).type = type

SendMsgCheck(m) ==
    LET msg == Head(msgch[m]) s == dstat[TokenOf(msg.c, msg.src)] IN
    s # None => s.size >= msg.size /\ s.send = 0

HandlerAchievedTransportSendMsgFromSrcMachine_AlwaysReads(m) ==
    LET msg == Head(msgch[m])
        t == TokenOf(msg.c, msg.src)
    IN
    /\ NextMsg(m, "Send") /\ SendMsgCheck(m)
    /\ msgch' = [msgch EXCEPT ![m] = Tail(@)]
    /\ IF dstat[t] = None
       THEN /\ dstat' = [dstat EXCEPT ![t] = [send |-> msg.src, recv |-> 0, dst |-> 0, size |-> msg.size]]
            /\ doing' = [doing EXCEPT ![<<"poller", m>>] = <<t, "lock">>]
       ELSE /\ dstat' = [dstat EXCEPT ![t].send = msg.src, ![t].size = msg.size]
            /\ doing' = [doing EXCEPT ![<<"poller", m>>] = <<t, "lock">>]
    /\ UNCHANGED <<callVars, sstat, reg, net, ready, waiting, cb, localVars>>

HandlerAchievedTransportSendMsgFromSrcMachine_KeepsSize(m) ==
    LET msg == Head(msgch[m])
        t == TokenOf(msg.c, msg.src)
    IN
    /\ NextMsg(m, "Send") /\ SendMsgCheck(m)
    /\ msgch' = [msgch EXCEPT ![m] = Tail(@)]
    /\ IF dstat[t] = None
       THEN /\ dstat' = [dstat EXCEPT ![t] = [send |-> msg.src, recv |-> 0, dst |-> 0, size |-> msg.size]]
            /\ UNCHANGED doing
       ELSE /\ dstat' = [dstat EXCEPT ![t].send = msg.src]
            /\ doing' = [doing EXCEPT ![<<"poller", m>>] = <<t, "lock">>]
    /\ UNCHANGED <<callVars, sstat, reg, net, ready, waiting, cb, localVars>>

HandlerAchievedTransportSendMsgFromSrcMachine(m) ==
    LET msg == Head(msgch[m])
        t == TokenOf(msg.c, msg.src)
    IN
    /\ NextMsg(m, "Send") /\ SendMsgCheck(m)
    /\ msgch' = [msgch EXCEPT ![m] = Tail(@)]
    /\ IF dstat[t] = None
       THEN /\ dstat' = [dstat EXCEPT ![t] = [send |-> msg.src, recv |-> 0, dst |-> 0, size |-> msg.size]]
            /\ UNCHANGED doing
       ELSE /\ dstat' = [dstat EXCEPT ![t].send = msg.src, ![t].size = msg.size]
            /\ doing' = [doing EXCEPT ![<<"poller", m>>] = <<t, "lock">>]
    /\ UNCHANGED <<callVars, sstat, reg, net, ready, waiting, cb, localVars>>

\* An Ack: forget the token and the memory, then the callback.
AckMsgCheck(m) ==
    LET msg == Head(msgch[m]) IN
    /\ sstat[TokenOf(msg.c, msg.src)] = [src |-> msg.src, size |-> msg.size]
    /\ <<msg.c, msg.src, "src", msg.size>> \in reg

HandlerAchievedTransportAckMsgFromDstMachine_KeepsMemory(m) ==
    LET msg == Head(msgch[m]) IN
    /\ NextMsg(m, "Ack") /\ AckMsgCheck(m)
    /\ msgch' = [msgch EXCEPT ![m] = Tail(@)]
    /\ sstat' = [sstat EXCEPT ![TokenOf(msg.c, msg.src)] = None]
    /\ slog' = [slog EXCEPT ![msg.c] = Append(@, msg.src)]
    /\ UNCHANGED <<sent, recvd, rlog, moved, dstat, reg, net, ready, waiting, cb, doing, localVars>>

HandlerAchievedTransportAckMsgFromDstMachine(m) ==
    LET msg == Head(msgch[m]) IN
    /\ NextMsg(m, "Ack") /\ AckMsgCheck(m)
    /\ msgch' = [msgch EXCEPT ![m] = Tail(@)]
    /\ sstat' = [sstat EXCEPT ![TokenOf(msg.c, msg.src)] = None]
    /\ reg' = reg \ {<<msg.c, msg.src, "src", msg.size>>}
    /\ slog' = [slog EXCEPT ![msg.c] = Append(@, msg.src)]
    /\ UNCHANGED <<sent, recvd, rlog, moved, dstat, net, ready, waiting, cb, doing, localVars>>

-----------------------------------------------------------------------------
(***************************************************************************)
(* The read stream of CommNet.  Work goes to the callback poller at once   *)
(* if nothing waits; a read leaves a mark that its end removes.            *)
(***************************************************************************)
Mark == None
IsRead(work) == work[2] = "read"

AddWorkToStream(m, work) ==
    LET direct == waiting[m] = <<>> IN
    /\ ready' = IF direct THEN [ready EXCEPT ![m] = Append(@, work)] ELSE ready
    /\ waiting' = [waiting EXCEPT ![m] = @ \o (IF direct THEN <<>> ELSE <<work>>)
                                            \o (IF IsRead(work) THEN <<Mark>> ELSE <<>>)]

Released_BeforeRead(q) ==
    LET reads == {i \in 1 .. Len(q) : q[i] # Mark /\ IsRead(q[i])} IN
    IF reads = {} THEN Len(q) ELSE (CHOOSE i \in reads : \A j \in reads : i <= j) - 1


\* ReadDone: the callbacks behind the mark, up to and with the next read.
Released(q) ==
    LET reads == {i \in 1 .. Len(q) : q[i] # Mark /\ IsRead(q[i])} IN
    IF reads = {} THEN Len(q) ELSE CHOOSE i \in reads : \A j \in reads : i <= j
ReadDoneCheck(m) ==
    /\ waiting[m] # <<>> /\ Head(waiting[m]) = Mark
    /\ LET q == Tail(waiting[m]) IN \A i \in 1 .. Released(q) : q[i] # Mark
ReadDone_All(m) ==
    /\ ready' = [ready EXCEPT ![m] = @ \o Tail(waiting[m])]
    /\ waiting' = [waiting EXCEPT ![m] = <<>>]
ReadDone(m) ==
    LET q == Tail(waiting[m]) IN
    /\ ready' = [ready EXCEPT ![m] = @ \o SubSeq(q, 1, Released(q))]
    /\ waiting' = [waiting EXCEPT ![m] = SubSeq(q, Released(q) + 1, Len(q))]

(***************************************************************************)
(* DoRead, by the thread that came second: register the memory under the   *)
(* lock, queue the read, queue its callback.  The read stream is shared by *)
(* all threads of the machine, and the two are queued separately.          *)
(***************************************************************************)
DoReadCheck(e) == LET s == dstat[doing[e][1]] IN s # None /\ s.dst = 0 /\ s.send # 0 /\ s.recv # 0

DoReadLock(e) ==
    /\ doing[e] # None /\ doing[e][2] = "lock" /\ DoReadCheck(e)
    /\ LET t == doing[e][1] s == dstat[t] IN
       /\ reg' = reg \cup {<<t[1], s.recv, "dst", s.size>>}
       /\ dstat' = [dstat EXCEPT ![t].dst = s.recv]
       /\ doing' = [doing EXCEPT ![e] = <<t, "read">>]
    /\ UNCHANGED <<callVars, sstat, commVars, localVars>>

DoReadRead(e) ==
    /\ doing[e] # None /\ doing[e][2] = "read"
    /\ AddWorkToStream(MachineOf(e), <<doing[e][1], "read">>)
    /\ doing' = [doing EXCEPT ![e] = <<@[1], "addcallback">>]
    /\ UNCHANGED <<callVars, statVars, net, msgch, cb, localVars>>

DoReadAddCallBack(e) ==
    /\ doing[e] # None /\ doing[e][2] = "addcallback"
    /\ AddWorkToStream(MachineOf(e), <<doing[e][1], "callback">>)
    /\ doing' = [doing EXCEPT ![e] = None]
    /\ UNCHANGED <<callVars, statVars, net, msgch, cb, localVars>>

-----------------------------------------------------------------------------
(***************************************************************************)
(* The callback poller.  A read asks the source machine to write; a        *)
(* callback acknowledges, calls back and only then forgets the token.      *)
(***************************************************************************)
NextReady(m, kind) == cb[m] = None /\ ready[m] # <<>> /\ Head(ready[m])[2] = kind

EpollDoRead(m) ==
    /\ NextReady(m, "read")
    /\ LET t == Head(ready[m])[1] IN
       SendTo(m, Src[t[1]], [type |-> "RequestWrite", c |-> t[1], src |-> dstat[t].send, dst |-> dstat[t].dst])
    /\ ready' = [ready EXCEPT ![m] = Tail(@)]
    /\ UNCHANGED <<callVars, statVars, msgch, waiting, cb, doing, localVars>>

ReadCallBackAck(m) ==
    /\ NextReady(m, "callback")
    /\ LET t == Head(ready[m])[1] IN
       /\ SendTo(m, Src[t[1]], [type |-> "Ack", c |-> t[1], src |-> dstat[t].send, size |-> dstat[t].size])
       /\ cb' = [cb EXCEPT ![m] = <<t, "callback">>]
    /\ ready' = [ready EXCEPT ![m] = Tail(@)]
    /\ UNCHANGED <<callVars, statVars, msgch, waiting, doing, localVars>>

ReadCallBack(m) ==
    /\ cb[m] # None /\ cb[m][2] = "callback"
    /\ LET t == cb[m][1] s == dstat[t] IN
       /\ reg' = reg \ {<<t[1], s.dst, "dst", s.size>>}
       /\ rlog' = [rlog EXCEPT ![t[1]] = Append(@, s.recv)]
       /\ cb' = [cb EXCEPT ![m] = <<t, "erase">>]
    /\ UNCHANGED <<sent, recvd, slog, moved, sstat, dstat, net, msgch, ready, waiting, doing, localVars>>

ReadCallBackErase(m) ==
    /\ cb[m] # None /\ cb[m][2] = "erase"
    /\ dstat' = [dstat EXCEPT ![cb[m][1]] = None]
    /\ cb' = [cb EXCEPT ![m] = None]
    /\ UNCHANGED <<callVars, sstat, reg, net, msgch, ready, waiting, doing, localVars>>

(***************************************************************************)
(* The poller of a connection handles the next message: SocketReadHelper.  *)
(***************************************************************************)
NextOn(l, types) == net[l] # <<>> /\ Head(net[l]).type \in types

EnqueueTransportMsg_Front(l) ==
    /\ NextOn(l, {"Send", "Ack"})
    /\ msgch' = [msgch EXCEPT ![l[2]] = <<Head(net[l])>> \o @]
    /\ net' = [net EXCEPT ![l] = Tail(@)]
    /\ UNCHANGED <<callVars, statVars, ready, waiting, cb, doing, localVars>>

EnqueueTransportMsg(l) ==
    /\ NextOn(l, {"Send", "Ack"})
    /\ msgch' = [msgch EXCEPT ![l[2]] = Append(@, Head(net[l]))]
    /\ net' = [net EXCEPT ![l] = Tail(@)]
    /\ UNCHANGED <<callVars, statVars, ready, waiting, cb, doing, localVars>>

RequestWrite(l) ==
    /\ NextOn(l, {"RequestWrite"})
    /\ net' = [net EXCEPT ![l] = Tail(@),
                          ![<<l[2], l[1]>>] = Append(@, [Head(net[l]) EXCEPT !.type = "RequestRead"])]
    /\ UNCHANGED <<callVars, statVars, msgch, ready, waiting, cb, doing, localVars>>

RequestRead(l) ==
    /\ NextOn(l, {"RequestRead"}) /\ ReadDoneCheck(l[2])
    /\ LET msg == Head(net[l]) IN moved' = moved \cup {<<msg.c, msg.src, msg.dst>>}
    /\ ReadDone(l[2])
    /\ net' = [net EXCEPT ![l] = Tail(@)]
    /\ UNCHANGED <<sent, recvd, slog, rlog, statVars, msgch, cb, doing, localVars>>

-----------------------------------------------------------------------------
(***************************************************************************)
(* SendToLocalMachine and RecvFromLocalMachine: the second of the two      *)
(* takes the status of the first away, copies and calls both back, its own *)
(* callback first.                                                         *)
(***************************************************************************)
Other(side) == IF side = "send" THEN "recv" ELSE "send"

LocalCheck(c, k, s, side) ==
    LET ks == IF side = "send" THEN k ELSE s[2]
        kr == IF side = "recv" THEN k ELSE s[2]
    IN SendSize[<<c, ks>>] <= MaxSize[<<c, kr>>]

LocalCall_NoCopy(c, k, side) ==
    LET t == TokenOf(c, k) s == lstat[t] IN
    IF s = None
    THEN lstat' = [lstat EXCEPT ![t] = <<side, k>>] /\ UNCHANGED lpc
    ELSE /\ LocalCheck(c, k, s, side)
         /\ lstat' = [lstat EXCEPT ![t] = None]
         /\ lpc' = [lpc EXCEPT ![<<c, side>>] = [own |-> k, other |-> s[2], pc |-> "own"]]

LocalCall(c, k, side) ==
    LET t == TokenOf(c, k) s == lstat[t] IN
    IF s = None
    THEN lstat' = [lstat EXCEPT ![t] = <<side, k>>] /\ UNCHANGED lpc
    ELSE /\ LocalCheck(c, k, s, side)
         /\ lstat' = [lstat EXCEPT ![t] = None]
         /\ lpc' = [lpc EXCEPT ![<<c, side>>] = [own |-> k, other |-> s[2], pc |-> "copy"]]

SendToLocalMachine(c) ==
    /\ Local(c) /\ MaySend(c)
    /\ LocalCall(c, sent[c] + 1, "send")
    /\ sent' = [sent EXCEPT ![c] = @ + 1]
    /\ UNCHANGED <<recvd, slog, rlog, moved, statVars, commVars, doing>>

RecvFromLocalMachine(c) ==
    /\ Local(c) /\ MayReceive(c)
    /\ LocalCall(c, recvd[c] + 1, "recv")
    /\ recvd' = [recvd EXCEPT ![c] = @ + 1]
    /\ UNCHANGED <<sent, slog, rlog, moved, statVars, commVars, doing>>

LocalCopy(c, side) ==
    LET p == lpc[<<c, side>>] IN
    /\ p # None /\ p.pc = "copy"
    /\ moved' = moved \cup {IF side = "send" THEN <<c, p.own, p.other>> ELSE <<c, p.other, p.own>>}
    /\ lpc' = [lpc EXCEPT ![<<c, side>>].pc = "own"]
    /\ UNCHANGED <<sent, recvd, slog, rlog, statVars, commVars, doing, lstat>>

LocalCallBack(c, side) ==
    LET p == lpc[<<c, side>>]
        whose == IF p.pc = "own" THEN side ELSE Other(side)
        k == IF p.pc = "own" THEN p.own ELSE p.other
    IN
    /\ p # None /\ p.pc \in {"own", "other"}
    /\ lpc' = [lpc EXCEPT ![<<c, side>>] = IF p.pc = "own" THEN [p EXCEPT !.pc = "other"] ELSE None]
    /\ slog' = IF whose = "send" THEN [slog EXCEPT ![c] = Append(@, k)] ELSE slog
    /\ rlog' = IF whose = "recv" THEN [rlog EXCEPT ![c] = Append(@, k)] ELSE rlog
    /\ UNCHANGED <<sent, recvd, moved, statVars, commVars, doing, lstat>>

-----------------------------------------------------------------------------
SenderStep(c) ==
    Send(c) \/ SendToLocalMachine(c) \/ LocalCopy(c, "send") \/ LocalCallBack(c, "send")
DoRead(e) == DoReadLock(e) \/ DoReadRead(e) \/ DoReadAddCallBack(e)
ReceiverStep(c) ==
    \/ Receive(c) \/ DoRead(<<"receiver", c>>)
    \/ RecvFromLocalMachine(c) \/ LocalCopy(c, "recv") \/ LocalCallBack(c, "recv")
PollMsgChannel(m) ==
    \/ HandlerAchievedTransportSendMsgFromSrcMachine(m)
    \/ HandlerAchievedTransportAckMsgFromDstMachine(m)
    \/ DoRead(<<"poller", m>>)
CallbackPollerStep(m) ==
    EpollDoRead(m) \/ ReadCallBackAck(m) \/ ReadCallBack(m) \/ ReadCallBackErase(m)
ConnectionStep(l) == EnqueueTransportMsg(l) \/ RequestWrite(l) \/ RequestRead(l)

Next ==
    \/ \E c \in Channel : SenderStep(c) \/ ReceiverStep(c)
    \/ \E m \in Machine : PollMsgChannel(m) \/ CallbackPollerStep(m)
    \/ \E l \in Machine \X Machine : ConnectionStep(l)

Spec == Init /\ [][Next]_vars

\* Some thread goes on as long as one can; the calls are finitely many, so this is all it takes.
FairSpec == Spec /\ WF_vars(Next)

-----------------------------------------------------------------------------
Status == [send : Nat, recv : Nat, dst : Nat, size : Nat]
TypeOK ==
    /\ sent \in [Channel -> Nat] /\ recvd \in [Channel -> Nat]
    /\ sstat \in [Token -> [src : Nat, size : Nat] \cup {None}]
    /\ dstat \in [Token -> Status \cup {None}]
    /\ doing \in [Poller \cup Receiver -> Token \X {"lock", "read", "addcallback"} \cup {None}]
    /\ cb \in [Machine -> Token \X {"callback", "erase"} \cup {None}]
    /\ \A m \in Machine : ready[m] \in Seq(Token \X {"read", "callback"})

(***************************************************************************)
(* No CHECK of Transport and CommNet fails: the two ends of a token, which *)
(* may come in either order and in two threads, read exactly once; what    *)
(* they find under the token is never the status of an earlier transfer    *)
(* whose token has come round again, although the callbacks run before the *)
(* status is erased; the mark of a read is in front when the read is done. *)
(***************************************************************************)
NoCheckFails ==
    /\ \A c \in Channel : ~Local(c) => /\ MaySend(c) => SendCheck(c)
                                       /\ MayReceive(c) => ReceiveCheck(c)
    /\ \A m \in Machine : /\ NextMsg(m, "Send") => SendMsgCheck(m)
                          /\ NextMsg(m, "Ack") => AckMsgCheck(m)
    /\ \A e \in Poller \cup Receiver : doing[e] # None /\ doing[e][2] = "lock" => DoReadCheck(e)
    /\ \A l \in Machine \X Machine : NextOn(l, {"RequestRead"}) => ReadDoneCheck(l[2])
    /\ \A m \in Machine : cb[m] # None => dstat[cb[m][1]] # None

(***************************************************************************)
(* A read under way refers to registered memory on both machines, of one   *)
(* size: the descriptors that the message carries are pointers which both  *)
(* sides follow, and a difference in size would break the framing of the   *)
(* connection.                                                             *)
(***************************************************************************)
MemoryHeld ==
    \A l \in Machine \X Machine : \A i \in 1 .. Len(net[l]) :
        LET msg == net[l][i] IN
        msg.type \in {"RequestWrite", "RequestRead"} =>
            \E n \in {SendSize[<<msg.c, msg.src>>]} :
                <<msg.c, msg.src, "src", n>> \in reg /\ <<msg.c, msg.dst, "dst", n>> \in reg

(***************************************************************************)
(* Between machines the callbacks of a channel run in the order of its     *)
(* calls, on both sides.  That is what lets a token be used again: by the  *)
(* time the callback of a later call has run, the status of an earlier one *)
(* is erased.                                                              *)
(***************************************************************************)
CallbacksInOrder ==
    \A c \in Channel : ~Local(c) =>
        /\ \A i \in 1 .. Len(slog[c]) : slog[c][i] = i
        /\ \A i \in 1 .. Len(rlog[c]) : rlog[c][i] = i

(***************************************************************************)
(* Transport implements Transfer.                                          *)
(***************************************************************************)
Abstract == INSTANCE Transfer
ImplementsTransfer == Abstract!Spec

(***************************************************************************)
(* Every Send and every Receive is called back.                            *)
(***************************************************************************)
AllCalledBack == <>(\A c \in Channel : Len(slog[c]) = Calls[c] /\ Len(rlog[c]) = Calls[c])

(***************************************************************************)
(* When every callback has run and every thread is idle, nothing is left   *)
(* of the transfers: no status, no registered memory, and the waiting list *)
(* is empty, as DeleteActorReadId demands.                                 *)
(***************************************************************************)
NothingLeft ==
    LET idle == /\ \A c \in Channel : Len(slog[c]) = Calls[c] /\ Len(rlog[c]) = Calls[c]
                /\ \A m \in Machine : cb[m] = None /\ ready[m] = <<>>
                /\ \A p \in DOMAIN lpc : lpc[p] = None
    IN idle => /\ reg = {} /\ \A m \in Machine : waiting[m] = <<>> /\ msgch[m] = <<>>
               /\ \A t \in Token : sstat[t] = None /\ dstat[t] = None /\ lstat[t] = None

=============================================================================

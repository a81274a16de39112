------------------------------ MODULE EchoSession ------------------------------
(****************************************************************************)
(* One session of net_lab: echoclient.c sends the lines of its input and    *)
(* never reads; echoserver.c answers every read with MAXLINE bytes.  Between *)
(* them are four bounded socket buffers and a network that moves a byte at  *)
(* a time, so that every cutting of the stream into reads occurs.  Bytes    *)
(* are counted, not looked at.                                              *)
(****************************************************************************)
EXTENDS Integers

CONSTANTS
    MAXLINE,    \* the size of the buffers of client and server
    SendBuf,    \* bytes the kernel keeps for a write that the peer has no room for
    RecvBuf,    \* bytes the kernel keeps for a process that has not read them
    MaxLines    \* bound: lines of the client's input

ASSUME LineAssumption == MAXLINE \in Nat \ {0}
ASSUME BufAssumption  == SendBuf \in Nat \ {0} /\ RecvBuf \in Nat \ {0}
ASSUME InputAssumption == MaxLines \in Nat

VARIABLES
    client,     \* where echoclient.c is
    lines,      \* lines of input it has not read
    left,       \* bytes its write has still to hand over
    complained, \* it has printed "Partial write error"
    sent,       \* history: bytes its writes have handed over
    up,         \* bytes on their way to the server, in the client's send buffer
    atServer,   \* bytes in the server's receive buffer
    eof,        \* the end of the client's stream: "no", "sent" or "got" by the server
    rst,        \* a reset is on its way to the server
    server,     \* where echoserver.c is
    out,        \* bytes its write has still to hand over
    consumed,   \* history: bytes its reads have taken
    down,       \* bytes on their way to the client, in the server's send buffer
    unread,     \* bytes in the client's receive buffer
    clientLost, \* the client's kernel has given the connection up
    srvErr,     \* an error of the connection at the server: "none", "pending" or "told"
    broken      \* history: the connection failed, and not because the client closed it

clientVars == <<client, lines, left, complained, sent>>
serverVars == <<server, out, consumed>>
upVars     == <<up, atServer, eof, rst>>
downVars   == <<down, unread>>
errVars    == <<clientLost, srvErr, broken>>
vars       == <<clientVars, serverVars, upVars, downVars, errVars>>

Init ==
    /\ client = "start" /\ lines = MaxLines /\ left = 0 /\ complained = FALSE /\ sent = 0
    /\ up = 0 /\ atServer = 0 /\ eof = "no" /\ rst = FALSE
    /\ server = "start" /\ out = 0 /\ consumed = 0
    /\ down = 0 /\ unread = 0
    /\ clientLost = FALSE /\ srvErr = "none" /\ broken = FALSE

--------------------------------------------------------------------------------
(* echoclient.c *)

Connect ==
    /\ client = "start" /\ server = "accept"
    /\ client' = "gets"
    /\ UNCHANGED <<lines, left, complained, sent, serverVars, upVars, downVars, errVars>>

\* Wrong arguments, or nobody to connect to.
ConnectFails ==
    /\ client = "start"
    /\ client' = "failed"
    /\ UNCHANGED <<lines, left, complained, sent, serverVars, upVars, downVars, errVars>>

\* fgets takes a line, or the next part of a long one, of less than MAXLINE bytes.
Gets ==
    /\ client = "gets" /\ lines > 0
    /\ client' = "write"
    /\ lines' = lines - 1
    /\ left' \in 1..(MAXLINE - 1)
    /\ UNCHANGED <<complained, sent, serverVars, upVars, downVars, errVars>>

\* What the client's kernel had still to send is gone, the end of the stream included.
Unsent ==
    /\ up' = 0
    /\ eof' = IF eof = "sent" THEN "no" ELSE eof

\* close with an unread answer resets the connection, and what was still to be sent is lost.
ClientCloses(words) ==
    /\ client' = "closed"
    /\ complained' = words
    /\ left' = 0
    /\ IF clientLost THEN UNCHANGED upVars
       ELSE IF unread > 0 THEN rst' = TRUE /\ Unsent /\ UNCHANGED atServer
       ELSE eof' = "sent" /\ UNCHANGED <<up, atServer, rst>>
    /\ unread' = 0
    /\ UNCHANGED <<lines, sent, serverVars, down, errVars>>

GetsEof == client = "gets" /\ ClientCloses(FALSE)

\* write hands a byte to the kernel, and returns with the last one.
ClientWrite ==
    /\ client = "write" /\ ~clientLost
    /\ left > 0 /\ up < SendBuf
    /\ left' = left - 1 /\ up' = up + 1 /\ sent' = sent + 1
    /\ client' = IF left = 1 THEN "gets" ELSE "write"
    /\ UNCHANGED <<lines, complained, serverVars, atServer, eof, rst, downVars, errVars>>

\* write returns -1, or less than it was given.
ClientWriteFails == client = "write" /\ clientLost /\ ClientCloses(TRUE)

--------------------------------------------------------------------------------
(* echoserver.c *)

Listen ==
    /\ server = "start"
    /\ server' \in {"accept", "ended"}
    /\ UNCHANGED <<clientVars, out, consumed, upVars, downVars, errVars>>

Connected == client \in {"gets", "write", "closed"}

\* A server that writes before it reads (mutant).
AcceptWritesFirst ==
    /\ server = "accept" /\ Connected
    /\ server' = "write" /\ out' = MAXLINE
    /\ UNCHANGED <<clientVars, consumed, upVars, downVars, errVars>>

Accept ==
    /\ server = "accept" /\ Connected
    /\ server' = "read"
    /\ UNCHANGED <<clientVars, out, consumed, upVars, downVars, errVars>>

\* The server ends, and its kernel drops a connection it has not accepted.
AcceptFails ==
    /\ server = "accept"
    /\ server' = "ended"
    /\ clientLost' = Connected /\ broken' = Connected
    /\ Unsent
    /\ UNCHANGED <<clientVars, out, consumed, atServer, rst, downVars, srvErr>>

Least(a, b) == IF a < b THEN a ELSE b

\* MAXLINE + 1 bytes for each read (mutant).
AnswerOneMore == MAXLINE + 1

\* The third argument of write.
Answer == MAXLINE

\* The n = read of a server that stops at a short one (mutant).
ReadStopsShort ==
    /\ server = "read" /\ atServer > 0
    /\ LET n == Least(atServer, MAXLINE)
       IN  /\ atServer' = atServer - n
           /\ consumed' = consumed + n
           /\ IF n < MAXLINE THEN server' = "ended" /\ out' = out
                             ELSE server' = "write" /\ out' = Answer
    /\ UNCHANGED <<clientVars, up, eof, rst, downVars, errVars>>

Read ==
    /\ server = "read" /\ atServer > 0
    /\ LET n == Least(atServer, MAXLINE)
       IN  /\ atServer' = atServer - n
           /\ consumed' = consumed + n
    /\ server' = "write" /\ out' = Answer
    /\ UNCHANGED <<clientVars, up, eof, rst, downVars, errVars>>

\* continue where the code has break (mutant).
ReadEofContinues ==
    /\ server = "read" /\ atServer = 0
    /\ eof = "got" \/ srvErr = "told"
    /\ UNCHANGED vars

\* n = 0: the end of the stream, or a connection whose error has been told.
ReadEof ==
    /\ server = "read" /\ atServer = 0
    /\ (eof = "got" /\ srvErr = "none") \/ srvErr = "told"
    /\ server' = "ended"
    /\ UNCHANGED <<clientVars, out, consumed, upVars, downVars, errVars>>

\* n = -1 is not 0, so the server writes all the same.
ReadFails ==
    /\ server = "read" /\ atServer = 0
    /\ srvErr = "pending" /\ srvErr' = "told"
    /\ server' = "write" /\ out' = Answer
    /\ UNCHANGED <<clientVars, consumed, upVars, downVars, clientLost, broken>>

\* A server that waits until there is room for all of the answer (mutant).
ServerWriteWhole ==
    /\ server = "write" /\ srvErr = "none"
    /\ down + out <= SendBuf
    /\ server' = "read" /\ out' = 0 /\ down' = down + out
    /\ UNCHANGED <<clientVars, consumed, upVars, unread, errVars>>

ServerWrite ==
    /\ server = "write" /\ srvErr = "none"
    /\ out > 0 /\ down < SendBuf
    /\ out' = out - 1 /\ down' = down + 1
    /\ server' = IF out = 1 THEN "read" ELSE "write"
    /\ UNCHANGED <<clientVars, consumed, upVars, unread, errVars>>

\* write fails; nobody looks. A write that had handed over some bytes leaves the error pending.
ServerWriteFails ==
    /\ server = "write" /\ srvErr = "pending"
    /\ server' = "read" /\ out' = 0
    /\ srvErr' = IF out = Answer THEN "told" ELSE srvErr
    /\ UNCHANGED <<clientVars, consumed, upVars, downVars, clientLost, broken>>

\* SIGPIPE, for a write after the error has been told.
Killed ==
    /\ server = "write" /\ srvErr = "told"
    /\ server' = "killed"
    /\ UNCHANGED <<clientVars, out, consumed, upVars, downVars, errVars>>

--------------------------------------------------------------------------------
(* The kernels and the network *)

DeliverUp ==
    /\ up > 0 /\ atServer < RecvBuf /\ srvErr = "none"
    /\ up' = up - 1 /\ atServer' = atServer + 1
    /\ UNCHANGED <<clientVars, serverVars, eof, rst, downVars, errVars>>

DeliverEof ==
    /\ eof = "sent" /\ up = 0 /\ srvErr = "none"
    /\ eof' = "got"
    /\ UNCHANGED <<clientVars, serverVars, up, atServer, rst, downVars, errVars>>

DeliverDown ==
    /\ down > 0 /\ unread < RecvBuf /\ client # "closed" /\ ~clientLost
    /\ down' = down - 1 /\ unread' = unread + 1
    /\ UNCHANGED <<clientVars, serverVars, upVars, errVars>>

\* A byte for a socket that is closed is answered by a reset, and the socket is gone.
AnswerClosed ==
    /\ down > 0 /\ client = "closed" /\ ~clientLost
    /\ rst' = TRUE
    /\ down' = 0 /\ Unsent
    /\ UNCHANGED <<clientVars, serverVars, atServer, unread, errVars>>

DeliverReset ==
    /\ rst
    /\ rst' = FALSE
    /\ srvErr' = IF srvErr = "none" THEN "pending" ELSE srvErr
    /\ down' = 0
    /\ UNCHANGED <<clientVars, serverVars, up, atServer, eof, unread, clientLost, broken>>

\* The network fails, and one end finds out.
ClientGivesUp ==
    /\ Connected /\ ~clientLost
    /\ clientLost' = TRUE /\ broken' = TRUE
    /\ Unsent
    /\ UNCHANGED <<clientVars, serverVars, atServer, rst, downVars, srvErr>>

ServerGivesUp ==
    /\ Connected /\ srvErr = "none" /\ server \in {"read", "write"}
    /\ srvErr' = "pending" /\ broken' = TRUE
    /\ down' = 0
    /\ UNCHANGED <<clientVars, serverVars, upVars, unread, clientLost>>

--------------------------------------------------------------------------------
ClientStep == ClientWrite \/ ClientWriteFails

ServerStep ==
    \/ Accept \/ Read \/ ReadEof \/ ReadFails
    \/ ServerWrite \/ ServerWriteFails \/ Killed

Next ==
    \/ Connect \/ ConnectFails \/ Gets \/ GetsEof
    \/ Listen \/ AcceptFails
    \/ ClientStep
    \/ ServerStep
    \/ DeliverUp \/ DeliverEof \/ DeliverDown \/ AnswerClosed \/ DeliverReset
    \/ ClientGivesUp \/ ServerGivesUp

Spec == Init /\ [][Next]_vars

\* Both processes run, and bytes in flight arrive; nobody has to type.
FairSpec ==
    /\ Spec
    /\ WF_vars(ClientStep) /\ WF_vars(ServerStep)
    /\ WF_vars(DeliverUp) /\ WF_vars(DeliverEof) /\ WF_vars(DeliverDown)
    /\ WF_vars(AnswerClosed) /\ WF_vars(DeliverReset)

--------------------------------------------------------------------------------
(* Properties *)

\* The counters stay within the buffers they count the bytes of.
TypeOK ==
    /\ client \in {"start", "failed", "gets", "write", "closed"}
    /\ lines \in 0..MaxLines /\ left \in 0..(MAXLINE - 1) /\ complained \in BOOLEAN
    /\ sent \in Nat /\ consumed \in Nat
    /\ up \in 0..SendBuf /\ atServer \in 0..RecvBuf
    /\ eof \in {"no", "sent", "got"} /\ rst \in BOOLEAN
    /\ server \in {"start", "accept", "read", "write", "ended", "killed"}
    /\ out \in 0..MAXLINE
    /\ down \in 0..SendBuf /\ unread \in 0..RecvBuf
    /\ clientLost \in BOOLEAN /\ srvErr \in {"none", "pending", "told"} /\ broken \in BOOLEAN

\* Client and server wait in write for each other: all four buffers are full.
Deadlocked ==
    /\ client = "write" /\ server = "write"
    /\ left > 0 /\ up = SendBuf /\ atServer = RecvBuf
    /\ out > 0 /\ down = SendBuf /\ unread = RecvBuf
    /\ ~clientLost /\ srvErr = "none"

\* The two can only wait for each other after the server has read more than one byte for each
\* MAXLINE that fit into the two buffers on the way back, for it answers a read of any length with MAXLINE.
DeadlockNeedsInput == Deadlocked => MAXLINE * consumed > SendBuf + RecvBuf

\* The server ends on end of stream only with all read that the client sent, although reads
\* cut the stream anywhere; what a reset discards it discards with the connection.
AllReadAtEnd == server = "ended" /\ srvErr = "none" /\ ~broken => consumed = sent

\* Bytes the client was told were written are lost only when the server has answered
\* an earlier part of the input and the client has closed without reading the answer.
LostOnlyAfterAnswer ==
    ~broken /\ consumed + atServer + up < sent => client = "closed" /\ consumed > 0

\* As long as the connection holds, the server does not leave before the client, and the client's
\* write is never short.
ServerOutlivesClient ==
    ~broken /\ Connected =>
        /\ server \in {"ended", "killed"} => client = "closed"
        /\ ~complained

\* A write of the client comes back, unless the two wait for each other.
WritesReturn == (client = "write") ~> (client # "write" \/ Deadlocked \/ broken)

\* After the client has closed, the server comes to its end: an error of read, which it takes for
\* data, does not keep it in its loop.
ServerEnds == (client = "closed") ~> (server \in {"ended", "killed"} \/ broken)
================================================================================

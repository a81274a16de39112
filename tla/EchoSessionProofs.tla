---------------------------- MODULE EchoSessionProofs ----------------------------
(****************************************************************************)
(* The safety of EchoSession, for any sizes of the buffers and any input.   *)
(****************************************************************************)
EXTENDS EchoSession, TLAPS

\* Every byte of the client is somewhere, until a reset or a failure discards some.
BytesInv ==
    /\ up + atServer + consumed <= sent
    /\ ~broken /\ ~rst /\ srvErr = "none" => up + atServer + consumed = sent
    /\ eof = "sent" => ~rst
    /\ eof = "got" => up = 0 /\ (~broken => atServer + consumed = sent)

\* The server has written at most MAXLINE bytes for each byte it has read.
AnswerInv ==
    /\ srvErr = "none" => down + unread + out <= MAXLINE * consumed
    /\ srvErr # "none" => down = 0

\* What the ends of the connection and of the processes have to do with each other.
EndsInv ==
    /\ eof # "no" \/ rst => client = "closed"
    /\ clientLost \/ complained => broken
    /\ broken => Connected
    /\ ~broken /\ (rst \/ srvErr # "none") => client = "closed" /\ consumed > 0
    /\ server = "start" => ~Connected
    /\ ~Connected => sent = 0 /\ up = 0 /\ atServer = 0 /\ consumed = 0 /\ server \notin {"read", "write"}

\* The two halves of TypeOK, for the provers: one is all Booleans, the other all numbers.
FlagsOK ==
    /\ complained \in BOOLEAN /\ rst \in BOOLEAN
    /\ clientLost \in BOOLEAN /\ broken \in BOOLEAN

CountersOK ==
    /\ client \in {"start", "failed", "gets", "write", "closed"}
    /\ lines \in 0..MaxLines /\ left \in 0..(MAXLINE - 1)
    /\ sent \in Nat /\ consumed \in Nat
    /\ up \in 0..SendBuf /\ atServer \in 0..RecvBuf
    /\ eof \in {"no", "sent", "got"}
    /\ server \in {"start", "accept", "read", "write", "ended", "killed"}
    /\ out \in 0..MAXLINE
    /\ down \in 0..SendBuf /\ unread \in 0..RecvBuf
    /\ srvErr \in {"none", "pending", "told"}

IInv ==
    /\ FlagsOK /\ CountersOK
    /\ BytesInv /\ AnswerInv /\ EndsInv
    /\ AllReadAtEnd /\ ServerOutlivesClient

--------------------------------------------------------------------------------
LEMMA Sizes == MAXLINE \in Nat /\ MAXLINE > 0 /\ SendBuf \in Nat /\ RecvBuf \in Nat /\ MaxLines \in Nat
  BY LineAssumption, BufAssumption, InputAssumption

\* A read of at least one byte allows MAXLINE bytes more.
LEMMA OneMoreAnswer ==
    ASSUME NEW c \in Nat, NEW n \in Nat, n > 0
    PROVE  MAXLINE * c \in Nat /\ MAXLINE * (c + n) >= MAXLINE * c + MAXLINE
<1>1. MAXLINE * (c + n) = MAXLINE * c + MAXLINE * n
  BY Sizes
<1>2. MAXLINE * n >= MAXLINE
  BY Sizes
<1>3. MAXLINE * c \in Nat /\ MAXLINE * n \in Nat
  BY Sizes
<1> QED  BY <1>1, <1>2, <1>3, Sizes

LEMMA TypeParts == TypeOK <=> FlagsOK /\ CountersOK
  BY DEF TypeOK, FlagsOK, CountersOK

\* What a read takes.
LEMMA ReadTakes ==
    ASSUME CountersOK, Read
    PROVE  \E n \in Nat : /\ n > 0 /\ n <= atServer
                          /\ atServer' = atServer - n /\ consumed' = consumed + n
<1>1. Least(atServer, MAXLINE) \in Nat /\ Least(atServer, MAXLINE) > 0 /\ Least(atServer, MAXLINE) <= atServer
  BY Sizes DEF Read, Least, CountersOK
<1> QED  BY <1>1 DEF Read

LEMMA FlagsStep == FlagsOK /\ [Next]_vars => FlagsOK'
<1> SUFFICES ASSUME FlagsOK, [Next]_vars  PROVE FlagsOK'
  OBVIOUS
<1> USE DEF FlagsOK, clientVars, serverVars, upVars, downVars, errVars
<1>1. CASE Connect \/ ConnectFails \/ Gets \/ ClientWrite
  BY <1>1, Zenon DEF Connect, ConnectFails, Gets, ClientWrite
<1>2. CASE GetsEof \/ ClientWriteFails
  BY <1>2, Zenon DEF GetsEof, ClientWriteFails, ClientCloses
<1>3. CASE Listen \/ Accept
  BY <1>3, Zenon DEF Listen, Accept
<1>4. CASE AcceptFails
  <2>1. Connected \in BOOLEAN
    BY DEF Connected
  <2> QED  BY <1>4, <2>1, Zenon DEF AcceptFails
<1>5. CASE Read \/ ReadEof \/ ReadFails
  BY <1>5, Zenon DEF Read, ReadEof, ReadFails
<1>6. CASE ServerWrite \/ ServerWriteFails \/ Killed
  BY <1>6, Zenon DEF ServerWrite, ServerWriteFails, Killed
<1>7. CASE DeliverUp \/ DeliverEof \/ DeliverDown
  BY <1>7, Zenon DEF DeliverUp, DeliverEof, DeliverDown
<1>8. CASE AnswerClosed \/ DeliverReset
  BY <1>8, Zenon DEF AnswerClosed, DeliverReset
<1>9. CASE ClientGivesUp \/ ServerGivesUp
  BY <1>9, Zenon DEF ClientGivesUp, ServerGivesUp
<1>10. CASE UNCHANGED vars
  BY <1>10, Zenon DEF vars
<1> QED  BY <1>1, <1>2, <1>3, <1>4, <1>5, <1>6, <1>7, <1>8, <1>9, <1>10
         DEF Next, ClientStep, ServerStep

\* A server whose accept fails breaks the connection of a client that had one.
LEMMA AcceptFailsBreaks == AcceptFails => (broken' <=> Connected) /\ (clientLost' <=> Connected)
  BY DEF AcceptFails

LEMMA InitInv == Init => IInv
<1> SUFFICES ASSUME Init  PROVE IInv
  OBVIOUS
<1> USE Sizes DEF Init
<1>1. FlagsOK
  BY DEF FlagsOK
<1>2. CountersOK
  BY DEF CountersOK
<1>3. BytesInv /\ EndsInv
  BY DEF BytesInv, EndsInv, Connected
<1>4. AnswerInv
  BY DEF AnswerInv
<1>5. AllReadAtEnd /\ ServerOutlivesClient
  BY DEF AllReadAtEnd, ServerOutlivesClient, Connected
<1> QED  BY <1>1, <1>2, <1>3, <1>4, <1>5 DEF IInv

LEMMA CountersStep == CountersOK /\ [Next]_vars => CountersOK'
<1> SUFFICES ASSUME CountersOK, [Next]_vars  PROVE CountersOK'
  OBVIOUS
<1> USE Sizes DEF CountersOK, clientVars, serverVars, upVars, downVars, errVars, Unsent
<1>1. CASE Connect \/ ConnectFails \/ Gets
  BY <1>1 DEF Connect, ConnectFails, Gets
<1>2. CASE GetsEof \/ ClientWriteFails
  BY <1>2 DEF GetsEof, ClientWriteFails, ClientCloses
<1>3. CASE ClientWrite
  BY <1>3 DEF ClientWrite
<1>4. CASE Listen \/ Accept \/ AcceptFails
  BY <1>4 DEF Listen, Accept, AcceptFails, Connected
<1>5. CASE Read
  <2>1. PICK n \in Nat : /\ n > 0 /\ n <= atServer
                         /\ atServer' = atServer - n /\ consumed' = consumed + n
    BY <1>5, ReadTakes
  <2> QED  BY <1>5, <2>1 DEF Read, Answer
<1>6. CASE ReadEof \/ ReadFails
  BY <1>6 DEF ReadEof, ReadFails, Answer
<1>7. CASE ServerWrite \/ ServerWriteFails \/ Killed
  BY <1>7 DEF ServerWrite, ServerWriteFails, Killed, Answer
<1>8. CASE DeliverUp \/ DeliverEof \/ DeliverDown
  BY <1>8 DEF DeliverUp, DeliverEof, DeliverDown
<1>9. CASE AnswerClosed \/ DeliverReset
  BY <1>9 DEF AnswerClosed, DeliverReset
<1>10. CASE ClientGivesUp \/ ServerGivesUp
  BY <1>10 DEF ClientGivesUp, ServerGivesUp
<1>11. CASE UNCHANGED vars
  BY <1>11 DEF vars
<1> QED  BY <1>1, <1>2, <1>3, <1>4, <1>5, <1>6, <1>7, <1>8, <1>9, <1>10, <1>11
         DEF Next, ClientStep, ServerStep

LEMMA BytesStep == IInv /\ [Next]_vars => BytesInv'
<1> SUFFICES ASSUME IInv, [Next]_vars  PROVE BytesInv'
  OBVIOUS
<1> USE Sizes DEF IInv, CountersOK, BytesInv, EndsInv, Connected,
                  clientVars, serverVars, upVars, downVars, errVars, Unsent
<1>1. CASE Connect \/ ConnectFails \/ Gets
  BY <1>1 DEF Connect, ConnectFails, Gets
<1>2. CASE GetsEof \/ ClientWriteFails
  <2>1. /\ clientLost => UNCHANGED upVars
        /\ ~clientLost /\ unread > 0 => rst' = TRUE /\ Unsent /\ UNCHANGED atServer
        /\ ~clientLost /\ ~(unread > 0) => eof' = "sent" /\ UNCHANGED <<up, atServer, rst>>
        /\ UNCHANGED <<sent, consumed, broken, srvErr>>
    BY <1>2 DEF GetsEof, ClientWriteFails, ClientCloses
  <2>2. CASE clientLost
    BY <2>1, <2>2
  <2>3. CASE ~clientLost /\ unread > 0
    BY <2>1, <2>3
  <2>4. CASE ~clientLost /\ ~(unread > 0)
    <3>1. eof # "got" /\ ~rst
      BY <1>2 DEF GetsEof, ClientWriteFails
    <3> QED  BY <2>1, <2>4, <3>1
  <2> QED  BY <2>2, <2>3, <2>4
<1>3. CASE ClientWrite
  BY <1>3 DEF ClientWrite
<1>4. CASE Listen \/ Accept \/ AcceptFails
  <2>1. AcceptFails => (broken' <=> Connected) /\ (clientLost' <=> Connected)
    BY AcceptFailsBreaks
  <2> QED  BY <1>4, <2>1 DEF Listen, Accept, AcceptFails
<1>5. CASE Read
  <2>1. PICK n \in Nat : /\ n > 0 /\ n <= atServer
                         /\ atServer' = atServer - n /\ consumed' = consumed + n
    BY <1>5, ReadTakes
  <2> QED  BY <1>5, <2>1 DEF Read
<1>6. CASE ReadEof \/ ReadFails
  BY <1>6 DEF ReadEof, ReadFails
<1>7. CASE ServerWrite \/ ServerWriteFails \/ Killed
  BY <1>7 DEF ServerWrite, ServerWriteFails, Killed
<1>8. CASE DeliverUp \/ DeliverEof \/ DeliverDown
  BY <1>8 DEF DeliverUp, DeliverEof, DeliverDown
<1>9. CASE AnswerClosed \/ DeliverReset
  BY <1>9 DEF AnswerClosed, DeliverReset
<1>10. CASE ClientGivesUp \/ ServerGivesUp
  BY <1>10 DEF ClientGivesUp, ServerGivesUp
<1>11. CASE UNCHANGED vars
  BY <1>11 DEF vars
<1> QED  BY <1>1, <1>2, <1>3, <1>4, <1>5, <1>6, <1>7, <1>8, <1>9, <1>10, <1>11
         DEF Next, ClientStep, ServerStep

LEMMA AnswerStep == IInv /\ [Next]_vars => AnswerInv'
<1> SUFFICES ASSUME IInv, [Next]_vars  PROVE AnswerInv'
  OBVIOUS
<1> USE Sizes DEF IInv, CountersOK, AnswerInv, clientVars, serverVars, upVars, downVars, errVars
<1>0. MAXLINE * consumed \in Nat
  BY Sizes
<1>1. CASE Read
  <2>1. PICK n \in Nat : n > 0 /\ consumed' = consumed + n
    BY <1>1, ReadTakes
  <2>2. MAXLINE * (consumed + n) >= MAXLINE * consumed + MAXLINE
    BY <2>1, OneMoreAnswer
  <2>3. /\ out' = MAXLINE /\ UNCHANGED <<down, unread, srvErr>>
        /\ srvErr = "none" => down + unread <= MAXLINE * consumed
    BY <1>1, <1>0 DEF Read, Answer
  <2> DEFINE m == MAXLINE * (consumed + n)
  <2>4. m \in Nat
    BY <2>1, Sizes
  <2>5. srvErr = "none" => down + unread + MAXLINE <= m
    <3> HIDE DEF m
    <3>1. m >= MAXLINE * consumed + MAXLINE
      BY <2>2 DEF m
    <3> QED  BY <1>0, <2>3, <2>4, <3>1
  <2> QED  BY <2>1, <2>3, <2>5
<1>2. CASE \/ ServerWrite \/ ServerWriteFails \/ ReadFails \/ DeliverDown \/ AnswerClosed \/ DeliverReset
           \/ ServerGivesUp
  BY <1>0, <1>2 DEF ServerWrite, ServerWriteFails, ReadFails, DeliverDown, AnswerClosed, DeliverReset, ServerGivesUp
<1>3. CASE GetsEof \/ ClientWriteFails
  BY <1>0, <1>3 DEF GetsEof, ClientWriteFails, ClientCloses
<1>4. CASE \/ Connect \/ ConnectFails \/ Gets \/ ClientWrite \/ Listen \/ Accept \/ AcceptFails
           \/ ReadEof \/ Killed \/ DeliverUp \/ DeliverEof \/ ClientGivesUp \/ UNCHANGED vars
  <2>1. UNCHANGED <<down, unread, out, consumed, srvErr>>
    BY <1>4 DEF Connect, ConnectFails, Gets, ClientWrite, Listen, Accept, AcceptFails, ReadEof, Killed,
                DeliverUp, DeliverEof, ClientGivesUp, vars
  <2> QED  BY <2>1
<1> QED  BY <1>1, <1>2, <1>3, <1>4 DEF Next, ClientStep, ServerStep

\* An answer on its way or unread is the answer to something.
LEMMA AnsweredSomething ==
    ASSUME CountersOK, AnswerInv, srvErr = "none", down + unread > 0
    PROVE  consumed > 0
<1>1. consumed = 0 => MAXLINE * consumed = 0
  BY Sizes
<1>2. down + unread <= MAXLINE * consumed
  BY Sizes DEF CountersOK, AnswerInv
<1> QED  BY <1>1, <1>2, Sizes DEF CountersOK

LEMMA EndsStep == IInv /\ [Next]_vars => EndsInv'
<1> SUFFICES ASSUME IInv, [Next]_vars  PROVE EndsInv'
  OBVIOUS
<1> USE Sizes DEF IInv, CountersOK, EndsInv, Connected,
                  clientVars, serverVars, upVars, downVars, errVars, Unsent
<1>1. CASE Connect \/ ConnectFails \/ Gets
  BY <1>1 DEF Connect, ConnectFails, Gets
<1>2. CASE GetsEof \/ ClientWriteFails
  <2>1. unread > 0 /\ srvErr = "none" => consumed > 0
    BY AnsweredSomething
  <2> QED  BY <1>2, <2>1 DEF GetsEof, ClientWriteFails, ClientCloses
<1>3. CASE ClientWrite
  BY <1>3 DEF ClientWrite
<1>4. CASE Listen \/ Accept \/ AcceptFails
  <2>1. AcceptFails => (broken' <=> Connected) /\ (clientLost' <=> Connected)
    BY AcceptFailsBreaks
  <2> QED  BY <1>4, <2>1 DEF Listen, Accept, AcceptFails
<1>5. CASE Read
  <2>1. PICK n \in Nat : /\ n > 0 /\ n <= atServer
                         /\ atServer' = atServer - n /\ consumed' = consumed + n
    BY <1>5, ReadTakes
  <2> QED  BY <1>5, <2>1 DEF Read
<1>6. CASE ReadEof \/ ReadFails
  BY <1>6 DEF ReadEof, ReadFails
<1>7. CASE ServerWrite \/ ServerWriteFails \/ Killed
  BY <1>7 DEF ServerWrite, ServerWriteFails, Killed
<1>8. CASE DeliverUp \/ DeliverEof \/ DeliverDown
  BY <1>8 DEF DeliverUp, DeliverEof, DeliverDown, BytesInv
<1>9. CASE AnswerClosed \/ DeliverReset
  <2>1. down > 0 => consumed > 0
    BY AnsweredSomething DEF AnswerInv
  <2> QED  BY <1>9, <2>1 DEF AnswerClosed, DeliverReset
<1>10. CASE ClientGivesUp \/ ServerGivesUp
  BY <1>10 DEF ClientGivesUp, ServerGivesUp
<1>11. CASE UNCHANGED vars
  BY <1>11 DEF vars
<1> QED  BY <1>1, <1>2, <1>3, <1>4, <1>5, <1>6, <1>7, <1>8, <1>9, <1>10, <1>11
         DEF Next, ClientStep, ServerStep

LEMMA EndingStep == IInv /\ [Next]_vars => AllReadAtEnd' /\ ServerOutlivesClient'
<1> SUFFICES ASSUME IInv, [Next]_vars  PROVE AllReadAtEnd' /\ ServerOutlivesClient'
  OBVIOUS
<1> USE Sizes DEF IInv, CountersOK, BytesInv, EndsInv, AllReadAtEnd, ServerOutlivesClient, Connected,
                  clientVars, serverVars, upVars, downVars, errVars
<1>1. CASE Connect \/ ConnectFails \/ Gets
  BY <1>1 DEF Connect, ConnectFails, Gets
<1>2. CASE GetsEof \/ ClientWriteFails
  BY <1>2 DEF GetsEof, ClientWriteFails, ClientCloses
<1>3. CASE ClientWrite
  BY <1>3 DEF ClientWrite
<1>4. CASE Listen \/ Accept \/ AcceptFails
  <2>1. AcceptFails => (broken' <=> Connected) /\ (clientLost' <=> Connected)
    BY AcceptFailsBreaks
  <2> QED  BY <1>4, <2>1 DEF Listen, Accept, AcceptFails
<1>5. CASE Read
  BY <1>5 DEF Read
<1>6. CASE ReadEof \/ ReadFails
  BY <1>6 DEF ReadEof, ReadFails
<1>7. CASE ServerWrite \/ ServerWriteFails \/ Killed
  BY <1>7 DEF ServerWrite, ServerWriteFails, Killed
<1>8. CASE DeliverUp \/ DeliverEof \/ DeliverDown
  BY <1>8 DEF DeliverUp, DeliverEof, DeliverDown
<1>9. CASE AnswerClosed \/ DeliverReset
  BY <1>9 DEF AnswerClosed, DeliverReset
<1>10. CASE ClientGivesUp \/ ServerGivesUp
  BY <1>10 DEF ClientGivesUp, ServerGivesUp
<1>11. CASE UNCHANGED vars
  BY <1>11 DEF vars
<1> QED  BY <1>1, <1>2, <1>3, <1>4, <1>5, <1>6, <1>7, <1>8, <1>9, <1>10, <1>11
         DEF Next, ClientStep, ServerStep

--------------------------------------------------------------------------------
LEMMA NextInv == IInv /\ [Next]_vars => IInv'
  BY FlagsStep, CountersStep, BytesStep, AnswerStep, EndsStep, EndingStep DEF IInv

\* IInv holds in every state of a session, whatever the buffers and the input.
THEOREM Inductive == Spec => []IInv
  BY InitInv, NextInv, PTL DEF Spec

\* Client, server and kernels keep their counters within the buffers.
THEOREM TypeCorrect == Spec => []TypeOK
<1>1. IInv => TypeOK
  BY TypeParts DEF IInv
<1> QED  BY <1>1, Inductive, PTL

\* Client and server wait for each other only after the server has read more than a
\* MAXLINE-th of what the buffers on the way back hold.
THEOREM DeadlockBound == Spec => []DeadlockNeedsInput
<1>1. ASSUME IInv  PROVE DeadlockNeedsInput
  <2>1. MAXLINE * consumed \in Nat
    BY <1>1, Sizes DEF IInv, CountersOK
  <2>2. Deadlocked => /\ down = SendBuf /\ unread = RecvBuf /\ out > 0
                      /\ down + unread + out <= MAXLINE * consumed
    BY <1>1 DEF IInv, AnswerInv, Deadlocked
  <2> QED  BY <1>1, <2>1, <2>2, Sizes DEF IInv, CountersOK, DeadlockNeedsInput
<1> QED  BY <1>1, Inductive, PTL

\* A server that ends on end of stream has read all the client sent.
THEOREM ReadsAll == Spec => []AllReadAtEnd
<1>1. IInv => AllReadAtEnd
  BY DEF IInv
<1> QED  BY <1>1, Inductive, PTL

\* Bytes get lost only behind a read the server has answered, once the client has closed.
THEOREM LossBehindAnswer == Spec => []LostOnlyAfterAnswer
<1>1. IInv => LostOnlyAfterAnswer
  BY DEF IInv, CountersOK, BytesInv, EndsInv, LostOnlyAfterAnswer
<1> QED  BY <1>1, Inductive, PTL

\* The server does not leave a client that is still there, and no write of the client is short.
THEOREM ServerStays == Spec => []ServerOutlivesClient
<1>1. IInv => ServerOutlivesClient
  BY DEF IInv
<1> QED  BY <1>1, Inductive, PTL

================================================================================

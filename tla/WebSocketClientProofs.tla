----------------------- MODULE WebSocketClientProofs -----------------------
(***************************************************************************)
(* Proofs about WebSocketClient, for any number of connections, sends and  *)
(* closes, and any choice of callbacks: its safety invariants, and that it *)
(* implements Connection.                                                  *)
(***************************************************************************)
EXTENDS WebSocketClient, TLAPS

IsOpen == stream \in {"open", "closing"}

(* The chain and the read loop are never at work at the same time.         *)
ChainOrLoop == step # "idle" => ~reading /\ ~IsOpen

(* A read is pending until the loop was told that the stream has ended,    *)
(* and only then is onDisconnect called.                                   *)
LoopIsSilent == (reading \/ step # "idle" => disconnects = 0) /\ (IsOpen => reading)

(* What is lost, not closed, is known to be so before it is reported, and  *)
(* the read that will report it is pending.                                *)
LostIsKnown ==
    /\ stream = "closing" => closed_
    /\ reading /\ ~IsOpen /\ ~closed_ => lost
    /\ lost /\ ~closed_ /\ disconnects = 0 => reading

(* A write whose handler has not run was not reported.                     *)
WriteIsCounted == writing # "no" => onSends < sends

Inv ==
    /\ TypeOK /\ ChainOrLoop /\ LoopIsSilent /\ LostIsKnown /\ WriteIsCounted
    /\ DisconnectOnlyWhenLost

LEMMA InitInv == Init => Inv
<1> SUFFICES ASSUME Init PROVE Inv
  OBVIOUS
<1>1. TypeOK
  <2>1. /\ connects \in 0..MaxConnects /\ sends \in 0..MaxSends /\ closes \in 0..MaxCloses
        /\ onSends \in 0..sends /\ disconnects \in Nat
    BY BoundsAssumption DEF Init
  <2> QED BY <2>1 DEF Init, TypeOK, NextStep
<1>2. ChainOrLoop /\ LoopIsSilent /\ LostIsKnown /\ WriteIsCounted
  BY DEF Init, ChainOrLoop, LoopIsSilent, LostIsKnown, WriteIsCounted, IsOpen
<1>3. DisconnectOnlyWhenLost
  BY DEF Init, DisconnectOnlyWhenLost
<1> QED BY <1>1, <1>2, <1>3 DEF Inv

(* The calls of the user.                                                  *)
LEMMA CallInv == Inv /\ (Connect \/ Send \/ Close) => Inv'
<1> USE BoundsAssumption DEF Inv, TypeOK, ChainOrLoop, LoopIsSilent, LostIsKnown, WriteIsCounted, IsOpen,
        DisconnectOnlyWhenLost, NextStep, chain, reads, writes, ends
<1>1. ASSUME Inv, Connect PROVE Inv'
  <2>1. TypeOK'
    <3>1. /\ connects' \in 0..MaxConnects /\ sends' \in 0..MaxSends
          /\ closes' \in 0..MaxCloses /\ onSends' \in 0..sends' /\ disconnects' \in Nat
      BY <1>1 DEF Connect
    <3>2. onConnect_' \in BOOLEAN
      BY <1>1 DEF Connect
    <3> QED BY <1>1, <3>1, <3>2 DEF Connect
  <2>2. ChainOrLoop' /\ LoopIsSilent' /\ LostIsKnown' /\ WriteIsCounted' /\ DisconnectOnlyWhenLost'
    BY <1>1 DEF Connect
  <2> QED BY <2>1, <2>2
<1>2. Inv /\ Send => Inv'
  BY DEF Send
<1>3. Inv /\ Close => Inv'
  BY DEF Close
<1> QED BY <1>1, <1>2, <1>3

(* The handlers of the chain.                                              *)
LEMMA ChainInv ==
    ASSUME Inv,
           \/ \E at \in DOMAIN NextStep : Advance(at) \/ Fail(at)
           \/ OnHandshake \/ OnHandshakeError
    PROVE  Inv'
<1> USE BoundsAssumption DEF Inv, TypeOK, ChainOrLoop, LoopIsSilent, LostIsKnown, WriteIsCounted, IsOpen,
        DisconnectOnlyWhenLost, NextStep, chain, reads, writes, ends, Answered
<1>1. ASSUME NEW at \in DOMAIN NextStep, Advance(at) PROVE Inv'
  BY <1>1 DEF Advance
<1>2. ASSUME NEW at \in DOMAIN NextStep, Fail(at) PROVE Inv'
  BY <1>2 DEF Fail
<1>3. CASE OnHandshake
  BY <1>3 DEF OnHandshake, Listening
<1>4. CASE OnHandshakeError
  BY <1>4 DEF OnHandshakeError
<1> QED BY <1>1, <1>2, <1>3, <1>4

(* The read loop, and the handlers of writes and closes.                   *)
LEMMA LoopInv ==
    ASSUME Inv,
           \/ OnMessage \/ OnMessageThrows \/ OnReadError \/ OnReadAborted
           \/ OnWrite \/ OnWriteError \/ OnClose
    PROVE  Inv'
<1> USE BoundsAssumption DEF Inv, TypeOK, ChainOrLoop, LoopIsSilent, LostIsKnown, WriteIsCounted, IsOpen,
        DisconnectOnlyWhenLost, NextStep, chain, reads, writes, ends
<1>1. CASE OnMessage
  BY <1>1 DEF OnMessage
<1>2. CASE OnMessageThrows
  BY <1>2 DEF OnMessageThrows
<1>3. CASE OnReadError
  <2>1. TypeOK'
    BY <1>3 DEF OnReadError
  <2>2. ChainOrLoop' /\ LoopIsSilent' /\ LostIsKnown' /\ WriteIsCounted'
    BY <1>3 DEF OnReadError
  <2>3. DisconnectOnlyWhenLost'
    BY <1>3 DEF OnReadError
  <2> QED BY <2>1, <2>2, <2>3
<1>4. CASE OnReadAborted
  <2>1. TypeOK'
    <3>1. disconnects' \in Nat
      BY <1>4 DEF OnReadAborted, Reports
    <3> QED BY <1>4, <3>1 DEF OnReadAborted
  <2>2. ChainOrLoop' /\ LoopIsSilent' /\ LostIsKnown' /\ WriteIsCounted'
    BY <1>4 DEF OnReadAborted, Reports
  <2>3. DisconnectOnlyWhenLost'
    BY <1>4 DEF OnReadAborted, Reports
  <2> QED BY <2>1, <2>2, <2>3
<1>5. CASE OnWrite
  <2>1. TypeOK'
    <3>1. onSends' \in 0..sends'
      BY <1>5 DEF OnWrite, WriteDone
    <3> QED BY <1>5, <3>1 DEF OnWrite, WriteDone
  <2>2. ChainOrLoop' /\ LoopIsSilent' /\ LostIsKnown' /\ WriteIsCounted'
    BY <1>5 DEF OnWrite, WriteDone
  <2>3. DisconnectOnlyWhenLost'
    BY <1>5 DEF OnWrite, WriteDone
  <2> QED BY <2>1, <2>2, <2>3
<1>6. CASE OnWriteError
  BY <1>6 DEF OnWriteError, WriteDone
<1>7. CASE OnClose
  <2>1. TypeOK'
    BY <1>7 DEF OnClose, StreamClosed
  <2>2. ChainOrLoop' /\ LoopIsSilent' /\ LostIsKnown' /\ WriteIsCounted'
    BY <1>7 DEF OnClose, StreamClosed
  <2>3. DisconnectOnlyWhenLost'
    BY <1>7 DEF OnClose
  <2> QED BY <2>1, <2>2, <2>3
<1> QED BY <1>1, <1>2, <1>3, <1>4, <1>5, <1>6, <1>7

LEMMA NextInv == Inv /\ [Next]_vars => Inv'
<1> SUFFICES ASSUME Inv, [Next]_vars PROVE Inv'
  OBVIOUS
<1>1. CASE Next
  BY <1>1, CallInv, ChainInv, LoopInv DEF Next
<1>2. CASE UNCHANGED vars
  BY <1>2 DEF vars, connection, chain, reads, writes, ends, Inv, TypeOK, ChainOrLoop,
        LoopIsSilent, LostIsKnown, WriteIsCounted, IsOpen, DisconnectOnlyWhenLost, NextStep
<1> QED BY <1>1, <1>2

LEMMA AlwaysInv == Spec => []Inv
  BY InitInv, NextInv, PTL DEF Spec

(* Every variable has its type.                                            *)
THEOREM TypeCorrect == Spec => []TypeOK
<1>1. Inv => TypeOK BY DEF Inv
<1> QED BY AlwaysInv, <1>1, PTL

(* A read is pending as long as the connection is open or being closed, or *)
(* is lost and not yet reported.                                           *)
THEOREM AlwaysListens == Spec => []ListensWhileOpen
<1>1. Inv => ListensWhileOpen BY DEF Inv, LoopIsSilent, LostIsKnown, IsOpen, ListensWhileOpen
<1> QED BY AlwaysInv, <1>1, PTL

(* onDisconnect is called at most once for a connection, and only when it  *)
(* ended without the user's Close.                                         *)
THEOREM ReportsTheLostOnce == Spec => []DisconnectOnlyWhenLost
<1>1. Inv => DisconnectOnlyWhenLost BY DEF Inv
<1> QED BY AlwaysInv, <1>1, PTL
-----------------------------------------------------------------------------
(* The refinement: each handler is a step of the connection or none.       *)

LEMMA InitRefines == Init => C!Init
  BY DEF Init, C!Init, ConnectionPhase

LEMMA NextRefines == Inv /\ [Next]_vars => [C!Next]_(C!vars)
<1> SUFFICES ASSUME Inv, [Next]_vars PROVE C!Next \/ UNCHANGED C!vars
  OBVIOUS
<1> USE DEF ConnectionPhase, C!vars, Inv, TypeOK, ChainOrLoop, LoopIsSilent, IsOpen,
        NextStep, chain, reads, writes, ends, Running
<1>1. CASE Running /\ Connect
  <2>1. C!Connect
    BY <1>1, BoundsAssumption DEF Connect, C!Connect
  <2> QED BY <1>1, <2>1 DEF C!Next
<1>2. CASE Running /\ Send
  BY <1>2 DEF Send
<1>3. CASE Running /\ Close
  <2>1. C!Close
    BY <1>3 DEF Close, C!Close
  <2> QED BY <1>3, <2>1 DEF C!Next
<1>4. ASSUME NEW at \in DOMAIN NextStep, Advance(at) PROVE UNCHANGED C!vars
  BY <1>4 DEF Advance
<1>5. ASSUME NEW at \in DOMAIN NextStep, Running /\ Fail(at) PROVE C!Next
  <2>1. C!Answer
    BY <1>5 DEF Fail, Answered, C!Answer
  <2> QED BY <1>5, <2>1 DEF C!Next
<1>6. CASE Running /\ OnHandshake
  <2>1. C!Answer
    BY <1>6 DEF OnHandshake, Answered, Listening, C!Answer
  <2> QED BY <1>6, <2>1 DEF C!Next
<1>7. CASE Running /\ OnHandshakeError
  <2>1. C!Answer
    BY <1>7 DEF OnHandshakeError, Answered, C!Answer
  <2> QED BY <1>7, <2>1 DEF C!Next
<1>8. CASE UNCHANGED vars
  BY <1>8 DEF vars, connection
<1>9. CASE Running /\ (OnMessage \/ OnMessageThrows)
  <2>1. C!Message
    BY <1>9 DEF OnMessage, OnMessageThrows, C!Message
  <2> QED BY <1>9, <2>1 DEF C!Next
<1>10. CASE Running /\ OnReadError
  <2>1. C!End
    BY <1>10 DEF OnReadError, C!End
  <2> QED BY <1>10, <2>1 DEF C!Next
<1>11. CASE Running /\ OnReadAborted
  <2>1. C!Report
    BY <1>11 DEF OnReadAborted, Reports, C!Report
  <2> QED BY <1>11, <2>1 DEF C!Next
<1>12. CASE Running /\ OnWrite
  <2>1. C!Crash \/ UNCHANGED C!vars
    BY <1>12 DEF OnWrite, WriteDone, C!Crash
  <2> QED BY <1>12, <2>1 DEF C!Next
<1>13. CASE Running /\ OnWriteError
  <2>1. C!End \/ UNCHANGED C!vars
    BY <1>13 DEF OnWriteError, WriteDone, C!End
  <2> QED BY <1>13, <2>1 DEF C!Next
<1>14. CASE Running /\ OnClose
  <2>1. C!End \/ UNCHANGED C!vars
    BY <1>14 DEF OnClose, StreamClosed, C!End
  <2> QED BY <1>14, <2>1 DEF C!Next
<1> HIDE DEF ConnectionPhase, C!vars, Inv, TypeOK
<1> QED BY <1>1, <1>2, <1>3, <1>4, <1>5, <1>6, <1>7, <1>8, <1>9, <1>10, <1>11, <1>12, <1>13,
           <1>14 DEF Next

(* In whatever order its handlers run, the client gives the callbacks the  *)
(* order Connection promises.                                              *)
THEOREM ClientImplementsConnection == Spec => ImplementsConnection
  BY InitRefines, NextRefines, AlwaysInv, PTL DEF Spec, ImplementsConnection, C!Spec
=============================================================================

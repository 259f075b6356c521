---------------------------- MODULE BridgeProofs ----------------------------
(***************************************************************************)
(* Proofs about Bridge for any number of messages and of terminate calls:  *)
(* what holds when the connector is over, that a terminate before the last *)
(* look at the flag starts no threads, and that it connects once.          *)
(***************************************************************************)
EXTENDS Bridge, TLAPS

\* The part of the type invariant that the proofs need.
StateInv ==
    /\ main \in Mains
    /\ rx \in {"none", "readsid", "mark", "setsid", "read", "ended"}
    /\ tx \in {"none", "writesid", "recv", "close", "ended"}
    /\ terminate \in BOOLEAN /\ connected \in BOOLEAN
    /\ told \in BOOLEAN /\ late \in BOOLEAN

Over(thread) == thread \in {"none", "ended"}

\* Where the connector's thread stands tells how far the other two are.
PhaseInv ==
    /\ main \notin {"starttx", "setep", "joinrx", "jointx"} => Over(rx)
    /\ main = "jointx" => rx = "ended"
    /\ main \notin {"setep", "joinrx", "jointx"} => Over(tx)
    /\ main \notin {"starttx", "setep", "joinrx", "jointx", "clear"} => ~connected
    /\ tx = "ended" /\ main \in {"setep", "joinrx", "jointx"} => stream = "shut"
    /\ main \in {"connect", "connecting", "failed", "clear", "again", "done"} =>
          stream # "open"

\* The threads run only after the last look at the flag, and a terminate from
\* then on is late or gives the message.
HeedInv ==
    /\ rx # "none" \/ tx # "none" => main \in Window \/ ep # "none"
    /\ main \in {"startrx", "starttx"} /\ terminate => told \/ late
    /\ Heeded

USE DEF link, threads, bridge, history, vars, Mains, Window, Main, Unlocked, Rx, Tx,
        StateInv, Over, TerminateSeen, Joined, StreamClosed

LEMMA PhaseInit == Init => StateInv /\ PhaseInv /\ HeedInv
BY DEF Init, PhaseInv, HeedInv, Heeded

LEMMA PhaseConnector == StateInv /\ PhaseInv /\ Connector => StateInv' /\ PhaseInv'
<1> SUFFICES ASSUME StateInv, PhaseInv, Connector
             PROVE StateInv' /\ PhaseInv'
    OBVIOUS
<1> USE DEF PhaseInv
<1>1. CASE Connect BY <1>1 DEF Connect
<1>2. CASE ConnectOk BY <1>2 DEF ConnectOk
<1>3. CASE ConnectFailed BY <1>3 DEF ConnectFailed
<1>4. CASE Retry BY <1>4 DEF Retry
<1>5. CASE Check BY <1>5 DEF Check
<1>6. CASE Make BY <1>6 DEF Make
<1>7. CASE Register BY <1>7 DEF Register
<1>8. CASE Recheck BY <1>8 DEF Recheck
<1>9. CASE StartRx BY <1>9 DEF StartRx
<1>10. CASE StartTx BY <1>10 DEF StartTx
<1>11. CASE SetEp BY <1>11 DEF SetEp
<1>12. CASE JoinRx BY <1>12 DEF JoinRx
<1>13. CASE JoinTx BY <1>13 DEF JoinTx
<1>14. CASE Clear BY <1>14 DEF Clear
<1>15. CASE Again BY <1>15 DEF Again
<1> QED
    BY <1>1, <1>2, <1>3, <1>4, <1>5, <1>6, <1>7, <1>8, <1>9, <1>10, <1>11, <1>12, <1>13,
       <1>14, <1>15 DEF Connector

LEMMA PhaseOthers ==
    /\ StateInv /\ PhaseInv
    /\ Receiving \/ Sending \/ Terminate \/ GiveRaw \/ PeerCloses \/ UNCHANGED vars
    => StateInv' /\ PhaseInv'
<1> SUFFICES ASSUME StateInv, PhaseInv,
                    Receiving \/ Sending \/ Terminate \/ GiveRaw \/ PeerCloses \/ UNCHANGED vars
             PROVE StateInv' /\ PhaseInv'
    OBVIOUS
<1> USE DEF PhaseInv
<1>1. CASE RxReadSid BY <1>1 DEF RxReadSid
<1>2. CASE RxConnected BY <1>2 DEF RxConnected
<1>3. CASE RxSetSid BY <1>3 DEF RxSetSid
<1>4. CASE RxMessage BY <1>4 DEF RxMessage
<1>5. CASE RxEnd BY <1>5 DEF RxEnd
<1>6. CASE TxWriteSid BY <1>6 DEF TxWriteSid
<1>7. CASE TxRecv BY <1>7 DEF TxRecv
<1>8. CASE TxClose BY <1>8 DEF TxClose
<1>9. CASE Terminate BY <1>9 DEF Terminate
<1>10. CASE GiveRaw BY <1>10 DEF GiveRaw
<1>11. CASE PeerCloses BY <1>11 DEF PeerCloses
<1>12. CASE UNCHANGED vars BY <1>12
<1> QED
    BY <1>1, <1>2, <1>3, <1>4, <1>5, <1>6, <1>7, <1>8, <1>9, <1>10, <1>11, <1>12
    DEF Receiving, Sending

LEMMA PhaseStep == StateInv /\ PhaseInv /\ [Next]_vars => StateInv' /\ PhaseInv'
BY PhaseConnector, PhaseOthers DEF Next

\* When the connector's thread is over, both threads, the connection and the
\* connected flag are over too (connector.rs:124-136).
THEOREM NothingGoesOn == Spec => []Finished
<1>1. Init => StateInv /\ PhaseInv
    BY PhaseInit
<1>2. StateInv /\ PhaseInv => Finished
    BY DEF PhaseInv, Finished
<1> QED BY <1>1, <1>2, PhaseStep, PTL DEF Spec

LEMMA HeedConnector == StateInv /\ PhaseInv /\ HeedInv /\ Connector => HeedInv'
<1> SUFFICES ASSUME StateInv, PhaseInv, HeedInv, Connector
             PROVE HeedInv'
    OBVIOUS
<1> USE DEF HeedInv, Heeded
<1>1. CASE Connect BY <1>1 DEF Connect
<1>2. CASE ConnectOk BY <1>2 DEF ConnectOk
<1>3. CASE ConnectFailed BY <1>3 DEF ConnectFailed
<1>4. CASE Retry BY <1>4 DEF Retry
<1>5. CASE Check BY <1>5 DEF Check
<1>6. CASE Make BY <1>6 DEF Make
<1>7. CASE Register BY <1>7 DEF Register
<1>8. CASE Recheck BY <1>8 DEF Recheck
<1>9. CASE StartRx BY <1>9 DEF StartRx
<1>10. CASE StartTx BY <1>10 DEF StartTx
<1>11. CASE SetEp BY <1>11 DEF SetEp
<1>12. CASE JoinRx BY <1>12 DEF JoinRx
<1>13. CASE JoinTx BY <1>13 DEF JoinTx
<1>14. CASE Clear BY <1>14 DEF Clear
<1>15. CASE Again BY <1>15 DEF Again
<1> QED
    BY <1>1, <1>2, <1>3, <1>4, <1>5, <1>6, <1>7, <1>8, <1>9, <1>10, <1>11, <1>12, <1>13,
       <1>14, <1>15 DEF Connector

LEMMA HeedOthers ==
    /\ StateInv /\ HeedInv
    /\ Receiving \/ Sending \/ Terminate \/ GiveRaw \/ PeerCloses \/ UNCHANGED vars
    => HeedInv'
<1> SUFFICES ASSUME StateInv, HeedInv,
                    Receiving \/ Sending \/ Terminate \/ GiveRaw \/ PeerCloses \/ UNCHANGED vars
             PROVE HeedInv'
    OBVIOUS
<1> USE DEF HeedInv, Heeded
<1>1. CASE RxReadSid BY <1>1 DEF RxReadSid
<1>2. CASE RxConnected BY <1>2 DEF RxConnected
<1>3. CASE RxSetSid BY <1>3 DEF RxSetSid
<1>4. CASE RxMessage BY <1>4 DEF RxMessage
<1>5. CASE RxEnd BY <1>5 DEF RxEnd
<1>6. CASE TxWriteSid BY <1>6 DEF TxWriteSid
<1>7. CASE TxRecv BY <1>7 DEF TxRecv
<1>8. CASE TxClose BY <1>8 DEF TxClose
<1>9. CASE Terminate BY <1>9 DEF Terminate
<1>10. CASE GiveRaw BY <1>10 DEF GiveRaw
<1>11. CASE PeerCloses BY <1>11 DEF PeerCloses
<1>12. CASE UNCHANGED vars BY <1>12
<1> QED
    BY <1>1, <1>2, <1>3, <1>4, <1>5, <1>6, <1>7, <1>8, <1>9, <1>10, <1>11, <1>12
    DEF Receiving, Sending

\* A terminate before the last look at the flag starts no threads
\* (connector.rs:85-109).
THEOREM EarlyTerminateHeeded == Spec => []Heeded
<1>1. Init => StateInv /\ PhaseInv /\ HeedInv
    BY PhaseInit
<1>2. StateInv /\ PhaseInv /\ HeedInv /\ [Next]_vars => StateInv' /\ PhaseInv' /\ HeedInv'
    BY PhaseStep, HeedConnector, HeedOthers DEF Next
<1>3. HeedInv => Heeded
    BY DEF HeedInv
<1> QED BY <1>1, <1>2, <1>3, PTL DEF Spec

\* Only terminate puts a terminate message into the queue, and only that message
\* ends the sending thread, which main waits for.
OnceInv ==
    /\ queue \in Seq({"raw", "terminate"})
    /\ ~terminate => \A i \in 1..Len(queue) : queue[i] = "raw"
    /\ tx \in {"close", "ended"} => terminate
    /\ main \in {"clear", "again"} => tx = "ended"
    /\ ep # "none" => main \in {"joinrx", "jointx", "clear", "again", "done"}
    /\ ep # "former"

LEMMA OnceConnector == StateInv /\ OnceInv /\ Connector => OnceInv'
<1> SUFFICES ASSUME StateInv, OnceInv, Connector
             PROVE OnceInv'
    OBVIOUS
<1> USE DEF OnceInv
<1>1. CASE Connect BY <1>1 DEF Connect
<1>2. CASE ConnectOk BY <1>2 DEF ConnectOk
<1>3. CASE ConnectFailed BY <1>3 DEF ConnectFailed
<1>4. CASE Retry BY <1>4 DEF Retry
<1>5. CASE Check BY <1>5 DEF Check
<1>6. CASE Make BY <1>6 DEF Make
<1>7. CASE Register BY <1>7 DEF Register
<1>8. CASE Recheck BY <1>8 DEF Recheck
<1>9. CASE StartRx BY <1>9 DEF StartRx
<1>10. CASE StartTx BY <1>10 DEF StartTx
<1>11. CASE SetEp BY <1>11 DEF SetEp
<1>12. CASE JoinRx BY <1>12 DEF JoinRx
<1>13. CASE JoinTx BY <1>13 DEF JoinTx
<1>14. CASE Clear BY <1>14 DEF Clear
<1>15. CASE Again BY <1>15 DEF Again
<1> QED
    BY <1>1, <1>2, <1>3, <1>4, <1>5, <1>6, <1>7, <1>8, <1>9, <1>10, <1>11, <1>12, <1>13,
       <1>14, <1>15 DEF Connector

LEMMA OnceOthers ==
    /\ StateInv /\ OnceInv
    /\ Receiving \/ Sending \/ Terminate \/ GiveRaw \/ PeerCloses \/ UNCHANGED vars
    => OnceInv'
<1> SUFFICES ASSUME StateInv, OnceInv,
                    Receiving \/ Sending \/ Terminate \/ GiveRaw \/ PeerCloses \/ UNCHANGED vars
             PROVE OnceInv'
    OBVIOUS
<1> USE DEF OnceInv
<1>1. CASE RxReadSid BY <1>1 DEF RxReadSid
<1>2. CASE RxConnected BY <1>2 DEF RxConnected
<1>3. CASE RxSetSid BY <1>3 DEF RxSetSid
<1>4. CASE RxMessage BY <1>4 DEF RxMessage
<1>5. CASE RxEnd BY <1>5 DEF RxEnd
<1>6. CASE TxWriteSid BY <1>6 DEF TxWriteSid
<1>7. CASE TxRecv BY <1>7 DEF TxRecv
<1>8. CASE TxClose BY <1>8 DEF TxClose
<1>9. CASE Terminate BY <1>9 DEF Terminate
<1>10. CASE GiveRaw BY <1>10 DEF GiveRaw
<1>11. CASE PeerCloses BY <1>11 DEF PeerCloses
<1>12. CASE UNCHANGED vars BY <1>12
<1> QED
    BY <1>1, <1>2, <1>3, <1>4, <1>5, <1>6, <1>7, <1>8, <1>9, <1>10, <1>11, <1>12
    DEF Receiving, Sending

\* The connector never connects a second time: ep never holds the endpoint of a
\* former connection, and main comes out of both joins only after a terminate.
ConnectsOnce ==
    /\ ep # "former"
    /\ main \in {"clear", "again"} => terminate

\* No run of the connector is better than the counterexample to Reconnects: only a
\* terminate message ends the sending thread, so whatever the remote side, the net
\* and the application do, one connection is all there is (mod.rs:69, 114-131).
THEOREM OneConnection == Spec => []ConnectsOnce
<1>1. Init => StateInv /\ PhaseInv /\ OnceInv
    BY PhaseInit DEF Init, OnceInv
<1>2. StateInv /\ PhaseInv /\ OnceInv /\ [Next]_vars => StateInv' /\ PhaseInv' /\ OnceInv'
    BY PhaseStep, OnceConnector, OnceOthers DEF Next
<1>3. OnceInv => ConnectsOnce
    BY DEF OnceInv, ConnectsOnce
<1> QED BY <1>1, <1>2, <1>3, PTL DEF Spec

----------------------------------------------------------------------------
(* Types, and that nothing is in the queue but what was given *)

SizeInv == TypeOK /\ Len(queue) <= raws + calls

LEMMA EmptyQueue == <<>> \in Seq({"raw", "terminate"}) /\ Len(<<>>) = 0
OBVIOUS

LEMMA GivenOne ==
    ASSUME NEW q \in Seq({"raw", "terminate"}), NEW m \in {"raw", "terminate"}
    PROVE  Append(q, m) \in Seq({"raw", "terminate"}) /\ Len(Append(q, m)) = Len(q) + 1
OBVIOUS

LEMMA TakenOne ==
    ASSUME NEW q \in Seq({"raw", "terminate"}), q # <<>>
    PROVE  /\ Tail(q) \in Seq({"raw", "terminate"})
           /\ Len(Tail(q)) = Len(q) - 1 /\ Len(q) \in Nat
OBVIOUS

LEMMA SizeConnector == SizeInv /\ Connector => SizeInv'
<1> SUFFICES ASSUME SizeInv, Connector PROVE SizeInv'
    OBVIOUS
<1> USE DEF SizeInv, TypeOK
<1>1. CASE Make
    <2>1. queue' \in Seq({"raw", "terminate"}) /\ Len(queue') = 0
        BY <1>1, EmptyQueue DEF Make
    <2>2. /\ main' = "register" /\ sid' = FALSE /\ registered' = FALSE
          /\ ep' \in {"none", "current", "former"}
          /\ UNCHANGED <<rx, tx, stream, terminate, connected, history>>
        BY <1>1 DEF Make, Main
    <2>3. 0 <= raws' + calls' /\ 0 <= MaxRaw + MaxCalls
        BY <2>2, BoundAssumption DEF history
    <2> QED BY <2>1, <2>2, <2>3 DEF history, Mains
<1>2. CASE ~Make
    <2>1. UNCHANGED <<queue, history>>
        BY <1>2 DEF Connector, Connect, ConnectOk, ConnectFailed, Retry, Check, Register, Recheck,
                    StartRx, StartTx, SetEp, JoinRx, JoinTx, Clear, Again
    <2>2. /\ main' \in Mains /\ rx' \in {"none", "readsid", "mark", "setsid", "read", "ended"}
          /\ tx' \in {"none", "writesid", "recv", "close", "ended"}
        BY <1>2 DEF Connector, Connect, ConnectOk, ConnectFailed, Retry, Check, Register, Recheck,
                    StartRx, StartTx, SetEp, JoinRx, JoinTx, Clear, Again
    <2>3. /\ stream' \in {"none", "open", "shut"} /\ terminate' \in BOOLEAN
          /\ connected' \in BOOLEAN /\ ep' \in {"none", "current", "former"}
          /\ registered' \in BOOLEAN /\ sid' \in BOOLEAN
        BY <1>2 DEF Connector, Connect, ConnectOk, ConnectFailed, Retry, Check, Register, Recheck,
                    StartRx, StartTx, SetEp, JoinRx, JoinTx, Clear, Again
    <2> QED BY <2>1, <2>2, <2>3
<1> QED BY <1>1, <1>2

LEMMA SizeOthers ==
    /\ SizeInv
    /\ Receiving \/ Sending \/ Terminate \/ GiveRaw \/ PeerCloses \/ UNCHANGED vars
    => SizeInv'
<1> SUFFICES ASSUME SizeInv,
                    Receiving \/ Sending \/ Terminate \/ GiveRaw \/ PeerCloses \/ UNCHANGED vars
             PROVE SizeInv'
    OBVIOUS
<1> USE BoundAssumption DEF SizeInv, TypeOK
<1>1. CASE RxReadSid BY <1>1 DEF RxReadSid
<1>2. CASE RxConnected BY <1>2 DEF RxConnected
<1>3. CASE RxSetSid BY <1>3 DEF RxSetSid
<1>4. CASE RxMessage
    <2>1. /\ queue' = queue \/ queue' = Append(queue, "raw")
          /\ raws' = raws + 1 /\ raws < MaxRaw /\ calls' = calls
          /\ UNCHANGED <<main, tx, stream, registered, sid, bridge, told, late>> /\ rx' = rx
        BY <1>4 DEF RxMessage
    <2>2. /\ queue' \in Seq({"raw", "terminate"})
          /\ Len(queue') = Len(queue) \/ Len(queue') = Len(queue) + 1
        BY <2>1, GivenOne
    <2>3. Len(queue) \in Nat
        OBVIOUS
    <2> QED BY <2>1, <2>2, <2>3
<1>5. CASE RxEnd BY <1>5 DEF RxEnd
<1>6. CASE TxWriteSid BY <1>6 DEF TxWriteSid
<1>7. CASE TxRecv
    BY <1>7, TakenOne DEF TxRecv
<1>8. CASE TxClose BY <1>8 DEF TxClose
<1>9. CASE Terminate
    <2>1. /\ queue' = queue \/ queue' = Append(queue, "terminate")
          /\ calls' = calls + 1 /\ calls < MaxCalls /\ terminate' = TRUE
          /\ told' \in BOOLEAN /\ late' \in BOOLEAN
          /\ UNCHANGED <<threads, stream, registered, sid, connected, ep, raws>>
        BY <1>9 DEF Terminate
    <2>2. /\ queue' \in Seq({"raw", "terminate"})
          /\ Len(queue') = Len(queue) \/ Len(queue') = Len(queue) + 1
        BY <2>1, GivenOne
    <2>3. Len(queue) \in Nat
        OBVIOUS
    <2> QED BY <2>1, <2>2, <2>3
<1>10. CASE GiveRaw
    <2>1. Len(queue) \in Nat
        OBVIOUS
    <2> QED BY <1>10, <2>1, GivenOne DEF GiveRaw
<1>11. CASE PeerCloses BY <1>11 DEF PeerCloses
<1>12. CASE UNCHANGED vars BY <1>12
<1> QED
    BY <1>1, <1>2, <1>3, <1>4, <1>5, <1>6, <1>7, <1>8, <1>9, <1>10, <1>11, <1>12
    DEF Receiving, Sending

\* The types, and what is in the queue of a connection's endpoint: no more than
\* the net and terminate gave it (connector.rs:48-61, mod.rs:66-127).
THEOREM TypeCorrect == Spec => []TypeOK
<1>1. Init => SizeInv
    <2> SUFFICES ASSUME Init PROVE SizeInv
        OBVIOUS
    <2>1. queue \in Seq({"raw", "terminate"}) /\ Len(queue) = 0
        BY EmptyQueue DEF Init
    <2>2. 0 <= MaxRaw + MaxCalls /\ raws \in 0..MaxRaw /\ calls \in 0..MaxCalls
          /\ 0 <= raws + calls
        BY BoundAssumption DEF Init
    <2>3. /\ main \in Mains /\ rx = "none" /\ tx = "none" /\ stream = "none"
          /\ terminate = FALSE /\ connected = FALSE /\ ep = "none" /\ registered = FALSE
          /\ sid = FALSE /\ told = FALSE /\ late = FALSE
        BY DEF Init, Mains
    <2> QED BY <2>1, <2>2, <2>3 DEF SizeInv, TypeOK
<1>2. SizeInv /\ [Next]_vars => SizeInv'
    BY SizeConnector, SizeOthers DEF Next
<1>3. SizeInv => TypeOK
    BY DEF SizeInv
<1> QED BY <1>1, <1>2, <1>3, PTL DEF Spec
=============================================================================

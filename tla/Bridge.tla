------------------------------- MODULE Bridge -------------------------------
(***************************************************************************)
(* The life of a TCP bridge's connector: its own thread, which connects,   *)
(* makes an endpoint, starts a receiving and a sending thread and joins    *)
(* them (src/src/tcp/connector.rs), those two threads (src/src/tcp/mod.rs) *)
(* and an application that calls terminate, while the net gives messages   *)
(* to the bridge's endpoint and the remote side may close the connection.  *)
(*                                                                         *)
(* The bridge's state is behind one mutex, held for single statements, of  *)
(* which only the attempt to connect takes long: the lock is free except   *)
(* at main = "connecting".  The endpoint's queue is a sequence of raw and  *)
(* of terminate messages; sync and clone messages are thrown away by the   *)
(* sending thread as they come and are left out, and so are a              *)
(* TerminateMessage that an application makes and sends itself (mod.rs:25) *)
(* and the panic over a message that is not raw (mod.rs:88-91): nothing in *)
(* the code sends either.                                                  *)
(***************************************************************************)
EXTENDS Integers, Sequences

CONSTANTS
    MaxRaw,      \* bound: messages that the two nets send
    MaxCalls     \* bound: calls of terminate

ASSUME BoundAssumption == MaxRaw \in Nat /\ MaxCalls \in Nat

VARIABLES
    main,        \* TcpBridgeConnector::thread
    rx, tx,      \* thread_rx and thread_tx
    stream,      \* the TCP connection
    terminate,   \* Internal.terminate
    connected,   \* Internal.connected
    ep,          \* Internal.ep: none, the endpoint of this connection, or of the former
    registered,  \* this connection's endpoint is on the net
    sid,         \* its address has the identifier of the remote net
    queue,       \* its messages
    raws, calls, \* for the bounds
    told,        \* a terminate message was given (history)
    late         \* terminate was called after the last look at the flag and
                 \* before ep was set (history)

link == <<stream, registered, sid, queue>>
threads == <<main, rx, tx>>
bridge == <<terminate, connected, ep>>
history == <<raws, calls, told, late>>
vars == <<threads, link, bridge, history>>

Mains == {"connect", "connecting", "failed", "check", "make", "register", "recheck",
          "startrx", "starttx", "setep", "joinrx", "jointx", "clear", "again", "done"}
Window == {"startrx", "starttx", "setep"}

TypeOK ==
    /\ main \in Mains
    /\ rx \in {"none", "readsid", "mark", "setsid", "read", "ended"}
    /\ tx \in {"none", "writesid", "recv", "close", "ended"}
    /\ stream \in {"none", "open", "shut"}
    /\ terminate \in BOOLEAN /\ connected \in BOOLEAN
    /\ ep \in {"none", "current", "former"}
    /\ registered \in BOOLEAN /\ sid \in BOOLEAN
    /\ queue \in Seq({"raw", "terminate"})
    /\ Len(queue) <= MaxRaw + MaxCalls
    /\ raws \in 0..MaxRaw /\ calls \in 0..MaxCalls
    /\ told \in BOOLEAN /\ late \in BOOLEAN

\* TcpBridgeConnector::new
Init ==
    /\ main = "connect" /\ rx = "none" /\ tx = "none"
    /\ stream = "none" /\ terminate = FALSE /\ connected = FALSE /\ ep = "none"
    /\ registered = FALSE /\ sid = FALSE /\ queue = <<>>
    /\ raws = 0 /\ calls = 0 /\ told = FALSE /\ late = FALSE

Main(from, to) == main = from /\ main' = to
Unlocked == main # "connecting"

----------------------------------------------------------------------------
(* The connector's thread *)

\* The lock is held until the attempt is over.
Connect ==
    /\ Main("connect", "connecting")
    /\ UNCHANGED <<rx, tx, link, bridge, history>>

ConnectOk ==
    /\ Main("connecting", "check")
    /\ stream' = "open"
    /\ UNCHANGED <<rx, tx, registered, sid, queue, bridge, history>>

ConnectFailed ==
    /\ Main("connecting", "failed")
    /\ UNCHANGED <<rx, tx, link, bridge, history>>

Retry ==
    /\ Main("failed", IF terminate THEN "done" ELSE "connect")
    /\ UNCHANGED <<rx, tx, link, bridge, history>>

\* A return drops the stream, which closes the connection.
Check ==
    /\ Main("check", IF terminate THEN "done" ELSE "make")
    /\ stream' = IF terminate THEN "shut" ELSE stream
    /\ UNCHANGED <<rx, tx, registered, sid, queue, bridge, history>>

\* The endpoint of an earlier connection, if there is one, stays in ep.
Make ==
    /\ Main("make", "register")
    /\ sid' = FALSE /\ queue' = <<>> /\ registered' = FALSE
    /\ ep' = IF ep = "none" THEN "none" ELSE "former"
    /\ UNCHANGED <<rx, tx, stream, terminate, connected, history>>

Register ==
    /\ Main("register", "recheck")
    /\ registered' = TRUE
    /\ UNCHANGED <<rx, tx, stream, sid, queue, bridge, history>>

\* The last look at the flag before the threads start.  A return drops the only
\* handle but the net's, and the endpoint leaves the net (module Net).  The
\* mutant does not look.
TerminateUnseen == FALSE
TerminateSeen == terminate

Recheck ==
    /\ Main("recheck", IF TerminateSeen THEN "done" ELSE "startrx")
    /\ stream' = IF TerminateSeen THEN "shut" ELSE stream
    /\ registered' = ~TerminateSeen
    /\ UNCHANGED <<rx, tx, sid, queue, bridge, history>>

StartRx ==
    /\ Main("startrx", "starttx")
    /\ rx' = "readsid"
    /\ UNCHANGED <<tx, link, bridge, history>>

StartTx ==
    /\ Main("starttx", "setep")
    /\ tx' = "writesid"
    /\ UNCHANGED <<rx, link, bridge, history>>

SetEp ==
    /\ Main("setep", "joinrx")
    /\ ep' = "current"
    /\ UNCHANGED <<rx, tx, link, terminate, connected, history>>

\* join returns when the thread is over.  The mutant does not wait.
JoinedAtOnce(thread) == TRUE
Joined(thread) == thread = "ended"

JoinRx ==
    /\ Main("joinrx", "jointx")
    /\ Joined(rx)
    /\ UNCHANGED <<rx, tx, link, bridge, history>>

JoinTx ==
    /\ Main("jointx", "clear")
    /\ Joined(tx)
    /\ UNCHANGED <<rx, tx, link, bridge, history>>

Clear ==
    /\ Main("clear", "again")
    /\ connected' = FALSE
    /\ UNCHANGED <<rx, tx, link, terminate, ep, history>>

Again ==
    /\ Main("again", IF terminate THEN "done" ELSE "connect")
    /\ UNCHANGED <<rx, tx, link, bridge, history>>

Connector ==
    \/ Connect \/ ConnectOk \/ ConnectFailed \/ Retry \/ Check \/ Make \/ Register
    \/ Recheck \/ StartRx \/ StartTx \/ SetEp \/ JoinRx \/ JoinTx \/ Clear \/ Again

----------------------------------------------------------------------------
(* thread_rx *)

Rx(from, to) == rx = from /\ rx' = to

RxReadSid ==
    /\ Rx("readsid", "mark")
    /\ stream = "open"
    /\ UNCHANGED <<main, tx, link, bridge, history>>

RxConnected ==
    /\ Rx("mark", "setsid")
    /\ Unlocked
    /\ connected' = TRUE
    /\ UNCHANGED <<main, tx, link, terminate, ep, history>>

RxSetSid ==
    /\ Rx("setsid", "read")
    /\ sid' = TRUE
    /\ UNCHANGED <<main, tx, stream, registered, queue, bridge, history>>

\* A message from the remote net, put onto this one.  If it is for any net, the
\* bridge's own endpoint gets it too and sends it back.
RxMessage ==
    /\ Rx("read", "read")
    /\ stream = "open" /\ raws < MaxRaw /\ raws' = raws + 1
    /\ \E anywhere \in BOOLEAN :
          queue' = IF anywhere /\ registered THEN Append(queue, "raw") ELSE queue
    /\ UNCHANGED <<main, tx, stream, registered, sid, bridge, calls, told, late>>

\* A read fails: thread_rx returns, or panics before it has the identifier or in
\* the middle of a message.
RxEnd ==
    /\ rx \in {"readsid", "read"} /\ rx' = "ended"
    /\ stream = "shut"
    /\ UNCHANGED <<main, tx, link, bridge, history>>

----------------------------------------------------------------------------
(* thread_tx: the results of its writes are ignored, and a recvorblock that *)
(* timed out is called again                                               *)

Tx(from, to) == tx = from /\ tx' = to

TxWriteSid ==
    /\ Tx("writesid", "recv")
    /\ UNCHANGED <<main, rx, link, bridge, history>>

TxRecv ==
    /\ queue # <<>>
    /\ Tx("recv", IF Head(queue) = "terminate" THEN "close" ELSE "recv")
    /\ queue' = Tail(queue)
    /\ UNCHANGED <<main, rx, stream, registered, sid, bridge, history>>

\* The mutants: it returns without closing the stream, or closes one half.
StreamLeft == stream
StreamHalfClosed == "half"
StreamClosed == "shut"

TxClose ==
    /\ Tx("close", "ended")
    /\ stream' = StreamClosed
    /\ UNCHANGED <<main, rx, registered, sid, queue, bridge, history>>

----------------------------------------------------------------------------
(* The application, the net and the remote side *)

\* terminate: sets the flag and, once there is an endpoint, gives it a message
\* for the sending thread.
Terminate ==
    /\ Unlocked /\ calls < MaxCalls /\ calls' = calls + 1
    /\ terminate' = TRUE
    /\ IF ep = "none"
       THEN late' = (late \/ main \in Window) /\ UNCHANGED <<queue, told>>
       ELSE /\ queue' = IF ep = "current" THEN Append(queue, "terminate") ELSE queue
            /\ told' = TRUE
            /\ UNCHANGED late
    /\ UNCHANGED <<threads, stream, registered, sid, connected, ep, raws>>

\* A raw message that is for any net, or for the remote one.
GiveRaw ==
    /\ registered /\ raws < MaxRaw /\ raws' = raws + 1
    /\ queue' = Append(queue, "raw")
    /\ UNCHANGED <<threads, stream, registered, sid, bridge, calls, told, late>>

PeerCloses ==
    /\ stream = "open" /\ stream' = "shut"
    /\ UNCHANGED <<threads, registered, sid, queue, bridge, history>>

----------------------------------------------------------------------------

Receiving == RxReadSid \/ RxConnected \/ RxSetSid \/ RxMessage \/ RxEnd
Sending == TxWriteSid \/ TxRecv \/ TxClose

Next == Connector \/ Receiving \/ Sending \/ Terminate \/ GiveRaw \/ PeerCloses

Spec == Init /\ [][Next]_vars

\* Each thread goes on when it can, reads and writes come to an end, and an
\* attempt to connect that is made again and again succeeds.
FairSpec ==
    /\ Spec
    /\ WF_vars(Connector) /\ WF_vars(Receiving) /\ WF_vars(Sending)
    /\ SF_vars(ConnectOk)

----------------------------------------------------------------------------
(* What must hold *)

\* When the connector's thread is over nothing of the connection goes on: both
\* threads are over or never ran, the connection is closed, and connected says
\* so, whatever order terminate, a closed connection and the end of the threads
\* come in (connector.rs:124-136).
Finished ==
    main = "done" =>
        /\ {rx, tx} \subseteq {"none", "ended"}
        /\ stream # "open"
        /\ ~connected

\* A terminate that comes before the last look at the flag starts no threads
\* (connector.rs:85-109: "It seems the main thread has not had time to set these
\* values so it still has not spawned and RX or TX", 53-55).
Heeded == terminate /\ ~told /\ ~late => rx = "none" /\ tx = "none"

\* terminate ends the connector, if it gives the terminate message or comes
\* before the last look at the flag: the sending thread closes the stream, "This
\* should cause the RX thread to terminate" (mod.rs:127), and main joins both.
TerminateEnds == told \/ (terminate /\ ~late) ~> main = "done"

\* When a connection ends and nobody asked for that, the connector connects again:
\* "Tries to maintain a TCP connecton to the specified remote network"
\* (net.rs:181-183), "Wait for RX and TX to terminate.. then try connection again
\* until we are requested to terminate" (connector.rs:124-125).
Reconnects == main = "joinrx" /\ stream = "shut" ~> main = "connect" \/ terminate

\* "We can terminate the listener and connector, which will cleanup any resources
\* used by them including any threads." (tests/tcpnet.rs:78-79)
TerminateAlwaysEnds == terminate ~> main = "done"
=============================================================================

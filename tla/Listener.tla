------------------------------ MODULE Listener ------------------------------
(***************************************************************************)
(* The listening side of the TCP bridge (src/src/tcp/listener.rs): the     *)
(* thread that binds, publishes its acceptor and accepts connections, the  *)
(* receiving thread of each connection as far as it uses the listener, and *)
(* applications that call terminate.                                       *)
(*                                                                         *)
(* The listener's state is behind one mutex.  It is held for single        *)
(* statements, and while a connection's endpoint is made and its threads   *)
(* are started.  What those threads do with the endpoint is module Bridge; *)
(* nobody sends the sending threads a terminate message, so they do not    *)
(* end.                                                                    *)
(***************************************************************************)
EXTENDS Integers, FiniteSets

CONSTANTS
    Conn,      \* connections that remote nets try
    Caller,    \* threads that call terminate, each once
    NoConn

ASSUME ConnAssumption == IsFiniteSet(Conn) /\ NoConn \notin Conn

VARIABLES
    acc,          \* thread_accept
    cur,          \* the connection it serves
    acceptor,     \* Internal.acceptor: none, open or closed
    terminate, clientcount, negcount,
    stream,       \* none, waiting for accept, open, or shut
    rx,           \* the receiving threads
    sending,      \* the connections with a sending thread
    caller,       \* where each caller is in terminate
    late          \* connections served after a terminate had returned (history)

counts == <<clientcount, negcount>>
threads == <<rx, sending>>
vars == <<acc, cur, acceptor, terminate, counts, stream, threads, caller, late>>

TypeOK ==
    /\ acc \in {"bind", "publish", "check", "accept", "error", "serve", "startrx",
                "starttx", "count", "ended", "failed"}
    /\ cur \in Conn \cup {NoConn}
    /\ acceptor \in {"none", "open", "closed"}
    /\ terminate \in BOOLEAN
    /\ clientcount \in 0..Cardinality(Conn) /\ negcount \in 0..Cardinality(Conn)
    /\ stream \in [Conn -> {"none", "waiting", "open", "shut"}]
    /\ rx \in [Conn -> {"none", "readsid", "negotiated", "read", "ended"}]
    /\ sending \subseteq Conn
    /\ caller \in [Caller -> {"idle", "look", "close", "returned"}]
    /\ late \in 0..Cardinality(Conn)

\* TcpBridgeListener::new
Init ==
    /\ acc = "bind" /\ cur = NoConn
    /\ acceptor = "none" /\ terminate = FALSE
    /\ clientcount = 0 /\ negcount = 0
    /\ stream = [c \in Conn |-> "none"]
    /\ rx = [c \in Conn |-> "none"] /\ sending = {}
    /\ caller = [p \in Caller |-> "idle"]
    /\ late = 0

Acc(from, to) == acc = from /\ acc' = to

\* The mutants: nothing is locked; the lock is not given back before the next
\* accept.
NeverLocked == TRUE
UnlockedLate == acc \notin {"startrx", "starttx", "count", "accept"}
Unlocked == acc \notin {"startrx", "starttx"}

----------------------------------------------------------------------------
(* thread_accept *)

Bind ==
    /\ Acc("bind", "publish")
    /\ UNCHANGED <<cur, acceptor, terminate, counts, stream, threads, caller, late>>

\* The unwrap of an error ends the thread.
BindFails ==
    /\ Acc("bind", "failed")
    /\ UNCHANGED <<cur, acceptor, terminate, counts, stream, threads, caller, late>>

Publish ==
    /\ Acc("publish", "check")
    /\ acceptor' = "open"
    /\ UNCHANGED <<cur, terminate, counts, stream, threads, caller, late>>

\* A terminate that came before Publish has closed nothing.  The mutant does not
\* look at the flag.
FlagUnseen == FALSE
FlagSeen == terminate

Check ==
    /\ Acc("check", IF FlagSeen THEN "ended" ELSE "accept")
    /\ UNCHANGED <<cur, acceptor, terminate, counts, stream, threads, caller, late>>

Accept ==
    /\ Acc("accept", "serve")
    /\ acceptor = "open"
    /\ \E c \in Conn :
          /\ stream[c] = "waiting"
          /\ cur' = c
          /\ stream' = [stream EXCEPT ![c] = "open"]
    /\ UNCHANGED <<acceptor, terminate, counts, threads, caller, late>>

\* incoming() gives one error after the other when the acceptor is closed; an error
\* at another time, after which the thread goes on (line 118), is left out.
AcceptError ==
    /\ Acc("accept", "error")
    /\ acceptor = "closed"
    /\ UNCHANGED <<cur, acceptor, terminate, counts, stream, threads, caller, late>>

Continue ==
    /\ Acc("error", "accept")
    /\ UNCHANGED <<cur, acceptor, terminate, counts, stream, threads, caller, late>>

\* Takes the lock, makes the endpoint and puts it on the net.
Serve ==
    /\ Acc("serve", "startrx")
    /\ late' = IF \E p \in Caller : caller[p] = "returned" THEN late + 1 ELSE late
    /\ UNCHANGED <<cur, acceptor, terminate, counts, stream, threads, caller>>

StartRx ==
    /\ Acc("startrx", "starttx")
    /\ rx' = [rx EXCEPT ![cur] = "readsid"]
    /\ UNCHANGED <<cur, acceptor, terminate, counts, stream, sending, caller, late>>

\* ... and gives the lock back.
StartTx ==
    /\ Acc("starttx", "count")
    /\ sending' = sending \cup {cur}
    /\ UNCHANGED <<cur, acceptor, terminate, counts, stream, rx, caller, late>>

\* clientcountinc.  The mutant counts a connection twice.
CountedTwice == clientcount + 2
Counted == clientcount + 1

Count ==
    /\ Acc("count", "accept")
    /\ clientcount' = Counted
    /\ cur' = NoConn
    /\ UNCHANGED <<acceptor, terminate, negcount, stream, threads, caller, late>>

AcceptThread ==
    \/ Bind \/ BindFails \/ Publish \/ Check \/ Accept \/ AcceptError \/ Continue
    \/ Serve \/ StartRx \/ StartTx \/ Count

----------------------------------------------------------------------------
(* thread_rx, as far as it concerns the listener *)

RxReadSid(c) ==
    /\ rx[c] = "readsid" /\ stream[c] = "open"
    /\ rx' = [rx EXCEPT ![c] = "negotiated"]
    /\ UNCHANGED <<acc, cur, acceptor, terminate, counts, stream, sending, caller, late>>

\* negcountinc
RxNegotiated(c) ==
    /\ rx[c] = "negotiated" /\ Unlocked
    /\ rx' = [rx EXCEPT ![c] = "read"]
    /\ negcount' = negcount + 1
    /\ UNCHANGED <<acc, cur, acceptor, terminate, clientcount, stream, sending, caller, late>>

\* It returns or panics, and neither count goes down.
RxEnd(c) ==
    /\ rx[c] \in {"readsid", "read"} /\ stream[c] = "shut"
    /\ rx' = [rx EXCEPT ![c] = "ended"]
    /\ UNCHANGED <<acc, cur, acceptor, terminate, counts, stream, sending, caller, late>>

RxThread(c) == RxReadSid(c) \/ RxNegotiated(c) \/ RxEnd(c)

----------------------------------------------------------------------------
(* terminate takes the lock three times; and the remote side *)

Calls(p, from, to) ==
    caller[p] = from /\ Unlocked /\ caller' = [caller EXCEPT ![p] = to]

Terminate(p) ==
    /\ Calls(p, "idle", "look")
    /\ terminate' = TRUE
    /\ UNCHANGED <<acc, cur, acceptor, counts, stream, threads, late>>

Look(p) ==
    /\ Calls(p, "look", IF acceptor = "none" THEN "returned" ELSE "close")
    /\ UNCHANGED <<acc, cur, acceptor, terminate, counts, stream, threads, late>>

CloseAccept(p) ==
    /\ Calls(p, "close", "returned")
    /\ acceptor' = "closed"
    /\ UNCHANGED <<acc, cur, terminate, counts, stream, threads, late>>

PeerConnects(c) ==
    /\ acc \notin {"bind", "failed"} /\ stream[c] = "none"
    /\ stream' = [stream EXCEPT ![c] = "waiting"]
    /\ UNCHANGED <<acc, cur, acceptor, terminate, counts, threads, caller, late>>

PeerCloses(c) ==
    /\ stream[c] = "open"
    /\ stream' = [stream EXCEPT ![c] = "shut"]
    /\ UNCHANGED <<acc, cur, acceptor, terminate, counts, threads, caller, late>>

----------------------------------------------------------------------------

Next ==
    \/ AcceptThread
    \/ \E c \in Conn : RxThread(c) \/ PeerConnects(c) \/ PeerCloses(c)
    \/ \E p \in Caller : Terminate(p) \/ Look(p) \/ CloseAccept(p)

Spec == Init /\ [][Next]_vars

\* Each thread goes on when it can, and a remote net that is connected sends its
\* identifier.
FairSpec ==
    /\ Spec
    /\ WF_vars(AcceptThread)
    /\ \A c \in Conn : WF_vars(RxThread(c))

----------------------------------------------------------------------------
(* What must hold *)

\* terminate "causes all future connections to be rejected" (listener.rs:52-53):
\* after the first call has returned at most one more connection is served, the
\* one that had been accepted already, though the calls read the acceptor apart
\* from setting the flag and the thread publishes it apart from reading the flag.
StopsAccepting == late <= 1

\* The negotiated count "may be lower than getclientcount()" (listener.rs:100-101)
\* but is higher only as long as the last connection is to be counted: its
\* receiving thread waits for the lock.
NegotiatedAreClients == negcount <= clientcount + (IF acc = "count" THEN 1 ELSE 0)

\* A connection that comes is negotiated, unless terminate is called or the remote
\* side closes (listener.rs:116-143).
Negotiates ==
    \A c \in Conn :
        stream[c] = "waiting" ~>
            rx[c] = "read" \/ terminate \/ stream[c] = "shut"
=============================================================================

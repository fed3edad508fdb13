------------------------------- MODULE WebSocket -------------------------------
(***************************************************************************)
(* WebSocketTransport: its state and its stream, which connect and         *)
(* disconnect set apart, before and after an await.  A method holds        *)
(* &mut self, so one runs at a time; its task may drop it at the await.    *)
(* The peer may close the connection at any time, which only send and      *)
(* receive notice, and they do not change the state.  The timeouts and     *)
(* retries of TransportConfig are not used, nor is the state Reconnecting. *)
(***************************************************************************)

VARIABLES
  transport,  \* state: "Disconnected", "Connecting" or "Connected"
  stream,     \* "none", "open", or "broken": closed by the peer
  method,     \* the method that waits: "none", "connect", "disconnect" or "receive"
  \* History, to state the property:
  lastCut     \* the last connect or disconnect was dropped or failed

socketVars == <<transport, stream, method, lastCut>>

SocketInit == /\ transport = "Disconnected" /\ stream = "none" /\ method = "none"
              /\ lastCut = FALSE

Connect == /\ method = "none" /\ method' = "connect" /\ transport' = "Connecting"
           /\ UNCHANGED <<stream, lastCut>>

\* The stream of an earlier connection is dropped here, not before.
Connects == /\ method = "connect" /\ method' = "none"
            /\ stream' = "open" /\ transport' = "Connected" /\ lastCut' = FALSE

ConnectCut == /\ method = "connect" /\ method' = "none" /\ lastCut' = TRUE
              /\ UNCHANGED <<transport, stream>>

\* Mutant: the stream is closed but stays where it is.
DisconnectKeeps ==
  /\ method = "none" /\ UNCHANGED stream
  /\ IF stream = "none"
     THEN transport' = "Disconnected" /\ lastCut' = FALSE /\ UNCHANGED method
     ELSE method' = "disconnect" /\ UNCHANGED <<transport, lastCut>>

\* disconnect takes the stream, if there is one, and closes it.
Disconnect ==
  /\ method = "none" /\ stream' = "none"
  /\ IF stream = "none"
     THEN transport' = "Disconnected" /\ lastCut' = FALSE /\ UNCHANGED method
     ELSE method' = "disconnect" /\ UNCHANGED <<transport, lastCut>>

Closes == /\ method = "disconnect" /\ method' = "none"
          /\ transport' = "Disconnected" /\ lastCut' = FALSE /\ UNCHANGED stream

\* The close fails or the future is dropped: the stream is gone, the state stays.
CloseCut == /\ method = "disconnect" /\ method' = "none" /\ lastCut' = TRUE
            /\ UNCHANGED <<transport, stream>>

Receive == /\ method = "none" /\ stream # "none" /\ method' = "receive"
           /\ UNCHANGED <<transport, stream, lastCut>>
\* A message, an error, the end of the stream, or the future is dropped.
ReceiveEnds == method = "receive" /\ method' = "none" /\ UNCHANGED <<transport, stream, lastCut>>

\* External: the peer closes the connection.
PeerCloses == stream = "open" /\ stream' = "broken" /\ UNCHANGED <<transport, method, lastCut>>

SocketNext == \/ Connect \/ Connects \/ ConnectCut \/ Disconnect \/ Closes \/ CloseCut
              \/ Receive \/ ReceiveEnds \/ PeerCloses

SocketSpec == SocketInit /\ [][SocketNext]_socketVars

-------------------------------------------------------------------------------
(* Property *)

\* What state and stream have to do with each other while no method runs: they
\* agree, except that a connect or disconnect that was cut short leaves one behind
\* the other - a transport that calls itself connected without a stream, or that
\* is connecting for ever and may still have the old one - until one completes.
StateMatchesStream ==
  /\ method \in {"none", "receive"} /\ ~ lastCut =>
       /\ transport # "Connecting"
       /\ transport = "Connected" <=> stream # "none"
  /\ transport = "Disconnected" => stream = "none"
================================================================================

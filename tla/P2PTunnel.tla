-------------------------------- MODULE P2PTunnel -------------------------------
(***************************************************************************)
(* The stream multiplexer of a P2P tunnel (cmd/p2p/tunnel.go), both ends   *)
(* of it, over a reliable consentConn: DoHTTPRequest calls at either end,  *)
(* the two readLoops, the handler goroutines that proxy incoming streams   *)
(* to the local target, and the loss of the tunnel at any moment.          *)
(*                                                                         *)
(* The connection is the RecordPipe that Consent implements, with the one  *)
(* thing a caller notices of its acknowledgements: a write returns only    *)
(* after the peer's reader took the frame and the writer's own reader read *)
(* the acknowledgement.  A target answers requests and nothing else.       *)
(***************************************************************************)
EXTENDS Integers, Sequences, FiniteSets

CONSTANTS
  Ends,         \* the two tunnel endpoints
  Controlling,  \* the end with the controlling ICE role
  Calls,        \* DoHTTPRequest calls
  Handlers,     \* incoming streams; bounds how many are created
  ReqFrames,    \* frames a request is fragmented into
  RespFrames,   \* frames a target answers a request with
  Losable,      \* whether the tunnel may be closed or lost
  None

Streams == Calls \cup Handlers
Ids == 1..(2 * Cardinality(Calls))
Bodies == Streams \X Nat        \* payload of a data frame: its author and its index
Frames == [type : {"data", "close"}, id : Ids, body : Bodies \cup {None}]
Peer(e) == CHOOSE f \in Ends : f # e

ASSUME TunnelAssumption ==
  /\ IsFiniteSet(Ends) /\ Cardinality(Ends) = 2 /\ Controlling \in Ends
  /\ IsFiniteSet(Calls) /\ Calls \cap Handlers = {}
  /\ ReqFrames \in Nat \ {0} /\ RespFrames \in Nat
  /\ Losable \in BOOLEAN
  /\ None \notin Ends \cup Streams

VARIABLES
  tclosed,  \* the tunnel end was closed
  nextID,   \* last stream ID handed out at each end
  streams,  \* streams map of each end: ID -> open stream
  at,       \* end at which a stream lives
  sid,      \* ID of a stream
  sclosed,  \* closed flag of a stream
  readBuf,  \* frames received by a stream and not yet read
  pc,       \* goroutine of each call and main goroutine of each handler
  out,      \* target -> P2P copier of each handler
  sent,     \* frames a call or a handler's copier has written
  target,   \* what a handler has written to its local target
  writer,   \* holder of the tunnel's writeMu, waiting for its acknowledgement
  wire,     \* frame of each end the peer has not read yet
  ack,      \* acknowledgement each end has not read yet
  reading,  \* frame the readLoop is dispatching
  buf       \* payload bytes in the buffer the readLoop reuses

streamVars == <<at, sid, sclosed, readBuf>>
taskVars == <<pc, out, sent, target>>
linkVars == <<writer, wire, ack>>
readerVars == <<reading, buf>>
vars == <<tclosed, nextID, streams, streamVars, taskVars, linkVars, readerVars>>

CallStages == {"idle", "opening", "write", "sending", "await"}
HandlerStages == {"free", "dial", "initial", "copy"}
CloseStages == {"close", "closeSend", "closeWait", "done"}

TypeOK ==
  /\ tclosed \in [Ends -> BOOLEAN]
  /\ nextID \in [Ends -> Int]
  /\ streams \in [Ends -> [Ids -> Streams \cup {None}]]
  /\ at \in [Streams -> Ends \cup {None}]
  /\ sid \in [Streams -> Ids \cup {0}]
  /\ sclosed \in [Streams -> BOOLEAN]
  /\ \A s \in Streams : \A i \in 1..Len(readBuf[s]) : readBuf[s][i] \in Bodies
  /\ \A c \in Calls : pc[c] \in CallStages \cup CloseStages
  /\ \A h \in Handlers : pc[h] \in HandlerStages \cup CloseStages
  /\ out \in [Handlers -> {"idle", "ready", "sending"}]
  /\ sent \in [Streams -> Nat]
  /\ \A h \in Handlers : \A i \in 1..Len(target[h]) : target[h][i] \in Bodies
  /\ writer \in [Ends -> (Streams \X {"main", "out"}) \cup {None}]
  /\ wire \in [Ends -> Frames \cup {None}]
  /\ ack \in [Ends -> BOOLEAN]
  /\ reading \in [Ends -> Frames \cup {None}]
  /\ buf \in [Ends -> Bodies \cup {None}]

\* Both ends hand out the same stream IDs.
MutantFirstID(e) == 0

\* NewP2PTunnelWithRole: the controlling end opens 2, 4, ..., the other 1, 3, ...
\* (^uint32(0) + 2 = 1).
FirstID(e) == IF e = Controlling THEN 0 ELSE -1

Init ==
  /\ tclosed = [e \in Ends |-> FALSE]
  /\ nextID = [e \in Ends |-> FirstID(e)]
  /\ streams = [e \in Ends |-> [i \in Ids |-> None]]
  /\ at = [s \in Streams |-> None]
  /\ sid = [s \in Streams |-> 0]
  /\ sclosed = [s \in Streams |-> FALSE]
  /\ readBuf = [s \in Streams |-> << >>]
  /\ pc = [s \in Streams |-> IF s \in Calls THEN "idle" ELSE "free"]
  /\ out = [h \in Handlers |-> "idle"]
  /\ sent = [s \in Streams |-> 0]
  /\ target = [h \in Handlers |-> << >>]
  /\ writer = [e \in Ends |-> None]
  /\ wire = [e \in Ends |-> None]
  /\ ack = [e \in Ends |-> FALSE]
  /\ reading = [e \in Ends |-> None]
  /\ buf = [e \in Ends |-> None]

--------------------------------------------------------------------------------
(* The connection below the tunnel.                                        *)

\* writeFrame: take writeMu and hand the frame to the connection.
WriteFrame(s, role, type, body) ==
  /\ ~tclosed[at[s]]
  /\ writer[at[s]] = None
  /\ writer' = [writer EXCEPT ![at[s]] = <<s, role>>]
  /\ wire' = [wire EXCEPT ![at[s]] = [type |-> type, id |-> sid[s], body |-> body]]
  /\ UNCHANGED ack

\* The frame of s was acknowledged, or the tunnel was closed under it.
Written(s, role) == writer[at[s]] # <<s, role>>

\* The reader is between two frames.
ReaderIdle(e) == ~tclosed[e] /\ reading[e] = None

\* conn.Read returns a frame of the peer, which is acknowledged by the read.
\* A close frame has no payload and leaves the payload bytes of buf alone.
ReadFrame(e) ==
  LET f == wire[Peer(e)] IN
  /\ ReaderIdle(e)
  /\ f # None
  /\ reading' = [reading EXCEPT ![e] = f]
  /\ buf' = [buf EXCEPT ![e] = IF f.type = "data" THEN f.body ELSE @]
  /\ wire' = [wire EXCEPT ![Peer(e)] = None]
  /\ ack' = [ack EXCEPT ![Peer(e)] = TRUE]
  /\ UNCHANGED <<tclosed, nextID, streams, streamVars, taskVars, writer>>

\* conn.Read consumes the acknowledgement of the frame being written.
ReadAck(e) ==
  /\ ReaderIdle(e)
  /\ ack[e]
  /\ ack' = [ack EXCEPT ![e] = FALSE]
  /\ writer' = [writer EXCEPT ![e] = None]
  /\ UNCHANGED <<tclosed, nextID, streams, streamVars, taskVars, wire, readerVars>>

\* Close leaves the streams of the map to their users.
MutantCloseTunnelOnly(e) ==
  /\ Losable
  /\ ~tclosed[e]
  /\ tclosed' = [tclosed EXCEPT ![e] = TRUE]
  /\ writer' = [writer EXCEPT ![e] = None]
  /\ UNCHANGED <<nextID, streams, streamVars, taskVars, wire, ack, readerVars>>

\* The streams of end e that nobody closes yet.
OpenStreams(e) == {s \in Streams : ~sclosed[s] /\ \E i \in Ids : streams[e][i] = s}

\* Close: by its owner, by the readLoop on a read error, or because the
\* consent layer gave up on a peer that is gone.  The open streams of the map
\* are closed and released; nothing more is written or read, but a frame that
\* was read before is still dispatched.
CloseTunnel(e) ==
  /\ Losable
  /\ ~tclosed[e]
  /\ tclosed' = [tclosed EXCEPT ![e] = TRUE]
  /\ sclosed' = [s \in Streams |-> sclosed[s] \/ s \in OpenStreams(e)]
  /\ streams' = [streams EXCEPT ![e] = [i \in Ids |-> IF @[i] \in OpenStreams(e) THEN None ELSE @[i]]]
  /\ writer' = [writer EXCEPT ![e] = None]
  /\ UNCHANGED <<nextID, at, sid, readBuf, taskVars, wire, ack, readerVars>>

--------------------------------------------------------------------------------
(* readLoop: what it does with a frame.                                    *)

Dispatched(e) ==
  /\ reading[e] # None
  /\ reading' = [reading EXCEPT ![e] = None]
  /\ UNCHANGED <<tclosed, nextID, out, sent, target, linkVars, buf>>

Receiver(e) == streams[e][reading[e].id]

\* Data for an ID that is not in the map starts a handler.
DispatchNew(e, h) ==
  /\ Dispatched(e)
  /\ reading[e].type = "data" /\ Receiver(e) = None
  /\ pc[h] = "free"
  /\ streams' = [streams EXCEPT ![e][reading[e].id] = h]
  /\ at' = [at EXCEPT ![h] = e]
  /\ sid' = [sid EXCEPT ![h] = reading[e].id]
  /\ pc' = [pc EXCEPT ![h] = "dial"]
  /\ UNCHANGED <<sclosed, readBuf>>

DispatchData(e) ==
  /\ Dispatched(e)
  /\ reading[e].type = "data" /\ Receiver(e) # None
  /\ readBuf' = [readBuf EXCEPT ![Receiver(e)] = Append(@, reading[e].body)]
  /\ UNCHANGED <<streams, at, sid, sclosed, pc>>

\* The reader answers the close with a close frame and waits for its
\* acknowledgement.
MutantReplyToClose(e) ==
  /\ reading[e] # None
  /\ reading[e].type = "close"
  /\ IF Receiver(e) # None /\ ~sclosed[Receiver(e)]
     THEN /\ writer[e] = None
          /\ writer' = [writer EXCEPT ![e] = <<Receiver(e), "main">>]
          /\ wire' = [wire EXCEPT ![e] = [type |-> "close", id |-> reading[e].id, body |-> None]]
          /\ sclosed' = [sclosed EXCEPT ![Receiver(e)] = TRUE]
          /\ streams' = [streams EXCEPT ![e][reading[e].id] = None]
          /\ UNCHANGED reading
     ELSE /\ writer[e] = None
          /\ reading' = [reading EXCEPT ![e] = None]
          /\ UNCHANGED <<writer, wire, sclosed, streams>>
  /\ UNCHANGED <<tclosed, nextID, at, sid, readBuf, taskVars, ack, buf>>

\* closeLocal marks the stream without releasing it.
MutantCloseUnreleased(e) ==
  /\ Dispatched(e)
  /\ reading[e].type = "close"
  /\ sclosed' = [s \in Streams |-> sclosed[s] \/ s = Receiver(e)]
  /\ UNCHANGED <<streams, at, sid, readBuf, pc>>

\* closeLocal: no answer; a stream that is closing itself is left alone.
DispatchClose(e) ==
  /\ Dispatched(e)
  /\ reading[e].type = "close"
  /\ IF Receiver(e) # None /\ ~sclosed[Receiver(e)]
     THEN /\ sclosed' = [sclosed EXCEPT ![Receiver(e)] = TRUE]
          /\ streams' = [streams EXCEPT ![e][reading[e].id] = None]
     ELSE UNCHANGED <<sclosed, streams>>
  /\ UNCHANGED <<at, sid, readBuf, pc>>

--------------------------------------------------------------------------------
(* P2PStream.Close, by the goroutine that owns the stream.                 *)

Goto(s, stage) == pc' = [pc EXCEPT ![s] = stage]

\* The first closer sends a close frame; a closed tunnel takes none.
CloseBegin(s) ==
  /\ pc[s] = "close"
  /\ sclosed' = [sclosed EXCEPT ![s] = TRUE]
  /\ Goto(s, IF sclosed[s] THEN "done" ELSE "closeSend")
  /\ UNCHANGED <<tclosed, nextID, streams, at, sid, readBuf, out, sent, target, linkVars,
                 readerVars>>

CloseSend(s) ==
  /\ pc[s] = "closeSend"
  /\ IF tclosed[at[s]]
     THEN UNCHANGED linkVars
     ELSE WriteFrame(s, "main", "close", None)
  /\ Goto(s, "closeWait")
  /\ UNCHANGED <<tclosed, nextID, streams, streamVars, out, sent, target, readerVars>>

\* release: the entry is removed after the close frame was acknowledged.
CloseRelease(s) ==
  /\ pc[s] = "closeWait"
  /\ Written(s, "main")
  /\ streams' = [streams EXCEPT ![at[s]][sid[s]] = None]
  /\ Goto(s, "done")
  /\ UNCHANGED <<tclosed, nextID, streamVars, out, sent, target, linkVars, readerVars>>

--------------------------------------------------------------------------------
(* DoHTTPRequest.                                                          *)

\* OpenStream checks the tunnel ...
CallStart(c, e) ==
  /\ pc[c] = "idle"
  /\ ~tclosed[e]
  /\ at' = [at EXCEPT ![c] = e]
  /\ Goto(c, "opening")
  /\ UNCHANGED <<tclosed, nextID, streams, sid, sclosed, readBuf, out, sent, target, linkVars,
                 readerVars>>

\* ... and puts the stream in the map, perhaps of a tunnel closed meanwhile.
CallOpen(c) ==
  LET id == nextID[at[c]] + 2 IN
  /\ pc[c] = "opening"
  /\ nextID' = [nextID EXCEPT ![at[c]] = id]
  /\ sid' = [sid EXCEPT ![c] = id]
  /\ streams' = [streams EXCEPT ![at[c]][id] = c]
  /\ Goto(c, "write")
  /\ UNCHANGED <<tclosed, at, sclosed, readBuf, out, sent, target, linkVars, readerVars>>

\* Write checks the closed flag once, before its first fragment.
CallWrite(c) ==
  /\ pc[c] = "write"
  /\ ~(sclosed[c] /\ sent[c] = 0)
  /\ WriteFrame(c, "main", "data", <<c, sent[c] + 1>>)
  /\ Goto(c, "sending")
  /\ UNCHANGED <<tclosed, nextID, streams, streamVars, out, sent, target, readerVars>>

CallWriteFails(c) ==
  /\ pc[c] = "write"
  /\ (sclosed[c] /\ sent[c] = 0) \/ tclosed[at[c]]
  /\ Goto(c, "close")
  /\ UNCHANGED <<tclosed, nextID, streams, streamVars, out, sent, target, linkVars,
                 readerVars>>

CallWritten(c) ==
  /\ pc[c] = "sending"
  /\ Written(c, "main")
  /\ sent' = [sent EXCEPT ![c] = @ + 1]
  /\ Goto(c, IF sent[c] + 1 = ReqFrames THEN "await" ELSE "write")
  /\ UNCHANGED <<tclosed, nextID, streams, streamVars, out, target, linkVars, readerVars>>

\* ReadResponse returns after the first frame of the response or at the end
\* of the stream; the deferred Close follows, whatever is left of the body.
CallRead(c) ==
  /\ pc[c] = "await"
  /\ readBuf[c] # << >> \/ sclosed[c]
  /\ readBuf' = [readBuf EXCEPT ![c] = IF @ = << >> THEN @ ELSE Tail(@)]
  /\ Goto(c, "close")
  /\ UNCHANGED <<tclosed, nextID, streams, at, sid, sclosed, out, sent, target, linkVars,
                 readerVars>>

--------------------------------------------------------------------------------
(* handleIncomingStream.                                                   *)

\* Without a local target, or when it does not answer, the stream is closed.
HandlerDial(h, ok) ==
  /\ pc[h] = "dial"
  /\ Goto(h, IF ok THEN "initial" ELSE "close")
  /\ UNCHANGED <<tclosed, nextID, streams, streamVars, out, sent, target, linkVars,
                 readerVars>>

\* initialData is a slice of the readLoop's buffer: what is written is what
\* the buffer holds by now.
HandlerInitial(h) ==
  /\ pc[h] = "initial"
  /\ target' = [target EXCEPT ![h] = Append(@, buf[at[h]])]
  /\ Goto(h, "copy")
  /\ UNCHANGED <<tclosed, nextID, streams, streamVars, out, sent, linkVars, readerVars>>

\* P2P -> target, until the stream is closed and drained.
HandlerCopyIn(h) ==
  /\ pc[h] = "copy"
  /\ IF readBuf[h] # << >>
     THEN /\ target' = [target EXCEPT ![h] = Append(@, Head(readBuf[h]))]
          /\ readBuf' = [readBuf EXCEPT ![h] = Tail(@)]
          /\ UNCHANGED pc
     ELSE /\ sclosed[h]
          /\ Goto(h, "close")
          /\ UNCHANGED <<target, readBuf>>
  /\ UNCHANGED <<tclosed, nextID, streams, at, sid, sclosed, out, sent, linkVars, readerVars>>

\* Target -> P2P: the target answers a request; Write checks the closed flag ...
HandlerReply(h) ==
  /\ pc[h] = "copy" /\ out[h] = "idle"
  /\ sent[h] < RespFrames
  /\ target[h][1][1] \in Calls
  /\ ~sclosed[h]
  /\ out' = [out EXCEPT ![h] = "ready"]
  /\ UNCHANGED <<tclosed, nextID, streams, streamVars, pc, sent, target, linkVars, readerVars>>

\* ... and then waits for writeMu, while the stream may be closed.
HandlerReplySend(h) ==
  /\ out[h] = "ready"
  /\ IF tclosed[at[h]]
     THEN UNCHANGED linkVars
     ELSE WriteFrame(h, "out", "data", <<h, sent[h] + 1>>)
  /\ out' = [out EXCEPT ![h] = "sending"]
  /\ UNCHANGED <<tclosed, nextID, streams, streamVars, pc, sent, target, readerVars>>

HandlerReplied(h) ==
  /\ out[h] = "sending"
  /\ Written(h, "out")
  /\ sent' = [sent EXCEPT ![h] = @ + 1]
  /\ out' = [out EXCEPT ![h] = "idle"]
  /\ UNCHANGED <<tclosed, nextID, streams, streamVars, pc, target, linkVars, readerVars>>

\* The target connection has no read deadline and never hangs up.
MutantNoDeadline(h) == FALSE /\ UNCHANGED vars

\* The target hangs up or the read deadline passes.
HandlerTargetEnds(h) ==
  /\ pc[h] = "copy" /\ out[h] = "idle"
  /\ Goto(h, "close")
  /\ UNCHANGED <<tclosed, nextID, streams, streamVars, out, sent, target, linkVars,
                 readerVars>>

--------------------------------------------------------------------------------
CloseStep(s) == CloseBegin(s) \/ CloseSend(s) \/ CloseRelease(s)

CallStep(c) ==
  \/ CallOpen(c) \/ CallWrite(c) \/ CallWriteFails(c) \/ CallWritten(c) \/ CallRead(c)
  \/ CloseStep(c)

CopierStep(h) == HandlerReplySend(h) \/ HandlerReplied(h)

HandlerStep(h) ==
  \/ \E ok \in BOOLEAN : HandlerDial(h, ok)
  \/ HandlerInitial(h) \/ HandlerCopyIn(h) \/ HandlerTargetEnds(h) \/ CloseStep(h)

Dispatch(e) == DispatchData(e) \/ DispatchClose(e) \/ \E h \in Handlers : DispatchNew(e, h)

ReaderStep(e) == ReadFrame(e) \/ ReadAck(e) \/ Dispatch(e)

Next ==
  \/ \E c \in Calls, e \in Ends : CallStart(c, e)
  \/ \E c \in Calls : CallStep(c)
  \/ \E h \in Handlers : HandlerStep(h) \/ HandlerReply(h) \/ CopierStep(h)
  \/ \E e \in Ends : ReaderStep(e) \/ CloseTunnel(e)

Spec == Init /\ [][Next]_vars

--------------------------------------------------------------------------------
(* Properties.                                                             *)

\* What a DoHTTPRequest call reads was written by the peer's handler of its
\* own stream: the stream IDs of the two ends never meet, so neither a request
\* of the peer nor the answer to another request is taken for its response.
ResponsesMatchRequests ==
  \A c \in Calls : \A i \in 1..Len(readBuf[c]) :
    LET author == readBuf[c][i][1] IN
      author \in Handlers /\ sid[author] = sid[c] /\ at[author] = Peer(at[c])

\* An open stream is found under its ID at its end, and a closed one is out of
\* the map as soon as nobody is closing it: release never removes another
\* stream's entry and no entry is left behind.
StreamsMapExact ==
  \A s \in Streams : at[s] # None /\ sid[s] # 0 /\ ~tclosed[at[s]] =>
    (streams[at[s]][sid[s]] = s <=> ~sclosed[s] \/ pc[s] \in {"closeSend", "closeWait"})

\* The reader, the handlers, the copiers and the calls are scheduled; a dial
\* and a read from a target end in time (DialTimeout, SetReadDeadline); the
\* socket delivers both frames and acknowledgements; and the consent layer
\* gives a dead peer up.
Fairness ==
  /\ \A e \in Ends : /\ WF_vars(ReadFrame(e)) /\ WF_vars(ReadAck(e)) /\ WF_vars(Dispatch(e))
                    /\ WF_vars(tclosed[Peer(e)] /\ CloseTunnel(e))
  /\ \A c \in Calls : SF_vars(CallStep(c))
  /\ \A h \in Handlers : SF_vars(HandlerStep(h)) /\ SF_vars(CopierStep(h))

FairSpec == Spec /\ Fairness

\* A frame handed to the connection is acknowledged or the tunnel is closed:
\* the two readers never end up waiting for each other or for themselves, since
\* a remote close is not answered from the readLoop.
WritesComplete == \A e \in Ends : (writer[e] # None) ~> (writer[e] = None)

\* Every DoHTTPRequest returns, also when the tunnel is closed while it opens
\* its stream, writes or waits for the response.
RequestsReturn == \A c \in Calls : (pc[c] # "idle") ~> (pc[c] = "done")

\* Every incoming stream is served and ended: its handler does not outlive the
\* stream, the target or the tunnel.
HandlersEnd == \A h \in Handlers : (pc[h] # "free") ~> (pc[h] = "done")

--------------------------------------------------------------------------------
(* A statement of the repository that the code does not keep.              *)

\* cmd/p2p/tunnel.go: "Write initial data to target".  What a handler writes to
\* its target came in on the handler's own stream.  Not a property of any
\* configuration here: the reader's buffer is reused (see README).
InitialDataIsOwn ==
  \A h \in Handlers : \A i \in 1..Len(target[h]) : sid[target[h][i][1]] = sid[h]

================================================================================

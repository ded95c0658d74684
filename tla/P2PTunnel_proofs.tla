---------------------------- MODULE P2PTunnel_proofs ----------------------------
(***************************************************************************)
(* Proofs about P2PTunnel for any set of calls, any supply of handlers and *)
(* any number of frames, whether or not the tunnel may be lost: the        *)
(* streams map of each end is exact, and what a call reads was written by  *)
(* the handler of its own stream at the other end.                         *)
(***************************************************************************)
EXTENDS P2PTunnel, SequenceTheorems, FiniteSetTheorems, TLAPS

\* A stream that OpenStream or the readLoop has not numbered yet, and ...
Unplaced(s) == pc[s] \in {"idle", "opening", "free"}

\* ... one whose Close is under way: it keeps its entry until release.
Closing(s) == pc[s] \in {"closeSend", "closeWait"}

\* What a goroutine does between the two.
Working(s) == pc[s] \in {"write", "sending", "await", "dial", "initial", "copy", "close"}

\* The types of the streams and of the maps that lead to them ...
StreamTypes ==
  /\ streams \in [Ends -> [Ids -> Streams \cup {None}]]
  /\ at \in [Streams -> Ends \cup {None}]
  /\ sid \in [Streams -> Ids \cup {0}]
  /\ sclosed \in [Streams -> BOOLEAN]
  /\ nextID \in [Ends -> Int]
  /\ tclosed \in [Ends -> BOOLEAN]

\* ... of the goroutines ...
TaskTypes ==
  /\ pc \in [Streams -> CallStages \cup HandlerStages \cup CloseStages]
  /\ \A c \in Calls : pc[c] \in CallStages \cup CloseStages
  /\ \A h \in Handlers : pc[h] \in HandlerStages \cup CloseStages
  /\ out \in [Handlers -> {"idle", "ready", "sending"}]
  /\ sent \in [Streams -> Nat]

\* ... and of the connection.
LinkTypes ==
  /\ writer \in [Ends -> (Streams \X {"main", "out"}) \cup {None}]
  /\ wire \in [Ends -> Frames \cup {None}]
  /\ ack \in [Ends -> BOOLEAN]
  /\ reading \in [Ends -> Frames \cup {None}]
  /\ buf \in [Ends -> Bodies \cup {None}]

\* The payloads that wait in a stream and those a target was given.
PayloadTypes ==
  /\ readBuf \in [Streams -> Seq(Bodies)]
  /\ target \in [Handlers -> Seq(Bodies)]

\* A stream has an end and an ID from the moment it is opened.
StagesPlaced ==
  /\ \A s \in Streams : at[s] = None <=> pc[s] \in {"idle", "free"}
  /\ \A s \in Streams : sid[s] = 0 <=> Unplaced(s)
  /\ \A h \in Handlers : pc[h] = "free" => out[h] = "idle"

\* The map of an end files streams of that end under their own ID.
EntriesOwn ==
  \A e \in Ends, i \in Ids : streams[e][i] # None =>
    at[streams[e][i]] = e /\ sid[streams[e][i]] = i

\* A stream is in the map until it is closed, and while it is closing.
MapExact ==
  /\ \A s \in Streams : sid[s] # 0 =>
       (streams[at[s]][sid[s]] = s <=> ~sclosed[s] \/ Closing(s))
  /\ \A s \in Streams : Closing(s) => sclosed[s]
  /\ \A s \in Streams : Unplaced(s) => ~sclosed[s]

\* The controlling end opens even IDs, the other one odd IDs.
OwnParity(e, i) == i % 2 = IF e = Controlling THEN 0 ELSE 1

\* The calls that have a stream at end e.
OpenedAt(e) == {c \in Calls : at[c] = e /\ sid[c] # 0}

\* The ID was handed out by OpenStream, at one end or the other.
Issued(i) == i # 0 /\ \E c \in Calls : sid[c] = i

\* nextID moves by two with each call, so the IDs of the two ends never meet, and
\* every stream, incoming ones too, has an ID that some call was given.
IdsIssued ==
  /\ \A e \in Ends : nextID[e] = FirstID(e) + 2 * Cardinality(OpenedAt(e))
  /\ \A c \in Calls : sid[c] # 0 => OwnParity(at[c], sid[c]) /\ sid[c] <= nextID[at[c]]
  /\ \A h \in Handlers : sid[h] # 0 => Issued(sid[h])

\* A frame that end e wrote: it has the ID of a stream, and the payload of a data
\* frame was written by a stream of e with that ID.
FrameOf(e, f) ==
  /\ Issued(f.id)
  /\ f.type = "data" =>
       f.body \in Bodies /\ at[f.body[1]] = e /\ sid[f.body[1]] = f.id

\* Frames keep their author and ID on the wire and in the reader.
FramesOwn ==
  \A e \in Ends : /\ wire[e] # None => FrameOf(e, wire[e])
                  /\ reading[e] # None => FrameOf(Peer(e), reading[e])

\* A payload that waits in a stream was written by the stream of the same ID at
\* the other end.
FromPeer(s, b) ==
  /\ at[s] # None /\ sid[s] # 0
  /\ at[b[1]] = Peer(at[s]) /\ sid[b[1]] = sid[s]

\* So does every payload in a stream's queue.
BuffersOwn == \A s \in Streams : \A i \in 1..Len(readBuf[s]) : FromPeer(s, readBuf[s][i])

\* The readLoop's buffer holds a payload when a data frame is dispatched and from
\* then on.
BufferFilled ==
  /\ \A e \in Ends : reading[e] # None /\ reading[e].type = "data" => buf[e] \in Bodies
  /\ \A h \in Handlers : at[h] # None => buf[at[h]] \in Bodies

\* The inductive invariant.
TunnelInv ==
  /\ StreamTypes
  /\ TaskTypes
  /\ LinkTypes
  /\ PayloadTypes
  /\ StagesPlaced
  /\ EntriesOwn
  /\ MapExact
  /\ IdsIssued
  /\ FramesOwn
  /\ BuffersOwn
  /\ BufferFilled

--------------------------------------------------------------------------------
(* The two ends and the case split.                                        *)

\* Each end has one peer, whose peer it is.
LEMMA PeerOther ==
  \A e \in Ends : Peer(e) \in Ends /\ Peer(e) # e /\ \A f \in Ends : f # e => f = Peer(e)
<1> SUFFICES ASSUME NEW e \in Ends
             PROVE  Peer(e) \in Ends /\ Peer(e) # e /\ \A f \in Ends : f # e => f = Peer(e)
  OBVIOUS
<1>1. IsFiniteSet(Ends \ {e}) /\ Cardinality(Ends \ {e}) = 1
  BY TunnelAssumption, FS_RemoveElement
<1>2. PICK p : Ends \ {e} = {p}
  BY <1>1, FS_Singleton
<1>3. \E f \in Ends : f # e
  BY <1>2
<1>4. Peer(e) \in Ends /\ Peer(e) # e
  BY <1>3 DEF Peer
<1> QED BY <1>2, <1>4

\* Case split over the next-state relation, one case per action.
LEMMA NextCases ==
  ASSUME [Next]_vars
  PROVE  \/ \E c \in Calls, e \in Ends : CallStart(c, e)
         \/ \E c \in Calls : CallOpen(c)
         \/ \E c \in Calls : CallWrite(c)
         \/ \E c \in Calls : CallWriteFails(c)
         \/ \E c \in Calls : CallWritten(c)
         \/ \E c \in Calls : CallRead(c)
         \/ \E h \in Handlers, ok \in BOOLEAN : HandlerDial(h, ok)
         \/ \E h \in Handlers : HandlerInitial(h)
         \/ \E h \in Handlers : HandlerCopyIn(h)
         \/ \E h \in Handlers : HandlerReply(h)
         \/ \E h \in Handlers : HandlerReplySend(h)
         \/ \E h \in Handlers : HandlerReplied(h)
         \/ \E h \in Handlers : HandlerTargetEnds(h)
         \/ \E s \in Streams : CloseBegin(s)
         \/ \E s \in Streams : CloseSend(s)
         \/ \E s \in Streams : CloseRelease(s)
         \/ \E e \in Ends : ReadFrame(e)
         \/ \E e \in Ends : ReadAck(e)
         \/ \E e \in Ends, h \in Handlers : DispatchNew(e, h)
         \/ \E e \in Ends : DispatchData(e)
         \/ \E e \in Ends : DispatchClose(e)
         \/ \E e \in Ends : CloseTunnel(e)
         \/ UNCHANGED vars
<1>1. CASE \E c \in Calls : CallStep(c)
  BY <1>1 DEF CallStep, CloseStep, Streams
<1>2. CASE \E h \in Handlers : HandlerStep(h) \/ HandlerReply(h) \/ CopierStep(h)
  BY <1>2 DEF HandlerStep, CopierStep, CloseStep, Streams
<1>3. CASE \E e \in Ends : ReaderStep(e)
  BY <1>3 DEF ReaderStep, Dispatch
<1> QED BY <1>1, <1>2, <1>3 DEF Next

\* A step that leaves the streams, their IDs and the maps alone.
MapSame ==
  /\ UNCHANGED <<streams, at, sid, sclosed, nextID>>
  /\ \A s \in Streams : \/ pc'[s] = pc[s]
                        \/ Working(s) /\ Working(s)'
                        \/ Closing(s) /\ Closing(s)'

\* The actions that do not, in seven groups.
LEMMA MapMoves ==
  ASSUME TaskTypes, [Next]_vars
  PROVE  \/ MapSame
         \/ \E c \in Calls, e \in Ends : CallStart(c, e)
         \/ \E c \in Calls : CallOpen(c)
         \/ \E s \in Streams : CloseBegin(s)
         \/ \E s \in Streams : CloseRelease(s)
         \/ \E e \in Ends, h \in Handlers : DispatchNew(e, h)
         \/ \E e \in Ends : DispatchClose(e)
         \/ \E e \in Ends : CloseTunnel(e)
<1> USE DEF TaskTypes, Goto, MapSame, Working, Closing, streamVars, taskVars, linkVars, readerVars
<1>1. ASSUME NEW c \in Calls,
             CallWrite(c) \/ CallWriteFails(c) \/ CallWritten(c) \/ CallRead(c)
      PROVE  MapSame
  BY <1>1 DEF CallWrite, CallWriteFails, CallWritten, CallRead, Streams
<1>2. ASSUME NEW h \in Handlers,
             (\E ok \in BOOLEAN : HandlerDial(h, ok)) \/ HandlerInitial(h) \/ HandlerCopyIn(h)
      PROVE  MapSame
  BY <1>2 DEF HandlerDial, HandlerInitial, HandlerCopyIn, Streams
<1>3. ASSUME NEW h \in Handlers,
             HandlerReply(h) \/ HandlerReplySend(h) \/ HandlerReplied(h) \/ HandlerTargetEnds(h)
      PROVE  MapSame
  BY <1>3 DEF HandlerReply, HandlerReplySend, HandlerReplied, HandlerTargetEnds, Streams
<1>4. ASSUME NEW s \in Streams, CloseSend(s) PROVE MapSame
  BY <1>4 DEF CloseSend
<1>5. ASSUME NEW e \in Ends, ReadFrame(e) \/ ReadAck(e) \/ DispatchData(e) PROVE MapSame
  BY <1>5 DEF ReadFrame, ReadAck, DispatchData, Dispatched
<1>6. ASSUME UNCHANGED vars PROVE MapSame
  BY <1>6 DEF vars
<1> HIDE DEF MapSame
<1> QED BY NextCases, <1>1, <1>2, <1>3, <1>4, <1>5, <1>6

--------------------------------------------------------------------------------
(* Types of the streams, their stages and the maps.                        *)

\* Nothing is open when the tunnel starts.
LEMMA TunnelInit == Init => TunnelInv
<1> SUFFICES ASSUME Init PROVE TunnelInv
  OBVIOUS
<1> USE TunnelAssumption DEF Init
<1>1. StreamTypes
  <2>1. \A e \in Ends : FirstID(e) \in Int
    BY DEF FirstID
  <2> QED BY <2>1 DEF StreamTypes
<1>2. TaskTypes
  BY DEF TaskTypes, CallStages, HandlerStages, CloseStages, Streams
<1>3. LinkTypes
  BY DEF LinkTypes
<1>4. PayloadTypes
  BY DEF PayloadTypes
<1>5. StagesPlaced /\ EntriesOwn
  BY DEF StagesPlaced, EntriesOwn, Unplaced, Streams
<1>6. MapExact
  BY DEF MapExact, Closing, Streams
<1>7. IdsIssued
  <2>1. \A e \in Ends : OpenedAt(e) = {}
    BY DEF OpenedAt, Streams
  <2>2. \A e \in Ends : nextID[e] = FirstID(e) /\ FirstID(e) \in Int
    BY DEF FirstID
  <2>3. \A e \in Ends : nextID[e] = FirstID(e) + 2 * Cardinality(OpenedAt(e))
    <3>1. \A e \in Ends : Cardinality(OpenedAt(e)) = 0
      BY <2>1, FS_EmptySet
    <3> HIDE DEF Init
    <3> QED BY <2>2, <3>1
  <2> QED BY <2>3 DEF IdsIssued, Streams
<1>8. FramesOwn /\ BuffersOwn /\ BufferFilled
  BY DEF FramesOwn, BuffersOwn, BufferFilled, Streams
<1> QED BY <1>1, <1>2, <1>3, <1>4, <1>5, <1>6, <1>7, <1>8 DEF TunnelInv

\* The ID OpenStream hands out is new, has the parity of its end and is one of
\* the bounded IDs: at most one per call.
LEMMA FreshID ==
  ASSUME TunnelInv, NEW c \in Calls, pc[c] = "opening"
  PROVE  LET id == nextID[at[c]] + 2 IN
         /\ at[c] \in Ends /\ id \in Ids /\ id # 0
         /\ OwnParity(at[c], id)
         /\ ~Issued(id)
         /\ nextID[at[c]] + 2 = FirstID(at[c]) + 2 * Cardinality(OpenedAt(at[c]) \cup {c})
<1> DEFINE e == at[c]
           id == nextID[e] + 2
           k == Cardinality(OpenedAt(e))
<1>1. e \in Ends /\ sid[c] = 0 /\ c \in Streams /\ nextID[e] \in Int
  BY DEF TunnelInv, StreamTypes, StagesPlaced, Unplaced, Streams
<1>2. OpenedAt(e) \in SUBSET (Calls \ {c}) /\ OpenedAt(e) \in SUBSET Calls
  BY <1>1 DEF OpenedAt
<1>3. IsFiniteSet(Calls \ {c}) /\ Cardinality(Calls \ {c}) = Cardinality(Calls) - 1
      /\ Cardinality(Calls) \in Nat
  BY TunnelAssumption, FS_RemoveElement, FS_CardinalityType
<1>4. IsFiniteSet(OpenedAt(e)) /\ k <= Cardinality(Calls) - 1 /\ k \in Nat
  BY <1>2, <1>3, FS_Subset, FS_CardinalityType
<1>5. nextID[e] = FirstID(e) + 2 * k
  BY <1>1 DEF TunnelInv, IdsIssued
<1>6. FirstID(e) = IF e = Controlling THEN 0 ELSE -1
  BY DEF FirstID
<1>7. id \in Int /\ 1 <= id /\ id <= 2 * Cardinality(Calls)
  BY <1>3, <1>4, <1>5, <1>6
<1>8. id \in Ids /\ id # 0
  BY <1>3, <1>7 DEF Ids
<1>9. OwnParity(e, id)
  BY <1>4, <1>5, <1>6 DEF OwnParity
<1>10. ~Issued(id)
  <2> SUFFICES ASSUME NEW d \in Calls, sid[d] = id PROVE FALSE
    BY DEF Issued
  <2>1. /\ OwnParity(at[d], id) /\ id <= nextID[at[d]] /\ d \in Streams
    BY <1>8 DEF TunnelInv, IdsIssued, Streams
  <2>2. at[d] \in Ends
    BY <1>8, <2>1 DEF TunnelInv, StreamTypes, StagesPlaced, Unplaced
  <2>3. CASE at[d] = e
    <3>1. id <= nextID[e]
      BY <2>1, <2>3
    <3> QED BY <1>1, <3>1
  <2>4. CASE at[d] # e
    <3>1. Controlling \in {e, at[d]}
      BY <1>1, <2>2, <2>4, PeerOther, TunnelAssumption
    <3> QED BY <1>9, <2>1, <2>4, <3>1 DEF OwnParity
  <2> QED BY <2>3, <2>4
<1>11. Cardinality(OpenedAt(e) \cup {c}) = k + 1
  BY <1>1, <1>4, FS_AddElement DEF OpenedAt
<1>12. nextID[e] + 2 = FirstID(e) + 2 * (k + 1)
  BY <1>4, <1>5, <1>6
<1> QED BY <1>1, <1>8, <1>9, <1>10, <1>11, <1>12

\* The streams, their numbers and the maps stay well typed.
LEMMA StreamTypesNext ==
  ASSUME TunnelInv, [Next]_vars
  PROVE  StreamTypes'
<1> USE DEF StreamTypes
<1>1. streams \in [Ends -> [Ids -> Streams \cup {None}]] /\ StreamTypes
  BY DEF TunnelInv
<1>2. tclosed' \in [Ends -> BOOLEAN]
  <2>1. ASSUME NEW e \in Ends, CloseTunnel(e) PROVE tclosed' \in [Ends -> BOOLEAN]
    BY <1>1, <2>1 DEF CloseTunnel
  <2>2. (\E e \in Ends : CloseTunnel(e)) \/ tclosed' = tclosed
    BY NextCases DEF CallStart, CallOpen, CallWrite, CallWriteFails, CallWritten, CallRead,
       HandlerDial, HandlerInitial, HandlerCopyIn, HandlerReply, HandlerReplySend,
       HandlerReplied, HandlerTargetEnds, CloseBegin, CloseSend, CloseRelease, ReadFrame,
       ReadAck, DispatchNew, DispatchData, DispatchClose, Dispatched, vars
  <2> QED BY <1>1, <2>1, <2>2
<1> DEFINE Goal == /\ streams' \in [Ends -> [Ids -> Streams \cup {None}]]
                   /\ at' \in [Streams -> Ends \cup {None}]
                   /\ sid' \in [Streams -> Ids \cup {0}]
                   /\ sclosed' \in [Streams -> BOOLEAN]
                   /\ nextID' \in [Ends -> Int]
<1>3. ASSUME MapSame PROVE Goal
  BY <1>1, <1>3 DEF MapSame
<1>4. ASSUME NEW c \in Calls, NEW e \in Ends, CallStart(c, e) PROVE Goal
  BY <1>1, <1>4 DEF CallStart
<1>5. ASSUME NEW c \in Calls, CallOpen(c) PROVE Goal
  <2>1. at[c] \in Ends /\ nextID[at[c]] + 2 \in Ids /\ c \in Streams
    BY <1>5, FreshID DEF CallOpen, Streams
  <2>2. nextID[at[c]] + 2 \in Int
    BY <1>1, <2>1
  <2> QED BY <1>1, <1>5, <2>1, <2>2 DEF CallOpen
<1>6. ASSUME NEW s \in Streams, CloseBegin(s) PROVE Goal
  BY <1>1, <1>6 DEF CloseBegin
<1>7. ASSUME NEW s \in Streams, CloseRelease(s) PROVE Goal
  BY <1>1, <1>7 DEF CloseRelease, streamVars
<1>8. ASSUME NEW e \in Ends, NEW h \in Handlers, DispatchNew(e, h) PROVE Goal
  <2>1. h \in Streams /\ reading[e] \in Frames /\ reading[e].id \in Ids
    BY <1>8 DEF TunnelInv, LinkTypes, DispatchNew, Dispatched, Frames, Streams
  <2> QED BY <1>1, <1>8, <2>1 DEF DispatchNew, Dispatched
<1>9. ASSUME NEW e \in Ends, DispatchClose(e) PROVE Goal
  <2>1. sclosed' \in [Streams -> BOOLEAN]
    BY <1>1, <1>9 DEF DispatchClose
  <2>2. streams' = streams \/ streams' = [streams EXCEPT ![e][reading[e].id] = None]
    BY <1>9 DEF DispatchClose
  <2>3. [streams[e] EXCEPT ![reading[e].id] = None] \in [Ids -> Streams \cup {None}]
    BY <1>1
  <2>4. streams' \in [Ends -> [Ids -> Streams \cup {None}]]
    BY <1>1, <2>2, <2>3
  <2> QED BY <1>1, <1>9, <2>1, <2>4 DEF DispatchClose, Dispatched
<1>10. ASSUME NEW e \in Ends, CloseTunnel(e) PROVE Goal
  <2>1. sclosed' \in [Streams -> BOOLEAN]
    BY <1>1, <1>10 DEF CloseTunnel
  <2>2. streams' \in [Ends -> [Ids -> Streams \cup {None}]]
    BY <1>1, <1>10 DEF CloseTunnel
  <2> QED BY <1>1, <1>10, <2>1, <2>2 DEF CloseTunnel
<1>11. TaskTypes
  BY DEF TunnelInv
<1> HIDE DEF Goal, StreamTypes
<1>12. Goal
  BY MapMoves, <1>3, <1>4, <1>5, <1>6, <1>7, <1>8, <1>9, <1>10, <1>11
<1> QED BY <1>2, <1>12 DEF Goal, StreamTypes

\* The ends and IDs of streams are given once.
LEMMA PlacesFinal ==
  ASSUME TunnelInv, [Next]_vars, NEW s \in Streams
  PROVE  /\ at[s] # None => at'[s] = at[s]
         /\ sid[s] # 0 => sid'[s] = sid[s]
<1> USE DEF StreamTypes, StagesPlaced, Unplaced
<1>1. StreamTypes /\ StagesPlaced /\ TaskTypes
  BY DEF TunnelInv
<1> DEFINE Goal == (at[s] # None => at'[s] = at[s]) /\ (sid[s] # 0 => sid'[s] = sid[s])
<1>2. CASE MapSame
  BY <1>2 DEF MapSame
<1>3. ASSUME NEW c \in Calls, NEW e \in Ends, CallStart(c, e) PROVE Goal
  BY <1>1, <1>3 DEF CallStart, Streams
<1>4. ASSUME NEW c \in Calls, CallOpen(c) PROVE Goal
  BY <1>1, <1>4 DEF CallOpen, Streams
<1>5. ASSUME NEW d \in Streams, CloseBegin(d) \/ CloseRelease(d) PROVE Goal
  BY <1>1, <1>5 DEF CloseBegin, CloseRelease, streamVars
<1>6. ASSUME NEW e \in Ends, NEW h \in Handlers, DispatchNew(e, h) PROVE Goal
  BY <1>1, <1>6 DEF DispatchNew, Streams
<1>7. ASSUME NEW e \in Ends, DispatchClose(e) \/ CloseTunnel(e) PROVE Goal
  BY <1>1, <1>7 DEF DispatchClose, CloseTunnel
<1> HIDE DEF Goal
<1>8. Goal
  BY MapMoves, <1>1, <1>2, <1>3, <1>4, <1>5, <1>6, <1>7 DEF Goal
<1> QED BY <1>8 DEF Goal

\* A stream is numbered when it is opened and stays where it was opened.
LEMMA StagesNext ==
  ASSUME TunnelInv, [Next]_vars
  PROVE  StagesPlaced'
<1>1. StreamTypes /\ StagesPlaced /\ TaskTypes
  BY DEF TunnelInv
<1> DEFINE Goal == \A s \in Streams : /\ at'[s] = None <=> pc'[s] \in {"idle", "free"}
                                      /\ sid'[s] = 0 <=> Unplaced(s)'
<1> USE TunnelAssumption DEF StreamTypes, StagesPlaced, Unplaced
<1>2. ASSUME MapSame PROVE Goal
  BY <1>1, <1>2 DEF MapSame, Working, Closing
<1>3. ASSUME NEW c \in Calls, NEW e \in Ends, CallStart(c, e) PROVE Goal
  <2>1. /\ c \in Streams /\ pc[c] = "idle" /\ pc' = [pc EXCEPT ![c] = "opening"]
        /\ at' = [at EXCEPT ![c] = e] /\ sid' = sid /\ e # None
    BY <1>3 DEF CallStart, Goto, Streams
  <2> QED BY <1>1, <2>1 DEF TaskTypes
<1>4. ASSUME NEW c \in Calls, CallOpen(c) PROVE Goal
  <2>1. /\ c \in Streams /\ pc[c] = "opening" /\ pc' = [pc EXCEPT ![c] = "write"]
        /\ sid' = [sid EXCEPT ![c] = nextID[at[c]] + 2] /\ at' = at
    BY <1>4 DEF CallOpen, Goto, Streams
  <2>2. nextID[at[c]] + 2 # 0
    BY <2>1, FreshID
  <2> QED BY <1>1, <2>1, <2>2 DEF TaskTypes
<1>5. ASSUME NEW s \in Streams, CloseBegin(s) \/ CloseRelease(s) PROVE Goal
  <2>1. /\ pc[s] \in {"close", "closeWait"} /\ UNCHANGED <<at, sid>>
        /\ \E t \in {"done", "closeSend"} : pc' = [pc EXCEPT ![s] = t]
    BY <1>5 DEF CloseBegin, CloseRelease, Goto, streamVars
  <2> QED BY <1>1, <2>1 DEF TaskTypes
<1>6. ASSUME NEW e \in Ends, NEW h \in Handlers, DispatchNew(e, h) PROVE Goal
  <2>1. /\ h \in Streams /\ pc[h] = "free" /\ pc' = [pc EXCEPT ![h] = "dial"]
        /\ at' = [at EXCEPT ![h] = e] /\ sid' = [sid EXCEPT ![h] = reading[e].id] /\ e # None
    BY <1>6 DEF DispatchNew, Streams
  <2>2. reading[e].id \in Ids
    BY <1>6 DEF TunnelInv, LinkTypes, DispatchNew, Dispatched, Frames
  <2>3. reading[e].id # 0
    BY <2>2 DEF Ids
  <2> QED BY <1>1, <2>1, <2>3 DEF TaskTypes
<1>7. ASSUME NEW e \in Ends, DispatchClose(e) \/ CloseTunnel(e) PROVE Goal
  BY <1>1, <1>7 DEF DispatchClose, CloseTunnel, taskVars
<1>8. Goal
  <2> HIDE DEF Goal
  <2> QED BY MapMoves, <1>1, <1>2, <1>3, <1>4, <1>5, <1>6, <1>7
<1>9. \A h \in Handlers : pc'[h] = "free" => out'[h] = "idle"
  <2> SUFFICES ASSUME NEW h \in Handlers, pc'[h] = "free" PROVE out'[h] = "idle"
    OBVIOUS
  <2> USE DEF TaskTypes, Goto, Streams
  <2>1. ASSUME NEW c \in Calls, \/ \E e \in Ends : CallStart(c, e)
                                \/ CallOpen(c) \/ CallWrite(c) \/ CallWriteFails(c)
                                \/ CallWritten(c) \/ CallRead(c)
        PROVE  out' = out /\ pc'[h] = pc[h]
    BY <1>1, <2>1 DEF CallStart, CallOpen, CallWrite, CallWriteFails, CallWritten, CallRead
  <2>2. ASSUME NEW g \in Handlers,
               (\E ok \in BOOLEAN : HandlerDial(g, ok)) \/ HandlerInitial(g)
                 \/ HandlerCopyIn(g) \/ HandlerTargetEnds(g)
        PROVE  out' = out /\ pc[h] = "free"
    BY <1>1, <2>2 DEF HandlerDial, HandlerInitial, HandlerCopyIn, HandlerTargetEnds
  <2>3. ASSUME NEW g \in Handlers, HandlerReply(g) \/ HandlerReplySend(g) \/ HandlerReplied(g)
        PROVE  out'[h] = out[h] /\ pc[h] = "free"
    BY <1>1, <2>3 DEF HandlerReply, HandlerReplySend, HandlerReplied
  <2>4. ASSUME NEW s \in Streams, CloseBegin(s) \/ CloseSend(s) \/ CloseRelease(s)
        PROVE  out' = out /\ pc[h] = "free"
    BY <1>1, <2>4 DEF CloseBegin, CloseSend, CloseRelease
  <2>5. ASSUME NEW e \in Ends, \/ ReadFrame(e) \/ ReadAck(e) \/ DispatchData(e)
                               \/ DispatchClose(e) \/ CloseTunnel(e)
                               \/ \E g \in Handlers : DispatchNew(e, g)
        PROVE  out' = out /\ pc[h] = "free"
    BY <1>1, <2>5 DEF ReadFrame, ReadAck, DispatchData, DispatchClose, DispatchNew, Dispatched,
                      CloseTunnel, taskVars
  <2>6. ASSUME UNCHANGED vars PROVE out' = out /\ pc[h] = "free"
    BY <2>6 DEF vars, taskVars
  <2>7. out'[h] = out[h] /\ pc[h] = "free"
    BY NextCases, <2>1, <2>2, <2>3, <2>4, <2>5, <2>6
  <2> QED BY <1>1, <2>7
<1> QED BY <1>8, <1>9

\* Every stream that has an ID has one that some call was given.
LEMMA AllIssued ==
  ASSUME TunnelInv, NEW s \in Streams, sid[s] # 0
  PROVE  Issued(sid[s])
  BY DEF TunnelInv, IdsIssued, Issued, Streams

\* The IDs of calls stay distinct in parity, and incoming streams take theirs
\* from frames.
LEMMA IdsNext ==
  ASSUME TunnelInv, [Next]_vars
  PROVE  IdsIssued'
<1>1. StreamTypes /\ StagesPlaced /\ TaskTypes /\ IdsIssued
  BY DEF TunnelInv
<1>2. \A i : Issued(i) => Issued(i)'
  BY PlacesFinal DEF Issued, Streams
<1>3. ASSUME UNCHANGED nextID, \A c \in Calls : sid'[c] = sid[c],
             \A c \in Calls : sid[c] # 0 => at'[c] = at[c],
             \A h \in Handlers : sid'[h] = sid[h] \/ Issued(sid'[h])
      PROVE  IdsIssued'
  <2>1. \A e \in Ends : OpenedAt(e)' = OpenedAt(e)
    BY <1>3 DEF OpenedAt
  <2>2. \A e \in Ends : nextID'[e] = FirstID(e) + 2 * Cardinality(OpenedAt(e)')
    BY <1>1, <1>3, <2>1 DEF IdsIssued
  <2>3. \A c \in Calls : sid'[c] # 0 => OwnParity(at'[c], sid'[c]) /\ sid'[c] <= nextID'[at'[c]]
    BY <1>1, <1>3 DEF IdsIssued
  <2>4. \A h \in Handlers : sid'[h] # 0 => Issued(sid'[h])
    BY <1>1, <1>3 DEF IdsIssued
  <2>5. \A h \in Handlers : sid'[h] # 0 => \E c \in Calls : sid'[c] = sid'[h]
    BY <1>3, <2>4 DEF Issued
  <2> QED BY <2>2, <2>3, <2>5 DEF IdsIssued, Issued
<1>4. CASE MapSame
  BY <1>3, <1>4 DEF MapSame
<1>5. ASSUME NEW c \in Calls, NEW e \in Ends, CallStart(c, e) PROVE IdsIssued'
  <2>1. sid[c] = 0 /\ at' = [at EXCEPT ![c] = e] /\ UNCHANGED <<sid, nextID>>
    BY <1>1, <1>5 DEF CallStart, StagesPlaced, Unplaced, Streams
  <2> QED BY <1>1, <1>3, <2>1 DEF StreamTypes, Streams
<1>6. ASSUME NEW c \in Calls, CallOpen(c) PROVE IdsIssued'
  <2> DEFINE e == at[c]
             id == nextID[e] + 2
  <2>1. /\ e \in Ends /\ id \in Ids /\ id # 0 /\ OwnParity(e, id)
        /\ id = FirstID(e) + 2 * Cardinality(OpenedAt(e) \cup {c})
        /\ nextID' = [nextID EXCEPT ![e] = id] /\ sid' = [sid EXCEPT ![c] = id] /\ at' = at
        /\ nextID[e] \in Int /\ c \in Streams
    BY <1>1, <1>6, FreshID DEF CallOpen, StreamTypes, Streams
  <2>2. sid'[c] = id /\ \A d \in Streams : d # c => sid'[d] = sid[d]
    BY <1>1, <2>1 DEF StreamTypes
  <2>3. nextID'[e] = id /\ \A f \in Ends : f # e => nextID'[f] = nextID[f]
    BY <1>1, <2>1 DEF StreamTypes
  <2> HIDE DEF id
  <2>4. OpenedAt(e)' = OpenedAt(e) \cup {c}
    BY <2>1, <2>2 DEF OpenedAt, Streams
  <2>5. \A f \in Ends : f # e => OpenedAt(f)' = OpenedAt(f)
    BY <2>1, <2>2 DEF OpenedAt, Streams
  <2>6. \A f \in Ends : nextID'[f] = FirstID(f) + 2 * Cardinality(OpenedAt(f)')
    BY <1>1, <2>1, <2>3, <2>4, <2>5 DEF IdsIssued
  <2>7. nextID[e] <= id
    BY <2>1 DEF id
  <2>8. ASSUME NEW d \in Calls, sid'[d] # 0
        PROVE  OwnParity(at'[d], sid'[d]) /\ sid'[d] <= nextID'[at'[d]]
    <3>1. CASE d = c
      <4>1. id \in Int
        BY <2>1 DEF Ids
      <4> QED BY <2>1, <2>2, <2>3, <3>1, <4>1
    <3>2. CASE d # c
      <4>1. sid'[d] = sid[d] /\ at'[d] = at[d] /\ d \in Streams
        BY <2>1, <2>2, <3>2 DEF Streams
      <4>2. OwnParity(at[d], sid[d]) /\ sid[d] <= nextID[at[d]] /\ at[d] \in Ends
            /\ sid[d] \in Int
        BY <1>1, <2>8, <4>1 DEF IdsIssued, StreamTypes, StagesPlaced, Unplaced, Ids
      <4>3. nextID[at[d]] <= nextID'[at[d]] /\ nextID[at[d]] \in Int /\ nextID'[at[d]] \in Int
        BY <1>1, <2>1, <2>3, <2>7, <4>2 DEF StreamTypes, Ids
      <4> QED BY <4>1, <4>2, <4>3
    <3> QED BY <3>1, <3>2
  <2>9. \A h \in Handlers : sid'[h] # 0 => Issued(sid[h]) /\ sid'[h] = sid[h]
    BY <1>1, <2>2, TunnelAssumption DEF IdsIssued, Streams
  <2>10. \A h \in Handlers : sid'[h] # 0 => \E d \in Calls : sid'[d] = sid'[h]
    BY <2>9, PlacesFinal DEF Issued, Streams
  <2> QED BY <2>6, <2>8, <2>10 DEF IdsIssued, Issued
<1>7. ASSUME NEW s \in Streams, CloseBegin(s) \/ CloseRelease(s) PROVE IdsIssued'
  BY <1>3, <1>7 DEF CloseBegin, CloseRelease, streamVars
<1>8. ASSUME NEW e \in Ends, NEW h \in Handlers, DispatchNew(e, h) PROVE IdsIssued'
  <2>1. /\ at' = [at EXCEPT ![h] = e] /\ sid' = [sid EXCEPT ![h] = reading[e].id]
        /\ UNCHANGED nextID /\ h \in Streams
    BY <1>8 DEF DispatchNew, Dispatched, Streams
  <2>2. Issued(reading[e].id)
    BY <1>8 DEF TunnelInv, FramesOwn, FrameOf, DispatchNew, Dispatched
  <2>3. \A s \in Streams : s # h => sid'[s] = sid[s] /\ at'[s] = at[s]
    BY <1>1, <2>1 DEF StreamTypes
  <2>4. sid'[h] = reading[e].id
    BY <1>1, <2>1 DEF StreamTypes
  <2> QED BY <1>3, <2>1, <2>2, <2>3, <2>4, TunnelAssumption DEF Streams
<1>9. ASSUME NEW e \in Ends, DispatchClose(e) \/ CloseTunnel(e) PROVE IdsIssued'
  BY <1>3, <1>9 DEF DispatchClose, CloseTunnel, Dispatched
<1> QED BY MapMoves, <1>1, <1>4, <1>5, <1>6, <1>7, <1>8, <1>9

--------------------------------------------------------------------------------
(* The streams maps.                                                       *)

\* The entry of an open or closing stream is its own.
LEMMA OneHolder ==
  ASSUME TunnelInv, NEW s \in Streams, sid[s] # 0, ~sclosed[s] \/ Closing(s)
  PROVE  /\ at[s] \in Ends /\ sid[s] \in Ids
         /\ streams[at[s]][sid[s]] = s
  BY DEF TunnelInv, StreamTypes, StagesPlaced, Unplaced, MapExact

\* OpenStream takes a free entry.
LEMMA OpenKeepsMap ==
  ASSUME TunnelInv, NEW c \in Calls, CallOpen(c)
  PROVE  EntriesOwn' /\ MapExact'
<1> DEFINE e == at[c]
           id == nextID[e] + 2
<1>1. StreamTypes /\ StagesPlaced /\ TaskTypes /\ EntriesOwn /\ MapExact
  BY DEF TunnelInv
<1>2. /\ c \in Streams /\ e \in Ends /\ id \in Ids /\ id # 0 /\ ~Issued(id)
      /\ pc[c] = "opening" /\ pc' = [pc EXCEPT ![c] = "write"]
      /\ streams' = [streams EXCEPT ![e][id] = c] /\ sid' = [sid EXCEPT ![c] = id]
      /\ UNCHANGED <<at, sclosed>>
  BY FreshID DEF CallOpen, Goto, Streams
<1> HIDE DEF id
<1>3. sid[c] = 0 /\ ~sclosed[c] /\ sid'[c] = id
  BY <1>1, <1>2 DEF StagesPlaced, Unplaced, MapExact, StreamTypes
<1>4. \A s \in Streams : sid[s] # id
  BY <1>2, AllIssued
<1>5. \A s \in Streams : s # c => /\ sid'[s] = sid[s]
                                  /\ Closing(s)' <=> Closing(s)
                                  /\ Unplaced(s)' <=> Unplaced(s)
  BY <1>1, <1>2 DEF StreamTypes, TaskTypes, Closing, Unplaced
<1>6. ~Closing(c)' /\ ~Unplaced(c)'
  BY <1>1, <1>2 DEF TaskTypes, Closing, Unplaced
<1>7. \A f \in Ends, i \in Ids : streams'[f][i] = IF f = e /\ i = id THEN c ELSE streams[f][i]
  BY <1>1, <1>2 DEF StreamTypes
<1>8. EntriesOwn'
  <2> SUFFICES ASSUME NEW f \in Ends, NEW i \in Ids, streams'[f][i] # None
               PROVE  at'[streams'[f][i]] = f /\ sid'[streams'[f][i]] = i
    BY DEF EntriesOwn
  <2>1. CASE f = e /\ i = id
    BY <1>2, <1>3, <1>7, <2>1
  <2>2. CASE ~(f = e /\ i = id)
    <3>1. /\ streams'[f][i] = streams[f][i] /\ streams[f][i] \in Streams
          /\ at[streams[f][i]] = f /\ sid[streams[f][i]] = i
      BY <1>1, <1>7, <2>2 DEF StreamTypes, EntriesOwn
    <3>2. streams[f][i] # c
      BY <1>3, <3>1 DEF Ids
    <3> QED BY <1>2, <1>5, <3>1, <3>2
  <2> QED BY <2>1, <2>2
<1>9. ASSUME NEW s \in Streams, sid'[s] # 0
      PROVE  streams'[at'[s]][sid'[s]] = s <=> ~sclosed'[s] \/ Closing(s)'
  <2>1. CASE s = c
    BY <1>2, <1>3, <1>6, <1>7, <2>1
  <2>2. CASE s # c
    <3>1. /\ sid[s] # 0 /\ at[s] \in Ends /\ sid[s] \in Ids /\ sid[s] # id
          /\ streams[at[s]][sid[s]] = s <=> ~sclosed[s] \/ Closing(s)
      BY <1>1, <1>4, <1>5, <1>9, <2>2 DEF StreamTypes, StagesPlaced, Unplaced, MapExact
    <3> QED BY <1>2, <1>5, <1>7, <2>2, <3>1
  <2> QED BY <2>1, <2>2
<1>10. \A s \in Streams : /\ Closing(s)' => sclosed'[s]
                          /\ Unplaced(s)' => ~sclosed'[s]
  BY <1>1, <1>2, <1>5, <1>6 DEF MapExact
<1> QED BY <1>8, <1>9, <1>10 DEF MapExact

\* An incoming stream takes the free entry that made the readLoop create it.
LEMMA AcceptKeepsMap ==
  ASSUME TunnelInv, NEW e \in Ends, NEW h \in Handlers, DispatchNew(e, h)
  PROVE  EntriesOwn' /\ MapExact'
<1> DEFINE id == reading[e].id
<1>1. StreamTypes /\ StagesPlaced /\ TaskTypes /\ EntriesOwn /\ MapExact
  BY DEF TunnelInv
<1>2. /\ h \in Streams /\ id \in Ids /\ streams[e][id] = None
      /\ pc[h] = "free" /\ pc' = [pc EXCEPT ![h] = "dial"]
      /\ streams' = [streams EXCEPT ![e][id] = h]
      /\ at' = [at EXCEPT ![h] = e] /\ sid' = [sid EXCEPT ![h] = id]
      /\ UNCHANGED sclosed
  BY DEF DispatchNew, Dispatched, Receiver, TunnelInv, LinkTypes, Frames, Streams
<1> HIDE DEF id
<1>3. sid[h] = 0 /\ ~sclosed[h] /\ sid'[h] = id /\ at'[h] = e
  BY <1>1, <1>2 DEF StagesPlaced, Unplaced, MapExact, StreamTypes
<1>4. \A s \in Streams : s # h => /\ sid'[s] = sid[s] /\ at'[s] = at[s]
                                  /\ Closing(s)' <=> Closing(s)
                                  /\ Unplaced(s)' <=> Unplaced(s)
  BY <1>1, <1>2 DEF StreamTypes, TaskTypes, Closing, Unplaced
<1>5. ~Closing(h)' /\ ~Unplaced(h)'
  BY <1>1, <1>2 DEF TaskTypes, Closing, Unplaced
<1>6. \A f \in Ends, i \in Ids : streams'[f][i] = IF f = e /\ i = id THEN h ELSE streams[f][i]
  BY <1>1, <1>2 DEF StreamTypes
<1>7. EntriesOwn'
  <2> SUFFICES ASSUME NEW f \in Ends, NEW i \in Ids, streams'[f][i] # None
               PROVE  at'[streams'[f][i]] = f /\ sid'[streams'[f][i]] = i
    BY DEF EntriesOwn
  <2>1. CASE f = e /\ i = id
    BY <1>3, <1>6, <2>1
  <2>2. CASE ~(f = e /\ i = id)
    <3>1. /\ streams'[f][i] = streams[f][i] /\ streams[f][i] \in Streams
          /\ at[streams[f][i]] = f /\ sid[streams[f][i]] = i
      BY <1>1, <1>6, <2>2 DEF StreamTypes, EntriesOwn
    <3>2. streams[f][i] # h
      BY <1>3, <3>1 DEF Ids
    <3> QED BY <1>4, <3>1, <3>2
  <2> QED BY <2>1, <2>2
<1>8. ASSUME NEW s \in Streams, sid'[s] # 0
      PROVE  streams'[at'[s]][sid'[s]] = s <=> ~sclosed'[s] \/ Closing(s)'
  <2>1. CASE s = h
    BY <1>2, <1>3, <1>5, <1>6, <2>1
  <2>2. CASE s # h
    <3>1. /\ sid[s] # 0 /\ at[s] \in Ends /\ sid[s] \in Ids
          /\ streams[at[s]][sid[s]] = s <=> ~sclosed[s] \/ Closing(s)
      BY <1>1, <1>4, <1>8, <2>2 DEF StreamTypes, StagesPlaced, Unplaced, MapExact
    <3>2. s # None
      BY TunnelAssumption
    <3>3. streams'[at[s]][sid[s]] = s <=> streams[at[s]][sid[s]] = s
      BY <1>2, <1>6, <2>2, <3>1, <3>2
    <3> QED BY <1>2, <1>4, <2>2, <3>1, <3>3
  <2> QED BY <2>1, <2>2
<1>9. \A s \in Streams : /\ Closing(s)' => sclosed'[s]
                         /\ Unplaced(s)' => ~sclosed'[s]
  BY <1>1, <1>2, <1>4, <1>5 DEF MapExact
<1> QED BY <1>7, <1>8, <1>9 DEF MapExact

\* The local close marks the stream; its entry stays until release.
LEMMA CloseKeepsMap ==
  ASSUME TunnelInv, NEW s \in Streams, CloseBegin(s)
  PROVE  EntriesOwn' /\ MapExact'
<1>1. StreamTypes /\ StagesPlaced /\ TaskTypes /\ EntriesOwn /\ MapExact
  BY DEF TunnelInv
<1>2. /\ pc[s] = "close" /\ UNCHANGED <<streams, at, sid>>
      /\ sclosed' = [sclosed EXCEPT ![s] = TRUE]
      /\ pc' = [pc EXCEPT ![s] = IF sclosed[s] THEN "done" ELSE "closeSend"]
  BY DEF CloseBegin, Goto
<1>3. /\ \A r \in Streams : r # s => /\ sclosed'[r] = sclosed[r]
                                     /\ Closing(r)' <=> Closing(r)
                                     /\ Unplaced(r)' <=> Unplaced(r)
      /\ sclosed'[s] /\ ~Closing(s) /\ (Closing(s)' <=> ~sclosed[s]) /\ ~Unplaced(s)'
  BY <1>1, <1>2 DEF StreamTypes, TaskTypes, Closing, Unplaced
<1>4. EntriesOwn'
  BY <1>1, <1>2 DEF EntriesOwn
<1>5. MapExact'
  BY <1>1, <1>2, <1>3 DEF MapExact
<1> QED BY <1>4, <1>5

\* release removes the entry of its own stream.
LEMMA ReleaseKeepsMap ==
  ASSUME TunnelInv, NEW s \in Streams, CloseRelease(s)
  PROVE  EntriesOwn' /\ MapExact'
<1> DEFINE e == at[s]
           id == sid[s]
<1>1. StreamTypes /\ StagesPlaced /\ TaskTypes /\ EntriesOwn /\ MapExact
  BY DEF TunnelInv
<1>2. /\ pc[s] = "closeWait" /\ UNCHANGED <<sclosed, at, sid>>
      /\ streams' = [streams EXCEPT ![e][id] = None]
      /\ pc' = [pc EXCEPT ![s] = "done"]
  BY DEF CloseRelease, Goto, streamVars
<1>3. Closing(s) /\ sclosed[s] /\ ~Closing(s)' /\ ~Unplaced(s)' /\ id # 0
  BY <1>1, <1>2 DEF TaskTypes, Closing, Unplaced, StagesPlaced, MapExact
<1>4. \A r \in Streams : r # s => (Closing(r)' <=> Closing(r)) /\ (Unplaced(r)' <=> Unplaced(r))
  BY <1>1, <1>2 DEF TaskTypes, Closing, Unplaced
<1>5. e \in Ends /\ id \in Ids /\ streams[e][id] = s
  BY <1>3, OneHolder
<1> HIDE DEF e, id
<1>6. \A f \in Ends, i \in Ids :
        streams'[f][i] = IF f = e /\ i = id THEN None ELSE streams[f][i]
  BY <1>1, <1>2, <1>5 DEF StreamTypes
<1>7. EntriesOwn'
  BY <1>1, <1>2, <1>6 DEF EntriesOwn
<1>8. ASSUME NEW r \in Streams, sid[r] # 0
      PROVE  streams'[at[r]][sid[r]] = r <=> ~sclosed[r] \/ Closing(r)'
  <2>1. r # None /\ at[r] \in Ends /\ sid[r] \in Ids
    BY <1>1, <1>8, TunnelAssumption DEF StreamTypes, StagesPlaced, Unplaced
  <2>2. streams[at[r]][sid[r]] = r <=> ~sclosed[r] \/ Closing(r)
    BY <1>1, <1>8 DEF MapExact
  <2>3. CASE r = s
    BY <1>3, <1>6, <2>1, <2>3 DEF e, id
  <2>4. CASE r # s
    BY <1>4, <1>5, <1>6, <2>1, <2>2, <2>4
  <2> QED BY <2>3, <2>4
<1>9. \A r \in Streams : (Closing(r)' => sclosed[r]) /\ (Unplaced(r)' => ~sclosed[r])
  BY <1>1, <1>3, <1>4 DEF MapExact
<1> QED BY <1>2, <1>7, <1>8, <1>9 DEF MapExact

\* A close frame takes an open stream out of the map and leaves one that closes
\* itself alone.
LEMMA RemoteCloseKeepsMap ==
  ASSUME TunnelInv, NEW e \in Ends, DispatchClose(e)
  PROVE  EntriesOwn' /\ MapExact'
<1> DEFINE id == reading[e].id
           s == streams[e][id]
<1>1. StreamTypes /\ StagesPlaced /\ TaskTypes /\ EntriesOwn /\ MapExact
  BY DEF TunnelInv
<1>2. UNCHANGED <<at, sid, pc>> /\ id \in Ids
  BY DEF DispatchClose, Dispatched, TunnelInv, LinkTypes, Frames
<1>3. \A r \in Streams : (Closing(r)' <=> Closing(r)) /\ (Unplaced(r)' <=> Unplaced(r))
  BY <1>2 DEF Closing, Unplaced
<1>4. CASE s # None /\ ~sclosed[s]
  <2>1. /\ sclosed' = [sclosed EXCEPT ![s] = TRUE] /\ streams' = [streams EXCEPT ![e][id] = None]
    BY <1>4 DEF DispatchClose, Receiver
  <2>2. s \in Streams /\ at[s] = e /\ sid[s] = id /\ ~Closing(s) /\ id # 0
    <3>1. s \in Streams
      BY <1>1, <1>2, <1>4 DEF StreamTypes
    <3>2. at[s] = e /\ sid[s] = id /\ id # 0
      BY <1>1, <1>2, <1>4 DEF EntriesOwn, Ids
    <3> QED BY <1>1, <1>4, <3>1, <3>2 DEF MapExact
  <2>3. \A f \in Ends, i \in Ids :
          streams'[f][i] = IF f = e /\ i = id THEN None ELSE streams[f][i]
    BY <1>1, <1>2, <2>1 DEF StreamTypes
  <2>4. sclosed'[s] /\ \A r \in Streams : r # s => sclosed'[r] = sclosed[r]
    BY <1>1, <2>1, <2>2 DEF StreamTypes
  <2>5. ~Unplaced(s)
    BY <1>1, <2>2 DEF StagesPlaced
  <2>6. EntriesOwn'
    BY <1>1, <1>2, <2>3 DEF EntriesOwn
  <2>7. ASSUME NEW r \in Streams, sid[r] # 0
        PROVE  streams'[at[r]][sid[r]] = r <=> ~sclosed'[r] \/ Closing(r)
    <3>1. r # None /\ at[r] \in Ends /\ sid[r] \in Ids
      BY <1>1, <2>7, TunnelAssumption DEF StreamTypes, StagesPlaced, Unplaced
    <3>2. streams[at[r]][sid[r]] = r <=> ~sclosed[r] \/ Closing(r)
      BY <1>1, <2>7 DEF MapExact
    <3>3. CASE r = s
      <4>1. at[r] = e /\ sid[r] = id /\ ~Closing(r) /\ sclosed'[r]
        BY <2>2, <2>4, <3>3
      <4>2. streams'[e][id] = None
        BY <1>2, <2>3
      <4> QED BY <3>1, <4>1, <4>2
    <3>4. CASE r # s
      BY <2>3, <2>4, <3>1, <3>2, <3>4
    <3> QED BY <3>3, <3>4
  <2>8. \A r \in Streams : (Closing(r) => sclosed'[r]) /\ (Unplaced(r) => ~sclosed'[r])
    BY <1>1, <2>4, <2>5 DEF MapExact
  <2> HIDE DEF s, id
  <2>9. MapExact'
    BY <1>2, <1>3, <2>7, <2>8 DEF MapExact
  <2> QED BY <2>6, <2>9
<1>5. CASE ~(s # None /\ ~sclosed[s])
  <2>1. UNCHANGED <<sclosed, streams>>
    BY <1>5 DEF DispatchClose, Receiver
  <2> QED BY <1>1, <1>2, <1>3, <2>1 DEF EntriesOwn, MapExact
<1> QED BY <1>4, <1>5

\* Close takes every open stream of its end out of the map.
LEMMA LossKeepsMap ==
  ASSUME TunnelInv, NEW e \in Ends, CloseTunnel(e)
  PROVE  EntriesOwn' /\ MapExact'
<1>1. StreamTypes /\ StagesPlaced /\ TaskTypes /\ EntriesOwn /\ MapExact
  BY DEF TunnelInv
<1>2. /\ UNCHANGED <<at, sid, pc>>
      /\ \A s \in Streams : sclosed'[s] <=> sclosed[s] \/ s \in OpenStreams(e)
  BY DEF CloseTunnel, taskVars
<1>3. \A f \in Ends, i \in Ids :
        streams'[f][i] = IF f = e /\ streams[e][i] \in OpenStreams(e) THEN None
                                                                      ELSE streams[f][i]
  BY <1>1 DEF CloseTunnel, StreamTypes
<1>4. \A s \in OpenStreams(e) : s \in Streams /\ ~sclosed[s] /\ at[s] = e /\ sid[s] # 0
  BY <1>1, TunnelAssumption DEF OpenStreams, EntriesOwn, Ids
<1>5. EntriesOwn'
  BY <1>1, <1>2, <1>3 DEF EntriesOwn
<1>6. ASSUME NEW s \in Streams, sid[s] # 0
      PROVE  streams'[at[s]][sid[s]] = s <=> ~sclosed'[s] \/ Closing(s)
  <2>1. s # None /\ at[s] \in Ends /\ sid[s] \in Ids
    BY <1>1, <1>6, TunnelAssumption DEF StreamTypes, StagesPlaced, Unplaced
  <2>2. streams[at[s]][sid[s]] = s <=> ~sclosed[s] \/ Closing(s)
    BY <1>1, <1>6 DEF MapExact
  <2>3. CASE s \in OpenStreams(e)
    BY <1>1, <1>2, <1>3, <1>4, <2>1, <2>2, <2>3 DEF MapExact
  <2>4. CASE s \notin OpenStreams(e)
    BY <1>2, <1>3, <2>1, <2>2, <2>4
  <2> QED BY <2>3, <2>4
<1>7. \A s \in Streams : (Closing(s)' <=> Closing(s)) /\ (Unplaced(s)' <=> Unplaced(s))
  BY <1>2 DEF Closing, Unplaced
<1>8. \A s \in Streams : (Closing(s) => sclosed'[s]) /\ (Unplaced(s) => ~sclosed'[s])
  BY <1>1, <1>2, <1>4 DEF MapExact, StagesPlaced
<1>9. MapExact'
  BY <1>2, <1>6, <1>7, <1>8 DEF MapExact
<1> QED BY <1>5, <1>9

\* No step loses an entry, leaves one behind or removes another stream's.
LEMMA MapNext ==
  ASSUME TunnelInv, [Next]_vars
  PROVE  EntriesOwn' /\ MapExact'
<1>1. StreamTypes /\ StagesPlaced /\ TaskTypes /\ EntriesOwn /\ MapExact
  BY DEF TunnelInv
<1>2. ASSUME MapSame PROVE EntriesOwn' /\ MapExact'
  <2>1. UNCHANGED <<streams, at, sid, sclosed>>
    BY <1>2 DEF MapSame
  <2>2. \A s \in Streams : (Closing(s)' <=> Closing(s)) /\ (Unplaced(s)' <=> Unplaced(s))
    BY <1>2 DEF MapSame, Closing, Unplaced, Working
  <2> QED BY <1>1, <2>1, <2>2 DEF EntriesOwn, MapExact
<1>3. ASSUME NEW c \in Calls, NEW e \in Ends, CallStart(c, e) PROVE EntriesOwn' /\ MapExact'
  <2>1. /\ c \in Streams /\ sid[c] = 0 /\ at' = [at EXCEPT ![c] = e]
        /\ UNCHANGED <<streams, sid, sclosed>>
        /\ pc[c] = "idle" /\ pc' = [pc EXCEPT ![c] = "opening"]
    BY <1>1, <1>3 DEF CallStart, Goto, StagesPlaced, Unplaced, Streams
  <2>2. \A s \in Streams : (Closing(s)' <=> Closing(s)) /\ (Unplaced(s)' <=> Unplaced(s))
    BY <1>1, <2>1 DEF TaskTypes, Closing, Unplaced
  <2>3. \A s \in Streams : sid[s] # 0 => at'[s] = at[s]
    BY <1>1, <2>1 DEF StreamTypes
  <2>4. EntriesOwn'
    BY <1>1, <2>1, <2>3 DEF EntriesOwn, StreamTypes, Ids
  <2>5. MapExact'
    BY <1>1, <2>1, <2>2, <2>3 DEF MapExact
  <2> QED BY <2>4, <2>5
<1>4. ASSUME NEW c \in Calls, CallOpen(c) PROVE EntriesOwn' /\ MapExact'
  BY <1>4, OpenKeepsMap
<1>5. ASSUME NEW s \in Streams, CloseBegin(s) \/ CloseRelease(s) PROVE EntriesOwn' /\ MapExact'
  BY <1>5, CloseKeepsMap, ReleaseKeepsMap
<1>6. ASSUME NEW e \in Ends, NEW h \in Handlers, DispatchNew(e, h)
      PROVE  EntriesOwn' /\ MapExact'
  BY <1>6, AcceptKeepsMap
<1>7. ASSUME NEW e \in Ends, DispatchClose(e) \/ CloseTunnel(e) PROVE EntriesOwn' /\ MapExact'
  BY <1>7, RemoteCloseKeepsMap, LossKeepsMap
<1> QED BY MapMoves, <1>1, <1>2, <1>3, <1>4, <1>5, <1>6, <1>7

--------------------------------------------------------------------------------
(* Goroutines and frames.                                                  *)

\* The goroutines stay in their stages.
LEMMA TaskTypesNext ==
  ASSUME TunnelInv, [Next]_vars
  PROVE  TaskTypes'
<1>1. TaskTypes
  BY DEF TunnelInv
<1> USE TunnelAssumption DEF TaskTypes, CallStages, HandlerStages, CloseStages, Goto, Streams
<1>2. ASSUME NEW c \in Calls, (\E e \in Ends : CallStart(c, e)) \/ CallOpen(c) PROVE TaskTypes'
  BY <1>1, <1>2 DEF CallStart, CallOpen
<1>3. ASSUME NEW c \in Calls, CallWrite(c) \/ CallWriteFails(c) \/ CallRead(c) PROVE TaskTypes'
  <2>1. /\ \E t \in {"sending", "close"} : pc' = [pc EXCEPT ![c] = t]
        /\ UNCHANGED <<out, sent>>
    BY <1>3 DEF CallWrite, CallWriteFails, CallRead
  <2> QED BY <1>1, <2>1
<1>4. ASSUME NEW c \in Calls, CallWritten(c) PROVE TaskTypes'
  BY <1>1, <1>4 DEF CallWritten
<1>5. ASSUME NEW h \in Handlers, (\E ok \in BOOLEAN : HandlerDial(h, ok)) \/ HandlerTargetEnds(h)
      PROVE  TaskTypes'
  BY <1>1, <1>5 DEF HandlerDial, HandlerTargetEnds
<1>6. ASSUME NEW h \in Handlers, HandlerInitial(h) \/ HandlerCopyIn(h) PROVE TaskTypes'
  <2>1. /\ pc' = pc \/ \E t \in {"copy", "close"} : pc' = [pc EXCEPT ![h] = t]
        /\ UNCHANGED <<out, sent>>
    BY <1>6 DEF HandlerInitial, HandlerCopyIn
  <2> QED BY <1>1, <2>1
<1>7. ASSUME NEW h \in Handlers, HandlerReply(h) \/ HandlerReplySend(h) \/ HandlerReplied(h)
      PROVE  TaskTypes'
  BY <1>1, <1>7 DEF HandlerReply, HandlerReplySend, HandlerReplied
<1>8. ASSUME NEW s \in Streams, CloseBegin(s) \/ CloseSend(s) \/ CloseRelease(s)
      PROVE  TaskTypes'
  BY <1>1, <1>8 DEF CloseBegin, CloseSend, CloseRelease
<1>9. ASSUME NEW e \in Ends, NEW h \in Handlers, DispatchNew(e, h) PROVE TaskTypes'
  BY <1>1, <1>9 DEF DispatchNew, Dispatched
<1>10. ASSUME NEW e \in Ends, \/ ReadFrame(e) \/ ReadAck(e) \/ DispatchData(e)
                              \/ DispatchClose(e) \/ CloseTunnel(e)
       PROVE  TaskTypes'
  <2>1. UNCHANGED <<pc, out, sent>>
    BY <1>10 DEF ReadFrame, ReadAck, DispatchData, DispatchClose, Dispatched, CloseTunnel,
                 taskVars
  <2> QED BY <1>1, <2>1
<1>11. ASSUME UNCHANGED vars PROVE TaskTypes'
  BY <1>1, <1>11 DEF vars, taskVars
<1> HIDE DEF TaskTypes, Streams
<1> QED BY NextCases, <1>2, <1>3, <1>4, <1>5, <1>6, <1>7, <1>8, <1>9, <1>10, <1>11

\* A frame as WriteFrame makes it: with the ID of the stream that writes, and its
\* payload if it is a data frame.
Wrote(e, f) ==
  \E s \in Streams, t \in {"data", "close"}, b \in Bodies \cup {None} :
    /\ at[s] = e /\ sid[s] # 0
    /\ f = [type |-> t, id |-> sid[s], body |-> b]
    /\ t = "data" => b \in Bodies /\ b[1] = s

\* One end writes one frame.
LEMMA WriteOne ==
  ASSUME TunnelInv, NEW s \in Streams, sid[s] # 0, NEW role \in {"main", "out"},
         NEW t \in {"data", "close"}, NEW b \in Bodies \cup {None},
         t = "data" => b \in Bodies /\ b[1] = s,
         WriteFrame(s, role, t, b)
  PROVE  /\ wire' \in [Ends -> Frames \cup {None}]
         /\ writer' \in [Ends -> (Streams \X {"main", "out"}) \cup {None}]
         /\ ack' = ack
         /\ \A e \in Ends : wire'[e] = wire[e] \/ Wrote(e, wire'[e])
<1> DEFINE f == [type |-> t, id |-> sid[s], body |-> b]
<1>1. at[s] \in Ends /\ sid[s] \in Ids /\ LinkTypes
  BY DEF TunnelInv, StreamTypes, StagesPlaced, Unplaced
<1>2. wire' = [wire EXCEPT ![at[s]] = f] /\ writer' = [writer EXCEPT ![at[s]] = <<s, role>>]
      /\ ack' = ack
  BY DEF WriteFrame
<1>3. f \in Frames /\ Wrote(at[s], f)
  BY <1>1 DEF Frames, Wrote
<1> HIDE DEF f
<1>4. wire'[at[s]] = f /\ \A e \in Ends : e # at[s] => wire'[e] = wire[e]
  BY <1>1, <1>2 DEF LinkTypes
<1>5. wire' \in [Ends -> Frames \cup {None}]
  BY <1>1, <1>2, <1>3 DEF LinkTypes
<1>6. writer' \in [Ends -> (Streams \X {"main", "out"}) \cup {None}]
  BY <1>1, <1>2 DEF LinkTypes
<1> QED BY <1>2, <1>3, <1>4, <1>5, <1>6

\* What the connection does in a step: new frames are written by a stream of
\* their end, and the readLoop takes them from the peer.
LinkMoves ==
  /\ wire' \in [Ends -> Frames \cup {None}]
  /\ writer' \in [Ends -> (Streams \X {"main", "out"}) \cup {None}]
  /\ ack' \in [Ends -> BOOLEAN]
  /\ \A e \in Ends : wire'[e] \in {wire[e], None} \/ Wrote(e, wire'[e])
  /\ reading' \in [Ends -> Frames \cup {None}]
  /\ \A e \in Ends : reading'[e] \in {reading[e], None, wire[Peer(e)]}
  /\ buf' \in [Ends -> Bodies \cup {None}]
  /\ \A e \in Ends : buf[e] \in Bodies => buf'[e] \in Bodies
  /\ \A e \in Ends : reading'[e] # reading[e] /\ reading'[e] # None /\ reading'[e].type = "data"
       => buf'[e] \in Bodies

\* Every step moves frames this way.
LEMMA LinkNext ==
  ASSUME TunnelInv, [Next]_vars
  PROVE  LinkMoves
<1>1. LinkTypes /\ TaskTypes /\ StagesPlaced /\ StreamTypes
  BY DEF TunnelInv
<1> USE DEF LinkTypes
<1>2. ASSUME UNCHANGED <<linkVars, readerVars>> PROVE LinkMoves
  BY <1>1, <1>2 DEF LinkMoves, linkVars, readerVars
<1>3. ASSUME NEW s \in Streams, sid[s] # 0, NEW role \in {"main", "out"},
             NEW t \in {"data", "close"}, NEW b \in Bodies \cup {None},
             t = "data" => b \in Bodies /\ b[1] = s,
             WriteFrame(s, role, t, b), UNCHANGED readerVars
      PROVE  LinkMoves
  <2>1. /\ wire' \in [Ends -> Frames \cup {None}]
        /\ writer' \in [Ends -> (Streams \X {"main", "out"}) \cup {None}]
        /\ ack' = ack
        /\ \A e \in Ends : wire'[e] = wire[e] \/ Wrote(e, wire'[e])
    BY <1>3, WriteOne
  <2>2. reading' = reading /\ buf' = buf
    BY <1>3 DEF readerVars
  <2> QED BY <1>1, <2>1, <2>2 DEF LinkMoves
<1>4. ASSUME NEW c \in Calls, CallWrite(c) PROVE LinkMoves
  <2>1. c \in Streams /\ <<c, sent[c] + 1>> \in Bodies /\ sid[c] # 0
    BY <1>1, <1>4 DEF CallWrite, TaskTypes, StagesPlaced, Unplaced, Bodies, Streams
  <2>2. WriteFrame(c, "main", "data", <<c, sent[c] + 1>>) /\ UNCHANGED readerVars
    BY <1>4 DEF CallWrite
  <2> QED BY <1>3, <2>1, <2>2
<1>5. ASSUME NEW h \in Handlers, HandlerReplySend(h) PROVE LinkMoves
  <2>1. h \in Streams /\ <<h, sent[h] + 1>> \in Bodies
    BY <1>1 DEF TaskTypes, Bodies, Streams
  <2>2. pc[h] # "free" /\ pc[h] \notin {"idle", "opening"}
    BY <1>1, <1>5 DEF HandlerReplySend, StagesPlaced, TaskTypes, HandlerStages, CloseStages
  <2>3. sid[h] # 0
    BY <1>1, <2>1, <2>2 DEF StagesPlaced, Unplaced
  <2>4. CASE tclosed[at[h]]
    BY <1>2, <1>5, <2>4 DEF HandlerReplySend
  <2>5. CASE ~tclosed[at[h]]
    <3>1. WriteFrame(h, "out", "data", <<h, sent[h] + 1>>) /\ UNCHANGED readerVars
      BY <1>5, <2>5 DEF HandlerReplySend
    <3> QED BY <1>3, <2>1, <2>3, <3>1
  <2> QED BY <2>4, <2>5
<1>6. ASSUME NEW s \in Streams, CloseSend(s) PROVE LinkMoves
  <2>1. CASE tclosed[at[s]]
    BY <1>2, <1>6, <2>1 DEF CloseSend
  <2>2. CASE ~tclosed[at[s]]
    <3>1. WriteFrame(s, "main", "close", None) /\ UNCHANGED readerVars
      BY <1>6, <2>2 DEF CloseSend
    <3>2. sid[s] # 0
      BY <1>1, <1>6 DEF CloseSend, StagesPlaced, Unplaced
    <3> QED BY <1>3, <3>1, <3>2
  <2> QED BY <2>1, <2>2
<1>7. ASSUME NEW e \in Ends, ReadFrame(e) PROVE LinkMoves
  <2> DEFINE f == wire[Peer(e)]
  <2>1. /\ f \in Frames
        /\ reading' = [reading EXCEPT ![e] = f]
        /\ buf' = [buf EXCEPT ![e] = IF f.type = "data" THEN f.body ELSE @]
        /\ wire' = [wire EXCEPT ![Peer(e)] = None]
        /\ ack' = [ack EXCEPT ![Peer(e)] = TRUE]
        /\ writer' = writer
    BY <1>1, <1>7, PeerOther DEF ReadFrame
  <2>2. f.type = "data" => f.body \in Bodies
    BY <1>7, PeerOther DEF ReadFrame, TunnelInv, FramesOwn, FrameOf
  <2>3. \A d \in Ends : wire'[d] \in {wire[d], None}
    BY <1>1, <2>1
  <2>4. wire' \in [Ends -> Frames \cup {None}] /\ ack' \in [Ends -> BOOLEAN]
    BY <1>1, <2>1
  <2>5. f \in Frames /\ \A d \in Ends : reading'[d] = IF d = e THEN f ELSE reading[d]
    BY <1>1, <2>1
  <2>6. \A d \in Ends : buf'[d] = IF d = e /\ f.type = "data" THEN f.body ELSE buf[d]
    BY <1>1, <2>1
  <2>7. buf' \in [Ends -> Bodies \cup {None}] /\ reading' \in [Ends -> Frames \cup {None}]
    BY <1>1, <2>1, <2>2
  <2> QED BY <1>1, <2>1, <2>2, <2>3, <2>4, <2>5, <2>6, <2>7 DEF LinkMoves
<1>8. ASSUME NEW e \in Ends, ReadAck(e) \/ CloseTunnel(e) PROVE LinkMoves
  <2>1. /\ UNCHANGED <<wire, reading, buf>>
        /\ ack' \in [Ends -> BOOLEAN]
        /\ writer' = [writer EXCEPT ![e] = None]
    BY <1>1, <1>8 DEF ReadAck, CloseTunnel, readerVars
  <2> QED BY <1>1, <2>1 DEF LinkMoves
<1>9. ASSUME NEW e \in Ends, Dispatch(e) PROVE LinkMoves
  <2>1. /\ UNCHANGED <<wire, writer, ack, buf>>
        /\ reading' = [reading EXCEPT ![e] = None]
    BY <1>9 DEF Dispatch, DispatchNew, DispatchData, DispatchClose, Dispatched, linkVars
  <2> QED BY <1>1, <2>1 DEF LinkMoves
<1>10. ASSUME NEW c \in Calls, \/ \E e \in Ends : CallStart(c, e)
                               \/ CallOpen(c) \/ CallWriteFails(c) \/ CallWritten(c) \/ CallRead(c)
       PROVE  LinkMoves
  BY <1>2, <1>10 DEF CallStart, CallOpen, CallWriteFails, CallWritten, CallRead
<1>11. ASSUME NEW h \in Handlers, \/ \E ok \in BOOLEAN : HandlerDial(h, ok)
                                  \/ HandlerInitial(h) \/ HandlerCopyIn(h) \/ HandlerReply(h)
                                  \/ HandlerReplied(h) \/ HandlerTargetEnds(h)
       PROVE  LinkMoves
  BY <1>2, <1>11 DEF HandlerDial, HandlerInitial, HandlerCopyIn, HandlerReply, HandlerReplied,
                     HandlerTargetEnds
<1>12. ASSUME NEW s \in Streams, CloseBegin(s) \/ CloseRelease(s) PROVE LinkMoves
  BY <1>2, <1>12 DEF CloseBegin, CloseRelease
<1>13. ASSUME UNCHANGED vars PROVE LinkMoves
  BY <1>2, <1>13 DEF vars
<1> QED
  BY NextCases, <1>4, <1>5, <1>6, <1>7, <1>8, <1>9, <1>10, <1>11, <1>12, <1>13 DEF Dispatch

\* The types of the connection.
LEMMA LinkTypesNext ==
  ASSUME TunnelInv, [Next]_vars
  PROVE  LinkTypes'
  BY LinkNext DEF LinkMoves, LinkTypes

\* A frame keeps belonging to the stream that wrote it.
LEMMA FramesNext ==
  ASSUME TunnelInv, [Next]_vars
  PROVE  FramesOwn'
<1>1. \A s \in Streams : /\ at[s] # None => at'[s] = at[s]
                         /\ sid[s] # 0 => sid'[s] = sid[s]
  BY PlacesFinal
<1>2. \A e \in Ends, f \in Frames : FrameOf(e, f) =>
        /\ f.id # 0 /\ \E c \in Calls : sid'[c] = f.id
        /\ f.type = "data" =>
             f.body \in Bodies /\ at'[f.body[1]] = e /\ sid'[f.body[1]] = f.id
  <2> TAKE e \in Ends, f \in Frames
  <2> HAVE FrameOf(e, f)
  <2>1. f.id # 0 /\ \E c \in Calls : sid'[c] = f.id
    BY <1>1 DEF FrameOf, Issued, Streams
  <2>2. ASSUME f.type = "data"
        PROVE  f.body \in Bodies /\ at'[f.body[1]] = e /\ sid'[f.body[1]] = f.id
    <3>1. f.body \in Bodies /\ at[f.body[1]] = e /\ sid[f.body[1]] = f.id
      BY <2>2 DEF FrameOf
    <3>2. f.body[1] \in Streams
      BY <3>1 DEF Bodies
    <3> QED BY <1>1, <2>1, <3>1, <3>2, TunnelAssumption
  <2> QED BY <2>1, <2>2
<1>3. \A e \in Ends, f \in Frames : Wrote(e, f) => FrameOf(e, f)
  <2> SUFFICES ASSUME NEW e \in Ends, NEW f \in Frames, Wrote(e, f) PROVE FrameOf(e, f)
    OBVIOUS
  <2>1. PICK s \in Streams, t \in {"data", "close"}, b \in Bodies \cup {None} :
          /\ at[s] = e /\ sid[s] # 0
          /\ f = [type |-> t, id |-> sid[s], body |-> b]
          /\ t = "data" => b \in Bodies /\ b[1] = s
    BY DEF Wrote
  <2>2. Issued(sid[s])
    BY <2>1, AllIssued
  <2> QED BY <2>1, <2>2 DEF FrameOf
<1>4. LinkMoves /\ LinkTypes /\ FramesOwn
  BY LinkNext DEF TunnelInv
<1>5. ASSUME NEW e \in Ends, wire'[e] # None
      PROVE  FrameOf(e, wire'[e]) /\ wire'[e] \in Frames
  BY <1>3, <1>4, <1>5 DEF LinkMoves, LinkTypes, FramesOwn
<1>6. ASSUME NEW e \in Ends, reading'[e] # None
      PROVE  FrameOf(Peer(e), reading'[e]) /\ reading'[e] \in Frames /\ Peer(e) \in Ends
  BY <1>4, <1>6, PeerOther DEF LinkMoves, LinkTypes, FramesOwn
<1> QED BY <1>2, <1>5, <1>6 DEF FramesOwn, FrameOf, Issued

--------------------------------------------------------------------------------
(* Payloads.                                                               *)

\* What the dispatch of a data frame puts into a stream comes from the stream of
\* the same ID at the other end.
LEMMA DispatchedFromPeer ==
  ASSUME TunnelInv, NEW e \in Ends, DispatchData(e)
  PROVE  LET r == Receiver(e)
             b == reading[e].body
         IN  /\ r \in Streams /\ b \in Bodies /\ FromPeer(r, b)
             /\ readBuf' = [readBuf EXCEPT ![r] = Append(readBuf[r], b)]
<1>1. StreamTypes /\ EntriesOwn /\ FramesOwn /\ LinkTypes
  BY DEF TunnelInv
<1>2. /\ reading[e] # None /\ reading[e].type = "data" /\ Receiver(e) # None
      /\ readBuf' = [readBuf EXCEPT ![Receiver(e)] = Append(@, reading[e].body)]
  BY DEF DispatchData, Dispatched
<1>3. FrameOf(Peer(e), reading[e]) /\ reading[e].id \in Ids
  BY <1>1, <1>2 DEF FramesOwn, LinkTypes, Frames
<1>4. Receiver(e) \in Streams /\ at[Receiver(e)] = e /\ sid[Receiver(e)] = reading[e].id
  BY <1>1, <1>2, <1>3 DEF Receiver, StreamTypes, EntriesOwn
<1>5. e # None /\ reading[e].id # 0
  BY <1>3, TunnelAssumption DEF FrameOf, Issued
<1>6. LET b == reading[e].body
      IN  b \in Bodies /\ at[b[1]] = Peer(e) /\ sid[b[1]] = reading[e].id
  BY <1>2, <1>3 DEF FrameOf
<1>7. FromPeer(Receiver(e), reading[e].body)
  BY <1>4, <1>5, <1>6 DEF FromPeer
<1> QED BY <1>2, <1>4, <1>6, <1>7

\* The payloads that wait in a stream, and where they come from.
LEMMA BuffersNext ==
  ASSUME TunnelInv, [Next]_vars
  PROVE  readBuf' \in [Streams -> Seq(Bodies)] /\ BuffersOwn'
<1>1. StreamTypes /\ StagesPlaced /\ PayloadTypes /\ BuffersOwn
  BY DEF TunnelInv
<1> DEFINE Moves == /\ readBuf' \in [Streams -> Seq(Bodies)]
                    /\ \A s \in Streams : \A i \in 1..Len(readBuf'[s]) : FromPeer(s, readBuf'[s][i])
<1>2. ASSUME UNCHANGED readBuf PROVE Moves
  BY <1>1, <1>2 DEF PayloadTypes, BuffersOwn
<1>3. ASSUME NEW s \in Streams, readBuf[s] # << >>,
             readBuf' = [readBuf EXCEPT ![s] = Tail(readBuf[s])]
      PROVE  Moves
  <2>1. /\ readBuf[s] \in Seq(Bodies) /\ Tail(readBuf[s]) \in Seq(Bodies)
        /\ Len(Tail(readBuf[s])) = Len(readBuf[s]) - 1
        /\ \A i \in 1..(Len(readBuf[s]) - 1) : Tail(readBuf[s])[i] = readBuf[s][i + 1]
    BY <1>1, <1>3, HeadTailProperties DEF PayloadTypes
  <2>2. readBuf' \in [Streams -> Seq(Bodies)]
    BY <1>1, <1>3, <2>1 DEF PayloadTypes
  <2>3. readBuf'[s] = Tail(readBuf[s]) /\ \A r \in Streams : r # s => readBuf'[r] = readBuf[r]
    BY <1>1, <1>3 DEF PayloadTypes
  <2>4. \A i \in 1..Len(Tail(readBuf[s])) : FromPeer(s, Tail(readBuf[s])[i])
    <3> TAKE i \in 1..Len(Tail(readBuf[s]))
    <3>1. i + 1 \in 1..Len(readBuf[s]) /\ Tail(readBuf[s])[i] = readBuf[s][i + 1]
      BY <2>1
    <3> QED BY <1>1, <3>1 DEF BuffersOwn
  <2> QED BY <1>1, <2>2, <2>3, <2>4 DEF BuffersOwn
<1>4. ASSUME NEW e \in Ends, DispatchData(e) PROVE Moves
  <2> DEFINE r == Receiver(e)
             b == reading[e].body
  <2>1. /\ r \in Streams /\ b \in Bodies /\ FromPeer(r, b)
        /\ readBuf' = [readBuf EXCEPT ![r] = Append(readBuf[r], b)]
    BY <1>4, DispatchedFromPeer
  <2> HIDE DEF r, b
  <2>2. /\ readBuf[r] \in Seq(Bodies) /\ Append(readBuf[r], b) \in Seq(Bodies)
        /\ Len(Append(readBuf[r], b)) = Len(readBuf[r]) + 1
        /\ \A i \in 1..Len(readBuf[r]) : Append(readBuf[r], b)[i] = readBuf[r][i]
        /\ Append(readBuf[r], b)[Len(readBuf[r]) + 1] = b
        /\ Len(readBuf[r]) \in Nat
    BY <1>1, <2>1, AppendProperties DEF PayloadTypes
  <2>3. readBuf' \in [Streams -> Seq(Bodies)]
    BY <1>1, <2>1, <2>2 DEF PayloadTypes
  <2>4. /\ readBuf'[r] = Append(readBuf[r], b)
        /\ \A s \in Streams : s # r => readBuf'[s] = readBuf[s]
    BY <1>1, <2>1 DEF PayloadTypes
  <2>5. \A i \in 1..Len(Append(readBuf[r], b)) : FromPeer(r, Append(readBuf[r], b)[i])
    <3> TAKE i \in 1..Len(Append(readBuf[r], b))
    <3>1. i \in 1..Len(readBuf[r]) \/ i = Len(readBuf[r]) + 1
      BY <2>2
    <3> QED BY <1>1, <2>1, <2>2, <3>1 DEF BuffersOwn
  <2> QED BY <1>1, <2>3, <2>4, <2>5 DEF BuffersOwn
<1>5. ASSUME NEW c \in Calls, CallRead(c) PROVE Moves
  <2>1. c \in Streams /\ readBuf' = [readBuf EXCEPT ![c] = IF @ = << >> THEN @ ELSE Tail(@)]
    BY <1>5 DEF CallRead, Streams
  <2>2. CASE readBuf[c] = << >>
    <3>1. readBuf' = readBuf
      BY <1>1, <2>1, <2>2 DEF PayloadTypes
    <3> QED BY <1>2, <3>1
  <2>3. CASE readBuf[c] # << >>
    BY <1>3, <2>1, <2>3
  <2> QED BY <2>2, <2>3
<1>6. ASSUME NEW h \in Handlers, HandlerCopyIn(h) PROVE Moves
  <2>1. CASE readBuf[h] = << >>
    BY <1>2, <1>6, <2>1 DEF HandlerCopyIn
  <2>2. CASE readBuf[h] # << >>
    <3>1. h \in Streams /\ readBuf' = [readBuf EXCEPT ![h] = Tail(readBuf[h])]
      BY <1>6, <2>2 DEF HandlerCopyIn, Streams
    <3> QED BY <1>3, <2>2, <3>1
  <2> QED BY <2>1, <2>2
<1>7. Moves
  <2>1. \/ \E c \in Calls : CallRead(c)
        \/ \E h \in Handlers : HandlerCopyIn(h)
        \/ \E e \in Ends : DispatchData(e)
        \/ UNCHANGED readBuf
    BY NextCases DEF CallStart, CallOpen, CallWrite, CallWriteFails, CallWritten,
       HandlerDial, HandlerInitial, HandlerReply, HandlerReplySend,
       HandlerReplied, HandlerTargetEnds, CloseBegin, CloseSend, CloseRelease, ReadFrame,
       ReadAck, DispatchNew, DispatchClose, CloseTunnel, vars, streamVars
  <2> HIDE DEF Moves
  <2> QED BY <1>2, <1>4, <1>5, <1>6, <2>1
<1>8. ASSUME NEW s \in Streams, NEW i \in 1..Len(readBuf'[s])
      PROVE  /\ at'[s] # None /\ sid'[s] # 0
             /\ at'[readBuf'[s][i][1]] = Peer(at'[s]) /\ sid'[readBuf'[s][i][1]] = sid'[s]
  <2>1. FromPeer(s, readBuf'[s][i]) /\ readBuf'[s] \in Seq(Bodies)
    BY <1>7
  <2>2. readBuf'[s][i] \in Bodies
    BY <2>1, ElementOfSeq
  <2> DEFINE a == readBuf'[s][i][1]
  <2>3. a \in Streams
    BY <2>2 DEF Bodies
  <2>4. at[s] # None /\ sid[s] # 0 /\ at[a] = Peer(at[s]) /\ sid[a] = sid[s]
    BY <2>1 DEF FromPeer
  <2>5. at[a] # None
    BY <1>1, <2>4, PeerOther, TunnelAssumption DEF StreamTypes
  <2>6. at'[s] = at[s] /\ sid'[s] = sid[s] /\ at'[a] = at[a] /\ sid'[a] = sid[a]
    BY <2>3, <2>4, <2>5, PlacesFinal
  <2> HIDE DEF a
  <2>7. at'[s] # None /\ sid'[s] # 0 /\ at'[a] = Peer(at'[s]) /\ sid'[a] = sid'[s]
    BY <2>4, <2>6
  <2> QED BY <2>7 DEF a
<1> HIDE DEF Moves
<1>9. BuffersOwn'
  BY <1>8 DEF BuffersOwn, FromPeer
<1>10. readBuf' \in [Streams -> Seq(Bodies)]
  BY <1>7 DEF Moves
<1> QED BY <1>9, <1>10

\* The readLoop's buffer holds a payload before a handler of its end exists.
LEMMA BufferNext ==
  ASSUME TunnelInv, [Next]_vars
  PROVE  BufferFilled'
<1>1. StreamTypes /\ TaskTypes /\ BufferFilled /\ LinkMoves
  BY LinkNext DEF TunnelInv
<1>2. \A e \in Ends : reading'[e] # None /\ reading'[e].type = "data" => buf'[e] \in Bodies
  BY <1>1 DEF LinkMoves, BufferFilled
<1>3. ASSUME NEW h \in Handlers, at'[h] # None PROVE buf'[at'[h]] \in Bodies
  <2>1. CASE at[h] # None
    <3>1. at'[h] = at[h] /\ at[h] \in Ends
      BY <1>1, <2>1, PlacesFinal DEF StreamTypes, Streams
    <3> QED BY <1>1, <1>3, <2>1, <3>1 DEF LinkMoves, BufferFilled
  <2>2. CASE at[h] = None
    <3>1. PICK e \in Ends : DispatchNew(e, h)
      <4>1. \A c \in Calls, e \in Ends : CallStart(c, e) => at'[h] = at[h]
        BY <1>1, TunnelAssumption DEF CallStart, StreamTypes, Streams
      <4>2. \A e \in Ends, g \in Handlers : DispatchNew(e, g) /\ g # h => at'[h] = at[h]
        BY <1>1 DEF DispatchNew, StreamTypes, Streams
      <4>3. at'[h] # at[h]
        BY <1>3, <2>2
      <4> QED BY <1>1, <4>1, <4>2, <4>3, MapMoves DEF MapSame, CallOpen, CloseBegin,
                 CloseRelease, DispatchClose, CloseTunnel, streamVars
    <3>2. at'[h] = e /\ buf[e] \in Bodies
      BY <1>1, <3>1 DEF DispatchNew, Dispatched, BufferFilled, StreamTypes, Streams
    <3> QED BY <1>1, <3>2 DEF LinkMoves
  <2> QED BY <2>1, <2>2
<1> QED BY <1>2, <1>3 DEF BufferFilled

\* A target is given payloads and nothing else.
LEMMA TargetNext ==
  ASSUME TunnelInv, [Next]_vars
  PROVE  target' \in [Handlers -> Seq(Bodies)]
<1>1. StreamTypes /\ StagesPlaced /\ PayloadTypes /\ BufferFilled
  BY DEF TunnelInv
<1>2. ASSUME NEW h \in Handlers, NEW b \in Bodies,
             target' = [target EXCEPT ![h] = Append(target[h], b)]
      PROVE  target' \in [Handlers -> Seq(Bodies)]
  <2>1. Append(target[h], b) \in Seq(Bodies)
    BY <1>1, AppendProperties DEF PayloadTypes
  <2> QED BY <1>1, <1>2, <2>1 DEF PayloadTypes
<1>3. ASSUME NEW h \in Handlers, HandlerInitial(h) PROVE target' \in [Handlers -> Seq(Bodies)]
  <2>1. at[h] # None
    BY <1>1, <1>3 DEF HandlerInitial, StagesPlaced, Streams
  <2>2. buf[at[h]] \in Bodies
    BY <1>1, <2>1 DEF BufferFilled
  <2> QED BY <1>2, <1>3, <2>2 DEF HandlerInitial
<1>4. ASSUME NEW h \in Handlers, HandlerCopyIn(h) PROVE target' \in [Handlers -> Seq(Bodies)]
  <2>1. CASE readBuf[h] = << >>
    BY <1>1, <1>4, <2>1 DEF HandlerCopyIn, PayloadTypes
  <2>2. CASE readBuf[h] # << >>
    <3>1. target' = [target EXCEPT ![h] = Append(target[h], Head(readBuf[h]))]
      BY <1>4, <2>2 DEF HandlerCopyIn
    <3>2. Head(readBuf[h]) \in Bodies
      BY <1>1, <2>2, HeadTailProperties DEF PayloadTypes, Streams
    <3> QED BY <1>2, <3>1, <3>2
  <2> QED BY <2>1, <2>2
<1>5. CASE UNCHANGED target
  BY <1>1, <1>5 DEF PayloadTypes
<1>6. \/ \E h \in Handlers : HandlerInitial(h)
      \/ \E h \in Handlers : HandlerCopyIn(h)
      \/ UNCHANGED target
  BY NextCases DEF CallStart, CallOpen, CallWrite, CallWriteFails, CallWritten, CallRead,
     HandlerDial, HandlerReply, HandlerReplySend, HandlerReplied, HandlerTargetEnds,
     CloseBegin, CloseSend, CloseRelease, ReadFrame, ReadAck, DispatchNew, DispatchData,
     DispatchClose, Dispatched, CloseTunnel, vars, taskVars
<1> QED BY <1>3, <1>4, <1>5, <1>6

--------------------------------------------------------------------------------
(* The theorems.                                                           *)

\* The inductive invariant holds in every reachable state.
THEOREM TunnelInvariant == Spec => []TunnelInv
<1>1. TunnelInv /\ [Next]_vars => TunnelInv'
  <2> SUFFICES ASSUME TunnelInv, [Next]_vars PROVE TunnelInv'
    OBVIOUS
  <2>1. PayloadTypes' /\ BuffersOwn' /\ BufferFilled'
    BY BuffersNext, TargetNext, BufferNext DEF PayloadTypes
  <2>2. StreamTypes' /\ TaskTypes' /\ LinkTypes'
    BY StreamTypesNext, TaskTypesNext, LinkTypesNext
  <2>3. StagesPlaced' /\ EntriesOwn' /\ MapExact' /\ IdsIssued' /\ FramesOwn'
    BY StagesNext, MapNext, IdsNext, FramesNext
  <2> QED BY <2>1, <2>2, <2>3 DEF TunnelInv
<1> QED BY TunnelInit, <1>1, PTL DEF Spec

\* Type correctness of both ends, the goroutines and the connection.
THEOREM TypeCorrect == Spec => []TypeOK
<1>1. TunnelInv => TypeOK
  <2> SUFFICES ASSUME TunnelInv PROVE TypeOK
    OBVIOUS
  <2>1. \A s \in Streams : \A i \in 1..Len(readBuf[s]) : readBuf[s][i] \in Bodies
    BY ElementOfSeq DEF TunnelInv, PayloadTypes
  <2>2. \A h \in Handlers : \A i \in 1..Len(target[h]) : target[h][i] \in Bodies
    BY ElementOfSeq DEF TunnelInv, PayloadTypes
  <2>3. StreamTypes /\ TaskTypes /\ LinkTypes
    BY DEF TunnelInv
  <2> QED BY <2>1, <2>2, <2>3 DEF StreamTypes, TaskTypes, LinkTypes, TypeOK
<1> QED BY TunnelInvariant, <1>1, PTL

\* The streams map of a live tunnel end holds exactly the streams that are open or
\* closing: release never removes another stream's entry and leaves none behind.
THEOREM MapsExact == Spec => []StreamsMapExact
<1>1. TunnelInv => StreamsMapExact
  BY DEF TunnelInv, MapExact, Closing, StreamsMapExact
<1> QED BY TunnelInvariant, <1>1, PTL

\* What DoHTTPRequest reads was written by the peer's handler of its own stream.
THEOREM ResponsesOwn == Spec => []ResponsesMatchRequests
<1>1. ASSUME TunnelInv, NEW c \in Calls, NEW i \in 1..Len(readBuf[c])
      PROVE  /\ readBuf[c][i][1] \in Handlers
             /\ sid[readBuf[c][i][1]] = sid[c]
             /\ at[readBuf[c][i][1]] = Peer(at[c])
  <2> DEFINE a == readBuf[c][i][1]
  <2>1. c \in Streams
    BY DEF Streams
  <2>2. at[c] # None /\ sid[c] # 0 /\ at[a] = Peer(at[c]) /\ sid[a] = sid[c]
    BY <1>1, <2>1 DEF TunnelInv, BuffersOwn, FromPeer
  <2>3. readBuf[c][i] \in Bodies
    BY <1>1, <2>1, ElementOfSeq DEF TunnelInv, PayloadTypes
  <2>4. a \in Streams
    BY <2>3 DEF Bodies
  <2>5. at[c] \in Ends
    BY <1>1, <2>1, <2>2 DEF TunnelInv, StreamTypes
  <2> HIDE DEF a
  <2>6. a \notin Calls
    <3> SUFFICES ASSUME a \in Calls PROVE FALSE
      OBVIOUS
    <3>1. OwnParity(at[a], sid[a]) /\ OwnParity(at[c], sid[c])
      BY <1>1, <2>2 DEF TunnelInv, IdsIssued
    <3>2. Peer(at[c]) # at[c] /\ (Controlling = at[c] \/ Controlling = Peer(at[c]))
      BY <2>5, PeerOther, TunnelAssumption
    <3> QED BY <2>2, <3>1, <3>2 DEF OwnParity
  <2>7. a \in Handlers
    BY <2>4, <2>6 DEF Streams
  <2> QED BY <2>2, <2>7 DEF a
<1>2. TunnelInv => ResponsesMatchRequests
  BY <1>1 DEF ResponsesMatchRequests
<1> QED BY TunnelInvariant, <1>2, PTL
================================================================================

--------------------------- MODULE StreamRelay_proofs ---------------------------
(***************************************************************************)
(* Proofs about StreamRelay for any mix of exchanges and carriers and any  *)
(* number of informational answers.                                        *)
(***************************************************************************)
EXTENDS StreamRelay, SequenceTheorems, TLAPS

\* What may be on its way or have arrived: the bytes behind an upgrade request
\* only once the near relay has sent them, a 101 only once it was given.
Allowed ==
  {t \in Tokens : (t = "extra" => extra = "sent") /\ (t = "101" => "101" \in answered)}

\* What is on its way to each end, over a set of tokens.
Pipes(S) == [Ends -> Seq(S)]

\* The types of what decides about the withheld bytes.
RelayTypes ==
  /\ kind \in AllKinds
  /\ near \in {"start", "hand", "relay", "done"} /\ far \in {"start", "relay", "done"}
  /\ copy \in [Copies -> {"off", "run", "ok", "err"}]
  /\ end \in [Ends -> {"open", "shut", "closed"}]

\* Before the stream's header is written nothing is relayed, and what was read
\* from the user already is still held.
NotBegun ==
  near = "start" => /\ far = "start" /\ \A c \in Copies : copy[c] = "off"
                    /\ kind \in {"h1", "upgrade", "udp"} => pipe["NO"] # <<>>

\* While the handshake is awaited the bytes behind the request are held.
HeldUntilRelay == near \in {"start", "hand"} => extra # "sent"

\* They are sent for a 101 of the application.
SentAfter101 == extra = "sent" => "101" \in answered

\* The inductive invariant.
RelayInv ==
  /\ RelayTypes
  /\ NotBegun
  /\ HeldUntilRelay
  /\ SentAfter101
  /\ pipe \in Pipes(Allowed)
  /\ seen \subseteq Allowed

\* A step that neither answers nor ends the handshake keeps all of it if it
\* passes on only what is allowed.
Keeps ==
  /\ RelayTypes' /\ NotBegun'
  /\ UNCHANGED <<extra, answered>>
  /\ near' \in {"start", "hand"} => near \in {"start", "hand"}
  /\ pipe' \in Pipes(Allowed)
  /\ seen' \subseteq Allowed

--------------------------------------------------------------------------------
(* What the helpers on connections do.                                       *)

\* The ends of a connection are two of the six.
LEMMA PeerTyped ==
  /\ \A e \in Ends : Peer[e] \in Ends /\ Peer[e] # e
  /\ \A c \in Copies : Src[c] \in Ends /\ Dst[c] \in Ends /\ Side[c] \in {"near", "far"}
  /\ \A s \in {"near", "far"} : Own(s) \subseteq Ends
  /\ Peer["V"] = "NO" /\ Peer["NO"] = "V" /\ Peer["A"] = "FT" /\ Peer["NS"] = "FS" /\ Peer["FS"] = "NS"
  /\ {"V", "NO", "NS", "FS", "FT", "A"} \subseteq Ends
  BY DEF Peer, Ends, Copies, Src, Dst, Side, Own

\* Ends, requests, datagrams and ordinary answers are always allowed.
LEMMA PlainAllowed == {"req", "fin", "resp", "103", "200"} \subseteq Allowed /\ Allowed \subseteq Tokens
  BY DEF Allowed, Tokens

\* Reading and writing keep a pipe's contents within the set they came from.
LEMMA SeqSteps ==
  ASSUME NEW S, NEW s \in Seq(S)
  PROVE  /\ <<>> \in Seq(S)
         /\ \A t \in S : Append(s, t) \in Seq(S) /\ Append(s, t) # <<>>
         /\ s # <<>> => Head(s) \in S /\ Tail(s) \in Seq(S)
<1>1. <<>> \in Seq(S)
  BY EmptySeq
<1>2. ASSUME NEW t \in S PROVE Append(s, t) \in Seq(S) /\ Append(s, t) # <<>>
  BY AppendProperties
<1>3. s # <<>> => Head(s) \in S /\ Tail(s) \in Seq(S)
  BY HeadTailProperties
<1> QED BY <1>1, <1>2, <1>3

\* Reading from a pipe.
LEMMA Taken ==
  ASSUME NEW S, NEW p \in Pipes(S), NEW e \in Ends, p[e] # <<>>
  PROVE  [p EXCEPT ![e] = Tail(@)] \in Pipes(S) /\ Head(p[e]) \in S
<1>1. p[e] \in Seq(S)
  BY DEF Pipes
<1>2. Head(p[e]) \in S /\ Tail(p[e]) \in Seq(S)
  BY <1>1, SeqSteps
<1> QED BY <1>2 DEF Pipes

\* Writing to the other end of a connection.
LEMMA Delivered ==
  ASSUME NEW S, NEW p \in Pipes(S), NEW e \in Ends, NEW t \in S
  PROVE  /\ Deliver(p, e, t) \in Pipes(S)
         /\ \A x \in Ends : Deliver(p, e, t)[x] = p[x] \/ Deliver(p, e, t)[x] # <<>>
<1>1. Peer[e] \in Ends /\ p[Peer[e]] \in Seq(S)
  BY PeerTyped DEF Pipes
<1>2. Append(p[Peer[e]], t) \in Seq(S) /\ Append(p[Peer[e]], t) # <<>>
  BY <1>1, SeqSteps
<1> QED BY <1>1, <1>2 DEF Deliver, Pipes

\* Ending pipes, with a word to their readers or without.
LEMMA Told ==
  ASSUME NEW S, NEW p \in Pipes(S), NEW E, "fin" \in S
  PROVE  /\ EndsTold(p, E) \in Pipes(S)
         /\ \A x \in Ends : x \notin E => EndsTold(p, E)[x] = p[x] \/ EndsTold(p, E)[x] # <<>>
<1>1. ASSUME NEW e \in Ends PROVE /\ EndsTold(p, E)[e] \in Seq(S)
                                  /\ e \notin E => EndsTold(p, E)[e] = p[e] \/ EndsTold(p, E)[e] # <<>>
  <2>1. p[e] \in Seq(S)
    BY DEF Pipes
  <2>2. /\ <<>> \in Seq(S)
        /\ Append(p[e], "fin") \in Seq(S) /\ Append(p[e], "fin") # <<>>
    BY <2>1, SeqSteps
  <2>3. EndsTold(p, E)[e] \in {<<>>, p[e], Append(p[e], "fin")} /\ (e \notin E => EndsTold(p, E)[e] \in {p[e], Append(p[e], "fin")})
    BY DEF EndsTold
  <2> QED BY <2>1, <2>2, <2>3
<1>2. EndsTold(p, E) = [e \in Ends |-> EndsTold(p, E)[e]]
  BY DEF EndsTold
<1> QED BY <1>1, <1>2 DEF Pipes

\* Closing ends keeps them typed.
LEMMA ClosedTyped ==
  ASSUME end \in [Ends -> {"open", "shut", "closed"}], NEW E, NEW st \in [Ends -> {"open", "shut", "closed"}]
  PROVE  EndsClosed(E, st) \in [Ends -> {"open", "shut", "closed"}]
  BY DEF EndsClosed

\* However a relay closes its connections, the ends stay typed and nothing but
\* an end is written.
LEMMA SideCloses ==
  ASSUME RelayInv, NEW s \in {"near", "far"}, CloseAll(s, pipe) \/ CloseBoth(s, pipe) \/ CloseSide(s, pipe)
  PROVE  end' \in [Ends -> {"open", "shut", "closed"}] /\ pipe' \in Pipes(Allowed)
<1>1. \/ CloseAll(s, pipe) \/ CloseBoth(s, pipe)
  BY DEF CloseSide
<1>2. end' \in [Ends -> {"open", "shut", "closed"}]
  BY <1>1, ClosedTyped DEF CloseAll, CloseBoth, RelayInv, RelayTypes
<1>3. pipe' = EndsTold(pipe, Own(s))
  BY <1>1 DEF CloseAll, CloseBoth
<1>4. EndsTold(pipe, Own(s)) \in Pipes(Allowed)
  BY Told, PlainAllowed DEF RelayInv
<1> QED BY <1>2, <1>3, <1>4

\* The same for the end of one direction.
LEMMA WriteCloses ==
  ASSUME RelayInv, NEW e \in Ends, CloseWrite(e, pipe)
  PROVE  /\ end' \in [Ends -> {"open", "shut", "closed"}] /\ pipe' \in Pipes(Allowed)
         /\ \A x \in Ends : x # e => pipe'[x] = pipe[x] \/ pipe'[x] # <<>>
<1>1. end' \in [Ends -> {"open", "shut", "closed"}]
  BY ClosedTyped DEF CloseWrite, RelayInv, RelayTypes
<1>2. pipe' = EndsTold(pipe, {e})
  BY DEF CloseWrite
<1>3. /\ EndsTold(pipe, {e}) \in Pipes(Allowed)
      /\ \A x \in Ends : x \notin {e} => EndsTold(pipe, {e})[x] = pipe[x] \/ EndsTold(pipe, {e})[x] # <<>>
  BY Told, PlainAllowed DEF RelayInv
<1> QED BY <1>1, <1>2, <1>3

--------------------------------------------------------------------------------
(* Steps.                                                                    *)

\* A new exchange.
LEMMA RelayInit == Init => RelayInv
<1> SUFFICES ASSUME Init PROVE RelayInv
  OBVIOUS
<1>1. RelayTypes
  BY RelayAssumption DEF Init, RelayTypes
<1>2. "req" \in Allowed /\ pipe \in Pipes(Allowed)
  <2>1. "req" \in Allowed
    BY PlainAllowed
  <2>2. <<>> \in Seq(Allowed) /\ <<"req">> \in Seq(Allowed)
    BY <2>1, EmptySeq
  <2> QED BY <2>1, <2>2 DEF Init, Pipes
<1>3. NotBegun
  BY DEF Init, NotBegun, Ends
<1>4. HeldUntilRelay /\ SentAfter101 /\ seen \subseteq Allowed
  BY DEF Init, HeldUntilRelay, SentAfter101
<1> QED BY <1>1, <1>2, <1>3, <1>4 DEF RelayInv

\* Keeping what is allowed keeps the invariant.
LEMMA KeepsInv == RelayInv /\ Keeps => RelayInv'
<1> SUFFICES ASSUME RelayInv, Keeps PROVE RelayInv'
  OBVIOUS
<1>1. Allowed' = Allowed
  BY DEF Keeps, Allowed
<1>2. HeldUntilRelay' /\ SentAfter101'
  BY DEF Keeps, RelayInv, HeldUntilRelay, SentAfter101
<1> QED BY <1>1, <1>2 DEF Keeps, RelayInv, Pipes

\* The user and the target: what they write is allowed, what they read was.
LEMMA UsersKeep ==
  ASSUME RelayInv, Ask \/ HalfClose \/ Leave \/ Hear \/ UserEnds \/ TargetReads \/ TargetEnds
  PROVE  Keeps
<1>1. RelayTypes /\ NotBegun /\ pipe \in Pipes(Allowed) /\ seen \subseteq Allowed
  BY DEF RelayInv
<1> USE PeerTyped
<1>2. ASSUME UNCHANGED <<kind, near, far, copy, extra, answered>>, end' \in [Ends -> {"open", "shut", "closed"}],
             pipe' \in Pipes(Allowed), seen' \subseteq Allowed, pipe'["NO"] = pipe["NO"] \/ pipe'["NO"] # <<>>
      PROVE  Keeps
  BY <1>1, <1>2 DEF Keeps, RelayTypes, NotBegun
<1>3. CASE Ask
  <2>1. pipe' = Deliver(pipe, "V", "req") /\ UNCHANGED <<kind, near, far, copy, end, extra, answered, seen>>
    BY <1>3 DEF Ask
  <2>2. Deliver(pipe, "V", "req") \in Pipes(Allowed) /\ \A x \in Ends : Deliver(pipe, "V", "req")[x] = pipe[x] \/ Deliver(pipe, "V", "req")[x] # <<>>
    BY <1>1, Delivered, PlainAllowed
  <2> QED BY <1>1, <1>2, <2>1, <2>2 DEF RelayTypes
<1>4. CASE HalfClose
  <2>1. UNCHANGED <<kind, near, far, copy, extra, answered, seen>> /\ CloseWrite("V", pipe)
    BY <1>4 DEF HalfClose, userVars
  <2> QED BY <1>1, <1>2, <2>1, WriteCloses
<1>5. CASE Leave \/ UserEnds
  <2>1. /\ UNCHANGED <<kind, near, far, copy, extra, answered, seen>>
        /\ end' = [end EXCEPT !["V"] = "closed"] /\ pipe' = EndsTold(pipe, {"V"})
    BY <1>5 DEF Leave, UserEnds, userVars
  <2>2. end' \in [Ends -> {"open", "shut", "closed"}]
    BY <1>1, <2>1 DEF RelayTypes
  <2>3. /\ EndsTold(pipe, {"V"}) \in Pipes(Allowed)
        /\ \A x \in Ends : x \notin {"V"} => EndsTold(pipe, {"V"})[x] = pipe[x] \/ EndsTold(pipe, {"V"})[x] # <<>>
    BY <1>1, Told, PlainAllowed
  <2> QED BY <1>1, <1>2, <2>1, <2>2, <2>3
<1>6. CASE Hear
  <2>1. /\ UNCHANGED <<kind, near, far, copy, end, extra, answered, seen>>
        /\ pipe["V"] # <<>> /\ pipe' = [pipe EXCEPT !["V"] = Tail(@)]
    BY <1>6 DEF Hear, HasData
  <2>2. pipe' \in Pipes(Allowed) /\ pipe'["NO"] = pipe["NO"]
    BY <1>1, <2>1, Taken DEF Pipes
  <2> QED BY <1>1, <1>2, <2>1, <2>2 DEF RelayTypes
<1>7. CASE TargetReads
  <2>1. /\ UNCHANGED <<kind, near, far, copy, end, extra, answered>> /\ seen' = seen \cup {Head(pipe["A"])}
        /\ pipe["A"] # <<>> /\ pipe' = [pipe EXCEPT !["A"] = Tail(@)]
    BY <1>7 DEF TargetReads, HasData
  <2>2. pipe' \in Pipes(Allowed) /\ pipe'["NO"] = pipe["NO"] /\ seen' \subseteq Allowed
    BY <1>1, <2>1, Taken DEF Pipes
  <2> QED BY <1>1, <1>2, <2>1, <2>2 DEF RelayTypes
<1>8. CASE TargetEnds
  <2>1. UNCHANGED <<kind, near, far, copy, extra, answered, seen>> /\ CloseWrite("A", pipe)
    BY <1>8 DEF TargetEnds, userVars
  <2> QED BY <1>1, <1>2, <2>1, WriteCloses
<1> QED BY <1>3, <1>4, <1>5, <1>6, <1>7, <1>8

\* More may be allowed than before, never less.
LEMMA PipesGrow ==
  ASSUME NEW S, NEW T, S \subseteq T, NEW p \in Pipes(S)
  PROVE  p \in Pipes(T)
<1>1. \A e \in Ends : p[e] \in Seq(T)
  BY SeqMonotonic DEF Pipes
<1> QED BY <1>1 DEF Pipes

\* An answer of the target is allowed from then on.
LEMMA AnswerKeeps ==
  ASSUME RelayInv, NEW t \in Tokens, Answer(t)
  PROVE  RelayInv'
<1>1. RelayTypes /\ NotBegun /\ HeldUntilRelay /\ SentAfter101 /\ pipe \in Pipes(Allowed) /\ seen \subseteq Allowed
  BY DEF RelayInv
<1>2. /\ t \in {"resp", "101", "103", "200"} /\ answered' = answered \cup {t} /\ pipe' = Deliver(pipe, "A", t)
      /\ UNCHANGED <<kind, near, far, copy, end, extra, seen>>
  BY DEF Answer, Answers
<1>3. Allowed \subseteq Allowed' /\ t \in Allowed'
  BY <1>2 DEF Allowed, Tokens
<1>4. pipe \in Pipes(Allowed')
  BY <1>1, <1>3, PipesGrow
<1>5. /\ Deliver(pipe, "A", t) \in Pipes(Allowed')
      /\ \A x \in Ends : Deliver(pipe, "A", t)[x] = pipe[x] \/ Deliver(pipe, "A", t)[x] # <<>>
  BY <1>3, <1>4, Delivered, PeerTyped
<1>6. RelayTypes' /\ HeldUntilRelay' /\ SentAfter101'
  BY <1>1, <1>2 DEF RelayTypes, HeldUntilRelay, SentAfter101
<1>7. NotBegun'
  BY <1>1, <1>2, <1>5, PeerTyped DEF NotBegun
<1>8. Pipes(Allowed)' = Pipes(Allowed')
  BY DEF Pipes
<1> QED BY <1>1, <1>2, <1>3, <1>5, <1>6, <1>7, <1>8 DEF RelayInv

\* A relay is started with nothing but the request it held.
LEMMA NearStarts ==
  ASSUME RelayInv, StartNear \/ NearFails
  PROVE  Keeps
<1>1. RelayTypes /\ NotBegun /\ pipe \in Pipes(Allowed) /\ seen \subseteq Allowed
  BY DEF RelayInv
<1> USE PeerTyped
<1>2. CASE StartNear
  <2>1. /\ near = "start" /\ near' \in {"hand", "relay"} /\ copy' \in [Copies -> {"off", "run", "ok", "err"}]
        /\ UNCHANGED <<kind, far, end, extra, answered, seen>>
    BY <1>1, <1>2 DEF StartNear, StartHijacked, StartUpgrade, StartWeb, StartReverse, StartSocks, StartConnect, StartUDP,
                      StartVisitorUDP, StartStdio, Begin, Running, RelayTypes, userVars
  <2>2. pipe' = pipe \/ (SendAhead /\ kind \in {"h1", "upgrade", "udp"})
    BY <1>2 DEF StartNear, StartHijacked, StartUpgrade, StartWeb, StartReverse, StartSocks, StartConnect, StartUDP,
                StartVisitorUDP, StartStdio, Begin
  <2>3. pipe' \in Pipes(Allowed)
    <3>1. CASE SendAhead /\ kind \in {"h1", "upgrade", "udp"}
      <4>1. pipe["NO"] # <<>>
        BY <1>1, <2>1, <3>1 DEF NotBegun
      <4>2. Tail(pipe["NO"]) \in Seq(Allowed) /\ Append(pipe["FS"], "req") \in Seq(Allowed)
        BY <1>1, <4>1, SeqSteps, PlainAllowed DEF Pipes
      <4> QED BY <1>1, <3>1, <4>2 DEF SendAhead, Pipes
    <3> QED BY <1>1, <2>2, <3>1
  <2> QED BY <1>1, <2>1, <2>3 DEF Keeps, RelayTypes, NotBegun
<1>3. CASE NearFails
  <2>1. CloseBoth("near", pipe) /\ near' = "done" /\ UNCHANGED <<kind, far, copy, extra, answered, seen>>
    BY <1>3 DEF NearFails, userVars
  <2>2. end' \in [Ends -> {"open", "shut", "closed"}] /\ pipe' \in Pipes(Allowed)
    BY <2>1, SideCloses
  <2> QED BY <1>1, <2>1, <2>2 DEF Keeps, RelayTypes, NotBegun
<1> QED BY <1>2, <1>3

\* The far end starts behind the near one.
LEMMA FarStarts ==
  ASSUME RelayInv, StartFar \/ RefuseFar
  PROVE  Keeps
<1>1. RelayTypes /\ NotBegun /\ pipe \in Pipes(Allowed) /\ seen \subseteq Allowed
  BY DEF RelayInv
<1>2. CASE StartFar
  <2>1. /\ near # "start" /\ far' = "relay" /\ copy' = Running({"FU", "FD"})
        /\ UNCHANGED <<kind, near, end, pipe, extra, answered, seen>>
    BY <1>2 DEF StartFar, ReachLocalMux, ReachLocalQUIC, ReachReverseMux, ReachReverseQUIC, ReachDynamic, ReachUDP,
                ReachVisitorUDP, Reach, userVars
  <2>2. copy' \in [Copies -> {"off", "run", "ok", "err"}]
    BY <1>1, <2>1 DEF Running, RelayTypes
  <2> QED BY <1>1, <2>1, <2>2 DEF Keeps, RelayTypes, NotBegun
<1>3. CASE RefuseFar
  <2>1. CloseAll("far", pipe) /\ near # "start" /\ far' = "done" /\ UNCHANGED <<kind, near, copy, extra, answered, seen>>
    BY <1>3 DEF RefuseFar, userVars
  <2>2. end' \in [Ends -> {"open", "shut", "closed"}] /\ pipe' \in Pipes(Allowed)
    BY <2>1, SideCloses
  <2> QED BY <1>1, <2>1, <2>2 DEF Keeps, RelayTypes, NotBegun
<1> QED BY <1>2, <1>3

\* relayUpgradeResponse: the bytes held are sent for a 101 and for nothing
\* else.
LEMMA HandshakeKeeps ==
  ASSUME RelayInv, NEW t \in Tokens, Handshake(t)
  PROVE  RelayInv'
<1>1. RelayTypes /\ NotBegun /\ HeldUntilRelay /\ SentAfter101 /\ pipe \in Pipes(Allowed) /\ seen \subseteq Allowed
  BY DEF RelayInv
<1> DEFINE p == [pipe EXCEPT !["NS"] = Tail(@)]
<1>2. /\ near = "hand" /\ pipe["NS"] # <<>> /\ Head(pipe["NS"]) = t
      /\ UNCHANGED <<kind, far, answered, seen>>
  BY DEF Handshake, HasData, userVars
<1>3. p \in Pipes(Allowed) /\ t \in Allowed /\ extra # "sent"
  BY <1>1, <1>2, Taken, PeerTyped DEF HeldUntilRelay
<1> HIDE DEF p
<1>4. Deliver(p, "NO", t) \in Pipes(Allowed)
  BY <1>3, Delivered, PeerTyped
<1>5. CASE near' = near /\ pipe' = Deliver(p, "NO", t) /\ UNCHANGED <<copy, end, extra>>
  <2>1. Keeps
    BY <1>1, <1>2, <1>4, <1>5 DEF Keeps, RelayTypes, NotBegun
  <2> QED BY <2>1, KeepsInv
<1>6. CASE /\ t = "101" /\ near' = "relay" /\ copy' = [copy EXCEPT !["NU"] = "run", !["ND"] = "run"] /\ extra' = "sent"
           /\ pipe' = Deliver(Deliver(p, "NO", t), "NS", "extra") /\ UNCHANGED end
  <2>1. "101" \in answered
    BY <1>3, <1>6 DEF Allowed
  <2>2. Allowed \subseteq Allowed' /\ "extra" \in Allowed'
    BY <1>2, <1>3, <1>6 DEF Allowed, Tokens
  <2>3. Deliver(p, "NO", t) \in Pipes(Allowed')
    BY <1>4, <2>2, PipesGrow
  <2>4. Deliver(Deliver(p, "NO", t), "NS", "extra") \in Pipes(Allowed')
    BY <2>2, <2>3, Delivered, PeerTyped
  <2>5. RelayTypes'
    BY <1>1, <1>2, <1>6 DEF RelayTypes
  <2>6. NotBegun' /\ HeldUntilRelay' /\ SentAfter101'
    BY <1>2, <1>6, <2>1 DEF NotBegun, HeldUntilRelay, SentAfter101
  <2>7. Pipes(Allowed)' = Pipes(Allowed')
    BY DEF Pipes
  <2> QED BY <1>1, <1>2, <1>6, <2>2, <2>4, <2>5, <2>6, <2>7 DEF RelayInv
<1>7. CASE /\ near' = "done" /\ extra' = "dropped" /\ UNCHANGED copy
           /\ CloseBoth("near", IF CanWrite("NO") THEN Deliver(p, "NO", t) ELSE p)
  <2> DEFINE d == IF CanWrite("NO") THEN Deliver(p, "NO", t) ELSE p
  <2>1. d \in Pipes(Allowed)
    BY <1>3, <1>4
  <2> HIDE DEF d
  <2>2. EndsTold(d, Own("near")) \in Pipes(Allowed)
    BY <2>1, Told, PlainAllowed
  <2>3. pipe' \in Pipes(Allowed)
    BY <1>7, <2>2 DEF CloseBoth, d
  <2>4. end' \in [Ends -> {"open", "shut", "closed"}]
    BY <1>1, <1>7, ClosedTyped DEF CloseBoth, RelayTypes
  <2>5. RelayTypes' /\ NotBegun' /\ HeldUntilRelay' /\ SentAfter101'
    BY <1>1, <1>2, <1>7, <2>4 DEF RelayTypes, NotBegun, HeldUntilRelay, SentAfter101
  <2>6. Allowed' = Allowed
    BY <1>2, <1>3, <1>7 DEF Allowed
  <2> QED BY <1>1, <1>2, <2>3, <2>5, <2>6 DEF RelayInv, Pipes
<1> QED BY <1>5, <1>6, <1>7 DEF Handshake, p

\* A handshake that fails drops them.
LEMMA HandshakeFailureKeeps ==
  ASSUME RelayInv, HandshakeFails
  PROVE  RelayInv'
<1>1. RelayTypes /\ HeldUntilRelay /\ pipe \in Pipes(Allowed) /\ seen \subseteq Allowed
  BY DEF RelayInv
<1>2. /\ near = "hand" /\ near' = "done" /\ extra' = "dropped" /\ CloseBoth("near", pipe)
      /\ UNCHANGED <<kind, far, copy, answered, seen>>
  BY DEF HandshakeFails, userVars
<1>3. end' \in [Ends -> {"open", "shut", "closed"}] /\ pipe' \in Pipes(Allowed)
  BY <1>2, SideCloses
<1>4. Allowed' = Allowed
  BY <1>1, <1>2 DEF Allowed, HeldUntilRelay
<1>5. RelayTypes' /\ NotBegun' /\ HeldUntilRelay' /\ SentAfter101'
  BY <1>1, <1>2, <1>3 DEF RelayTypes, NotBegun, HeldUntilRelay, SentAfter101
<1> QED BY <1>1, <1>2, <1>3, <1>4, <1>5 DEF RelayInv, Pipes

\* A copying goroutine passes on what it reads.
LEMMA CopiesKeep ==
  ASSUME RelayInv, NEW c \in Copies, CopyData(c) \/ CopyEof(c) \/ CopyError(c)
  PROVE  Keeps
<1>1. RelayTypes /\ NotBegun /\ pipe \in Pipes(Allowed) /\ seen \subseteq Allowed
  BY DEF RelayInv
<1> USE PeerTyped
<1>2. /\ near # "start" /\ UNCHANGED <<kind, near, far, extra, answered, seen>>
      /\ copy' \in [Copies -> {"off", "run", "ok", "err"}]
  BY <1>1 DEF CopyData, CopyEof, CopyError, NotBegun, RelayTypes, userVars
<1>3. ASSUME end' \in [Ends -> {"open", "shut", "closed"}], pipe' \in Pipes(Allowed)
      PROVE  Keeps
  BY <1>1, <1>2, <1>3 DEF Keeps, RelayTypes, NotBegun
<1>4. CASE CopyData(c)
  <2> DEFINE p == [pipe EXCEPT ![Src[c]] = Tail(@)]
             t == Head(pipe[Src[c]])
  <2>1. pipe[Src[c]] # <<>> /\ pipe' = Deliver(p, Dst[c], t) /\ end' = end
    BY <1>4 DEF CopyData, HasData
  <2>2. p \in Pipes(Allowed) /\ t \in Allowed
    BY <1>1, <2>1, Taken
  <2> HIDE DEF p, t
  <2>3. Deliver(p, Dst[c], t) \in Pipes(Allowed)
    BY <2>2, Delivered
  <2> QED BY <1>1, <1>3, <2>1, <2>3 DEF RelayTypes
<1>5. CASE CopyEof(c)
  <2>1. CloseWrite(Dst[c], pipe) \/ UNCHANGED <<end, pipe>>
    BY <1>5 DEF CopyEof
  <2>2. CASE CloseWrite(Dst[c], pipe)
    BY <1>3, <2>2, WriteCloses
  <2> QED BY <1>1, <1>3, <2>1, <2>2 DEF RelayTypes
<1>6. CASE CopyError(c)
  <2>1. CloseSide(Side[c], pipe) \/ UNCHANGED <<end, pipe>>
    BY <1>6 DEF CopyError
  <2>2. CASE CloseSide(Side[c], pipe)
    BY <1>3, <2>2, SideCloses
  <2> QED BY <1>1, <1>3, <2>1, <2>2 DEF RelayTypes
<1> QED BY <1>4, <1>5, <1>6

\* A relay returns: its connections are closed.
LEMMA ReturnsKeep ==
  ASSUME RelayInv, ReturnNear \/ ReturnFar
  PROVE  Keeps
<1>1. RelayTypes /\ NotBegun /\ pipe \in Pipes(Allowed) /\ seen \subseteq Allowed
  BY DEF RelayInv
<1>2. /\ Leaves("near") \/ Leaves("far")
      /\ copy' = copy \/ copy' = Stopped("near") \/ copy' = Stopped("far")
  <2>1. CASE ReturnNear
    BY <2>1 DEF ReturnNear, ReturnMuxProxy, ReturnQUICProxy, ReturnSocks, ReturnConnect, ReturnStdio, ReturnLocal,
                ReturnFrames, ReturnDatagram, ReturnsFirst, ReturnsBoth
  <2>2. CASE ReturnFar
    BY <2>2 DEF ReturnFar, ReturnReverseMux, ReturnReverseQUIC, ReturnEgress, ReturnLocal, ReturnFrames,
                ReturnDatagram, ReturnsFirst, ReturnsBoth
  <2> QED BY <2>1, <2>2
<1>3. copy' \in [Copies -> {"off", "run", "ok", "err"}]
  BY <1>1, <1>2 DEF Stopped, RelayTypes
<1>4. ASSUME NEW s \in {"near", "far"}, Leaves(s) PROVE Keeps
  <2>1. /\ near # "start" /\ near' \in {near, "done"} /\ far' \in {far, "done"}
        /\ CloseSide(s, pipe) /\ UNCHANGED <<kind, extra, answered, seen>>
    BY <1>1, <1>4 DEF Leaves, State, SetDone, NotBegun, userVars
  <2>2. end' \in [Ends -> {"open", "shut", "closed"}] /\ pipe' \in Pipes(Allowed)
    BY <2>1, SideCloses
  <2> QED BY <1>1, <1>3, <2>1, <2>2 DEF Keeps, RelayTypes, NotBegun
<1> QED BY <1>2, <1>4

\* Timers, cancellations and losses end things and write nothing else.
LEMMA EndingsKeep ==
  ASSUME RelayInv,
         \/ \E s \in {"near", "far"} : StopOther(s) \/ Deadline(s) \/ Cancel(s)
         \/ IdleTick \/ IdleEgress \/ IdleFrames \/ CarrierLost \/ CloseTimeout
  PROVE  Keeps
<1>1. RelayTypes /\ NotBegun /\ pipe \in Pipes(Allowed) /\ seen \subseteq Allowed
  BY DEF RelayInv
<1>2. ASSUME NEW s \in {"near", "far"}, State(s) = "relay", CloseAll(s, pipe) \/ CloseBoth(s, pipe) \/ CloseSide(s, pipe),
             copy' \in [Copies -> {"off", "run", "ok", "err"}], near' \in {near, "done"}, far' \in {far, "done"},
             UNCHANGED <<kind, extra, answered, seen>>
      PROVE  Keeps
  <2>1. near # "start"
    BY <1>1, <1>2 DEF State, NotBegun
  <2>2. end' \in [Ends -> {"open", "shut", "closed"}] /\ pipe' \in Pipes(Allowed)
    BY <1>2, SideCloses
  <2> QED BY <1>1, <1>2, <2>1, <2>2 DEF Keeps, RelayTypes, NotBegun
<1>3. ASSUME NEW s \in {"near", "far"}, StopOther(s) PROVE Keeps
  BY <1>1, <1>2, <1>3 DEF StopOther, userVars, RelayTypes
<1>4. ASSUME NEW s \in {"near", "far"}, Deadline(s) PROVE Keeps
  <2>1. copy' \in [Copies -> {"off", "run", "ok", "err"}]
    BY <1>1, <1>4 DEF Deadline, RelayTypes
  <2> QED BY <1>2, <1>4, <2>1 DEF Deadline, SetDone, userVars
<1>5. ASSUME NEW s \in {"near", "far"}, Cancel(s) PROVE Keeps
  BY <1>1, <1>2, <1>5 DEF Cancel, SetDone, userVars, RelayTypes
<1>6. CASE IdleEgress \/ IdleFrames
  <2>1. State("far") = "relay" /\ CloseSide("far", pipe) /\ UNCHANGED <<kind, near, far, copy, extra, answered, seen>>
    BY <1>6 DEF IdleEgress, IdleFrames, IdleClose, State, userVars
  <2> QED BY <1>1, <1>2, <2>1 DEF RelayTypes
<1>7. CASE IdleTick
  BY <1>1, <1>7 DEF IdleTick, relayVars, userVars, Keeps, RelayTypes, NotBegun
<1>8. CASE CarrierLost \/ CloseTimeout
  <2>1. /\ pipe' = [pipe EXCEPT !["NS"] = <<>>, !["FS"] = <<>>]
        /\ UNCHANGED <<kind, near, far, copy, end, extra, answered, seen>>
    BY <1>8 DEF CarrierLost, CloseTimeout, userVars
  <2>2. pipe' \in Pipes(Allowed) /\ pipe'["NO"] = pipe["NO"]
    BY <1>1, <2>1, EmptySeq, PeerTyped DEF Pipes
  <2> QED BY <1>1, <2>1, <2>2 DEF Keeps, RelayTypes, NotBegun
<1> QED BY <1>3, <1>4, <1>5, <1>6, <1>7, <1>8

--------------------------------------------------------------------------------
(* The theorems.                                                             *)

\* The invariant is inductive.
LEMMA RelayNext == RelayInv /\ [Next]_vars => RelayInv'
<1> SUFFICES ASSUME RelayInv, [Next]_vars PROVE RelayInv'
  OBVIOUS
<1>1. CASE Users
  BY <1>1, UsersKeep, AnswerKeeps, KeepsInv DEF Users
<1>2. CASE Starting
  BY <1>2, NearStarts, FarStarts, HandshakeKeeps, HandshakeFailureKeeps, KeepsInv DEF Starting
<1>3. CASE Relaying
  BY <1>3, CopiesKeep, ReturnsKeep, EndingsKeep, KeepsInv DEF Relaying
<1>4. CASE UNCHANGED vars
  <2>1. Keeps
    BY <1>4 DEF vars, RelayInv, Keeps, RelayTypes, NotBegun
  <2> QED BY <2>1, KeepsInv
<1> QED BY <1>1, <1>2, <1>3, <1>4 DEF Next

\* At every moment the pipes hold only what is allowed: whatever is delivered,
\* lost, closed or timed out at either end, no byte behind an upgrade request
\* is under way before the application's 101 was read.
THEOREM RelayInvariant == Spec => []RelayInv
  BY RelayInit, RelayNext, PTL DEF Spec

\* Bytes a visitor sent behind an upgrade request reach the application only
\* after its 101 and never after relayUpgradeResponse has given up.
THEOREM Withheld == Spec => []WithheldUntil101
<1>1. RelayInv => WithheldUntil101
  BY DEF RelayInv, WithheldUntil101, SentAfter101, Allowed
<1> QED BY <1>1, RelayInvariant, PTL

================================================================================

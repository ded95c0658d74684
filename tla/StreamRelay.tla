------------------------------ MODULE StreamRelay ------------------------------
(***************************************************************************)
(* One exchange through an open tunnel stream, from the connection that    *)
(* asked for it to the one that answers it: the two relays at the ends of  *)
(* the stream and what each does when one of its directions finishes.      *)
(*                                                                         *)
(*   V -- outer connection -- NO  near relay  NS -- stream -- FS  far      *)
(*   relay  FT -- target connection -- A                                   *)
(*                                                                         *)
(* The near relay is the end that opened the stream: the server for a      *)
(* visitor, the client for SOCKS5, HTTP proxy and UDP forwarding.  The two *)
(* ends were written at different times and disagree on half-close:        *)
(*                                                                         *)
(*   "first"   the first direction to finish closes both connections       *)
(*             (handleMuxProxyConnection, handleQUICProxyConnection, the   *)
(*             client's reverse forwarding, SOCKS5 and CONNECT)            *)
(*   "both"    relayLocalApplication: EOF is passed on, errors close all   *)
(*   "egress"  relayEgress: the same with an idle timer                    *)
(*   "all"     UDP frames: either direction ends both, with an idle timer  *)
(*   "once"    one datagram and one answer, under deadlines                *)
(*   "stdio"   bridgeStdio: the end of the input is passed on, the end of  *)
(*             the output ends the program and its carrier                 *)
(***************************************************************************)
EXTENDS Naturals, Sequences

CONSTANTS
  Kinds,         \* kinds of exchange
  Carriers,      \* "mux" and "quic"
  Informational  \* 1xx answers relayed before the final one (8)

AllKinds == {"h1", "upgrade", "web", "rev", "socks", "connect", "udp", "webudp", "stdio"}

ASSUME RelayAssumption ==
  Kinds \subseteq AllKinds /\ Carriers \subseteq {"mux", "quic"} /\ Informational \in Nat

VARIABLES
  kind, carrier,
  near, far,   \* the two relays: "start", "hand", "relay", "done"
  copy,        \* their copying goroutines
  end,         \* local state of each connection end: "open", "shut", "closed"
  pipe,        \* what each end has still to read
  dead,        \* the stream was reset or its carrier lost
  aborted,     \* history: something other than an orderly end happened
  asked,       \* the visitor sent its request
  extra,       \* bytes sent behind an upgrade request: "none", "held", "sent", "dropped"
  hints,       \* informational answers relayed
  got,         \* what reached the visitor
  seen,        \* what reached the target
  answered,    \* answers the target has given
  quiet        \* nothing moved since the idle timer of the far end started

vars == <<kind, carrier, near, far, copy, end, pipe, dead, aborted, asked, extra, hints, got, seen,
          answered, quiet>>
relayVars == <<near, far, copy, end, pipe>>
userVars == <<asked, got, seen, answered>>

Ends == {"V", "NO", "NS", "FS", "FT", "A"}
StreamEnds == {"NS", "FS"}
Peer == [V |-> "NO", NO |-> "V", NS |-> "FS", FS |-> "NS", FT |-> "A", A |-> "FT"]

Copies == {"NU", "ND", "FU", "FD"}
Src == [NU |-> "NO", ND |-> "NS", FU |-> "FS", FD |-> "FT"]
Dst == [NU |-> "NS", ND |-> "NO", FU |-> "FT", FD |-> "FS"]
Side == [NU |-> "near", ND |-> "near", FU |-> "far", FD |-> "far"]
\* The connections a relay closes; the local UDP socket outlives a datagram.
Own(s) == IF s = "far" THEN {"FS", "FT"} ELSE IF kind = "udp" THEN {"NS"} ELSE {"NO", "NS"}
CopiesOf(s) == {c \in Copies : Side[c] = s}
State(s) == IF s = "near" THEN near ELSE far

Mode(s) ==
  IF s = "near"
    THEN CASE kind \in {"h1", "upgrade", "socks", "connect"} -> "first" [] kind \in {"web", "rev"} -> "both"
           [] kind = "udp" -> "once" [] kind = "webudp" -> "all"
           [] kind = "stdio" -> "stdio"
    ELSE CASE kind \in {"h1", "upgrade", "web"} -> "both" [] kind = "rev" -> "first"
           [] kind \in {"socks", "connect", "stdio"} -> "egress" [] kind = "udp" -> "once" [] kind = "webudp" -> "all"

Tokens == {"req", "extra", "resp", "101", "103", "200", "fin"}

TypeOK ==
  /\ kind \in Kinds /\ carrier \in Carriers
  /\ near \in {"start", "hand", "relay", "done"} /\ far \in {"start", "relay", "done"}
  /\ copy \in [Copies -> {"off", "run", "ok", "err"}]
  /\ end \in [Ends -> {"open", "shut", "closed"}]
  /\ \A e \in Ends : pipe[e] \in Seq(Tokens) /\ Len(pipe[e]) <= 4
  /\ dead \in BOOLEAN /\ aborted \in BOOLEAN /\ asked \in BOOLEAN /\ quiet \in BOOLEAN
  /\ extra \in {"none", "held", "sent", "dropped"}
  /\ hints \in 0..(Informational + 1)
  /\ got \subseteq Tokens /\ seen \subseteq Tokens /\ answered \subseteq Tokens

\* An HTTP/1 exchange begins with the request that was read from the visitor,
\* an upgrade also with bytes the visitor sent behind it, a UDP exchange with a
\* datagram.
Init ==
  /\ kind \in Kinds /\ carrier \in Carriers
  /\ kind \in {"socks", "connect", "udp", "stdio"} => carrier = "mux"
  /\ near = "start" /\ far = "start"
  /\ copy = [c \in Copies |-> "off"]
  /\ end = [e \in Ends |-> "open"]
  /\ asked = (kind \in {"h1", "upgrade", "udp"})
  /\ pipe = [e \in Ends |-> IF e = "NO" /\ asked THEN <<"req">> ELSE <<>>]
  /\ dead = FALSE /\ aborted = FALSE /\ quiet = FALSE
  /\ extra = IF kind = "upgrade" THEN "held" ELSE "none"
  /\ hints = 0
  /\ got = {} /\ seen = {} /\ answered = {}

--------------------------------------------------------------------------------
(* Connections.                                                              *)

\* Close of a QUIC stream opened with openClientTransportStream also cancels
\* its read side; every other stream end only sends FIN.
Refuses(e) == carrier = "quic" /\ kind \in {"web", "rev", "webudp"} /\ e = "NS" /\ end[e] = "closed"

CanWrite(e) ==
  /\ end[e] = "open"
  /\ IF e \in StreamEnds THEN ~dead /\ ~Refuses(Peer[e]) ELSE end[Peer[e]] # "closed"

\* A closed end keeps nothing of what is written to it.
Deliver(p, e, t) == IF end[Peer[e]] = "closed" THEN p ELSE [p EXCEPT ![Peer[e]] = Append(@, t)]

ReadFails(e) == end[e] = "closed" \/ (e \in StreamEnds /\ dead /\ pipe[e] = <<>>)
AtEof(e) == ~ReadFails(e) /\ pipe[e] # <<>> /\ Head(pipe[e]) = "fin"
HasData(e) == ~ReadFails(e) /\ pipe[e] # <<>> /\ Head(pipe[e]) # "fin"

\* Ends E take state st; each that could still write tells its peer so.
EndsClosed(E, st) == [e \in Ends |-> IF e \in E /\ end[e] # "closed" THEN st[e] ELSE end[e]]
EndsTold(p, E) ==
  [e \in Ends |->
     CASE e \in E -> IF end'[e] = "closed" THEN <<>> ELSE p[e]
       [] Peer[e] \in E /\ end[Peer[e]] = "open" /\ end[e] # "closed"
            /\ ~(Peer[e] \in StreamEnds /\ dead) -> Append(p[e], "fin")
       [] OTHER -> p[e]]

\* Close with the deadlines set (relayLocalApplication, UDP frames): reads on
\* both connections fail at once.
CloseAll(s, p) ==
  /\ end' = EndsClosed(Own(s), [e \in Ends |-> "closed"])
  /\ pipe' = EndsTold(p, Own(s))

\* Close alone: a stream end can still be read until the peer finishes.
CloseBoth(s, p) ==
  /\ end' = EndsClosed(Own(s), [e \in Ends |-> IF e \in StreamEnds THEN "shut" ELSE "closed"])
  /\ pipe' = EndsTold(p, Own(s))

CloseWrite(e, p) ==
  /\ end' = EndsClosed({e}, [x \in Ends |-> "shut"])
  /\ pipe' = EndsTold(p, {e})

CloseSide(s, p) == IF Mode(s) \in {"both", "all"} THEN CloseAll(s, p) ELSE CloseBoth(s, p)

--------------------------------------------------------------------------------
(* The user at one end and the target at the other.                          *)

Ask ==
  /\ ~asked /\ end["V"] = "open"
  /\ asked' = TRUE
  /\ pipe' = Deliver(pipe, "V", "req")
  /\ UNCHANGED <<kind, carrier, near, far, copy, end, dead, aborted, extra, hints, got, seen, answered, quiet>>

\* The user finishes sending, or leaves.
HalfClose ==
  /\ asked /\ end["V"] = "open" /\ kind \notin {"udp", "webudp"}
  /\ CloseWrite("V", pipe)
  /\ UNCHANGED <<kind, carrier, near, far, copy, dead, aborted, extra, hints, userVars, quiet>>

Leave ==
  /\ end["V"] # "closed" /\ kind # "udp"
  /\ end' = [end EXCEPT !["V"] = "closed"]
  /\ pipe' = EndsTold(pipe, {"V"})
  /\ aborted' = TRUE
  /\ UNCHANGED <<kind, carrier, near, far, copy, dead, extra, hints, userVars, quiet>>

Hear ==
  /\ HasData("V")
  /\ got' = got \cup {Head(pipe["V"])}
  /\ pipe' = [pipe EXCEPT !["V"] = Tail(@)]
  /\ UNCHANGED <<kind, carrier, near, far, copy, end, dead, aborted, extra, hints, asked, seen, answered, quiet>>

\* A user that has been answered and sees the end closes its side.
UserEnds ==
  /\ AtEof("V") /\ end["V"] # "closed"
  /\ end' = [end EXCEPT !["V"] = "closed"]
  /\ pipe' = EndsTold(pipe, {"V"})
  /\ UNCHANGED <<kind, carrier, near, far, copy, dead, aborted, extra, hints, userVars, quiet>>

TargetReads ==
  /\ HasData("A")
  /\ seen' = seen \cup {Head(pipe["A"])}
  /\ pipe' = [pipe EXCEPT !["A"] = Tail(@)]
  /\ UNCHANGED <<kind, carrier, near, far, copy, end, dead, aborted, extra, hints, asked, got, answered, quiet>>

\* What the target may answer next.
Answers ==
  CASE kind # "upgrade" -> {"resp"} \ answered
    [] "101" \in answered -> {"resp"} \ answered
    [] "200" \in answered -> {}
    [] OTHER -> {"101", "200"} \cup (IF hints <= Informational /\ \A e \in Ends : \A i \in DOMAIN pipe[e] :
                                          pipe[e][i] # "103" THEN {"103"} ELSE {})

Answer(t) ==
  /\ "req" \in seen /\ end["A"] = "open" /\ t \in Answers
  /\ CanWrite("A") /\ Len(pipe["FT"]) < 2
  /\ answered' = answered \cup {t}
  /\ pipe' = Deliver(pipe, "A", t)
  /\ UNCHANGED <<kind, carrier, near, far, copy, end, dead, aborted, extra, hints, asked, got, seen, quiet>>

\* The target ends when it has answered in full or its input has ended.
TargetEnds ==
  /\ end["A"] = "open" /\ kind \notin {"udp", "webudp"}
  /\ {"resp", "200"} \cap answered # {} \/ AtEof("A")
  /\ CloseWrite("A", pipe)
  /\ UNCHANGED <<kind, carrier, near, far, copy, dead, aborted, extra, hints, userVars, quiet>>

Users == Ask \/ HalfClose \/ Leave \/ Hear \/ UserEnds \/ TargetReads
         \/ (\E t \in Tokens : Answer(t)) \/ TargetEnds

--------------------------------------------------------------------------------
(* Starting the two relays.                                                  *)

Running(cs) == [c \in Copies |-> IF c \in cs THEN "run" ELSE copy[c]]

\* The stream is open and its header written.
Begin(k) ==
  /\ kind = k /\ near = "start" /\ ~dead
  /\ near' = "relay" /\ copy' = Running({"NU", "ND"})
  /\ UNCHANGED <<kind, carrier, far, end, dead, aborted, extra, hints, userVars, quiet>>

\* What was read from the user already goes ahead.
SendAhead == pipe' = [pipe EXCEPT !["NO"] = Tail(@), !["FS"] = Append(@, "req")]

StartHijacked == Begin("h1") /\ SendAhead
StartWeb == Begin("web") /\ UNCHANGED pipe
StartReverse == Begin("rev") /\ UNCHANGED pipe
StartSocks == Begin("socks") /\ UNCHANGED pipe
StartConnect == Begin("connect") /\ UNCHANGED pipe
StartStdio == Begin("stdio") /\ UNCHANGED pipe
StartVisitorUDP == Begin("webudp") /\ UNCHANGED pipe

\* One datagram goes out with the header; then the answer is awaited.
StartUDP ==
  /\ kind = "udp" /\ near = "start" /\ ~dead
  /\ near' = "relay" /\ copy' = Running({"ND"})
  /\ SendAhead
  /\ UNCHANGED <<kind, carrier, far, end, dead, aborted, extra, hints, userVars, quiet>>

\* Mutant: what follows an upgrade request is sent along with it.
MutantSendsExtra ==
  /\ kind = "upgrade" /\ near = "start" /\ ~dead
  /\ near' = "hand"
  /\ pipe' = [pipe EXCEPT !["NO"] = Tail(@), !["FS"] = @ \o <<"req", "extra">>]
  /\ UNCHANGED <<kind, carrier, far, copy, end, dead, aborted, extra, hints, userVars, quiet>>

\* An upgrade request is sent alone; its answer is awaited before relaying.
StartUpgrade ==
  /\ kind = "upgrade" /\ near = "start" /\ ~dead
  /\ near' = "hand"
  /\ SendAhead
  /\ UNCHANGED <<kind, carrier, far, copy, end, dead, aborted, extra, hints, userVars, quiet>>

\* The stream fails before its header is written.
NearFails ==
  /\ near = "start" /\ dead
  /\ near' = "done"
  /\ CloseBoth("near", pipe)
  /\ UNCHANGED <<kind, carrier, far, copy, dead, aborted, extra, hints, userVars, quiet>>

\* The header names a target the far end knows and reaches.
Reach(ks) ==
  /\ kind \in ks /\ far = "start" /\ near # "start" /\ ~dead
  /\ far' = "relay" /\ copy' = Running({"FU", "FD"})
  /\ UNCHANGED <<kind, carrier, near, end, pipe, dead, aborted, extra, hints, userVars, quiet>>

ReachLocalMux == carrier = "mux" /\ Reach({"h1", "upgrade", "web"})
ReachLocalQUIC == carrier = "quic" /\ Reach({"h1", "upgrade", "web"})
ReachReverseMux == carrier = "mux" /\ Reach({"rev"})
ReachReverseQUIC == carrier = "quic" /\ Reach({"rev"})
ReachDynamic == Reach({"socks", "connect", "stdio"})
ReachUDP == Reach({"udp"})
ReachVisitorUDP == Reach({"webudp"})

\* Unknown tunnel, refused destination or failed dial: the stream is closed.
RefuseFar ==
  /\ far = "start" /\ near # "start"
  /\ far' = "done"
  /\ CloseAll("far", pipe)
  /\ aborted' = TRUE
  /\ UNCHANGED <<kind, carrier, near, copy, dead, extra, hints, userVars, quiet>>

\* relayUpgradeResponse: the visitor hears every answer up to the final one.
Handshake(t) ==
  /\ near = "hand" /\ HasData("NS") /\ Head(pipe["NS"]) = t
  /\ \/ /\ CanWrite("NO") /\ t = "103" /\ hints < Informational
        /\ hints' = hints + 1
        /\ pipe' = Deliver([pipe EXCEPT !["NS"] = Tail(@)], "NO", t)
        /\ UNCHANGED <<near, copy, end, extra>>
     \/ /\ CanWrite("NO") /\ t = "101" /\ CanWrite("NS")
        /\ near' = "relay" /\ copy' = [copy EXCEPT !["NU"] = "run", !["ND"] = "run"]
        /\ extra' = "sent"
        /\ pipe' = Deliver(Deliver([pipe EXCEPT !["NS"] = Tail(@)], "NO", t), "NS", "extra")
        /\ UNCHANGED <<end, hints>>
     \/ /\ t = "200" \/ ~CanWrite("NO") \/ (t = "103" /\ hints = Informational)
        /\ near' = "done" /\ extra' = "dropped"
        /\ LET p == [pipe EXCEPT !["NS"] = Tail(@)] IN
             CloseBoth("near", IF CanWrite("NO") THEN Deliver(p, "NO", t) ELSE p)
        /\ UNCHANGED <<copy, hints>>
  /\ UNCHANGED <<kind, carrier, far, dead, aborted, userVars, quiet>>

\* The answer does not come in time or the stream ends first.
HandshakeFails ==
  /\ near = "hand" /\ ~HasData("NS")
  /\ near' = "done" /\ extra' = "dropped"
  /\ CloseBoth("near", pipe)
  /\ aborted' = TRUE
  /\ UNCHANGED <<kind, carrier, far, copy, dead, hints, userVars, quiet>>

StartNear ==
  \/ StartHijacked \/ StartUpgrade \/ StartWeb \/ StartReverse \/ StartSocks \/ StartConnect
  \/ StartUDP \/ StartVisitorUDP \/ StartStdio
StartFar ==
  \/ ReachLocalMux \/ ReachLocalQUIC \/ ReachReverseMux \/ ReachReverseQUIC
  \/ ReachDynamic \/ ReachUDP \/ ReachVisitorUDP
Starting == StartNear \/ NearFails \/ StartFar \/ RefuseFar \/ (\E t \in Tokens : Handshake(t)) \/ HandshakeFails

--------------------------------------------------------------------------------
(* The copying goroutines.                                                   *)

\* The directions whose end a relay passes on.
HalfCloses(c) == Mode(Side[c]) \in {"both", "egress"} \/ (Mode(Side[c]) = "stdio" /\ c = "NU")

\* One datagram is copied and no more.
CopyData(c) ==
  /\ copy[c] = "run" /\ HasData(Src[c]) /\ CanWrite(Dst[c])
  /\ pipe' = Deliver([pipe EXCEPT ![Src[c]] = Tail(@)], Dst[c], Head(pipe[Src[c]]))
  /\ copy' = IF Mode(Side[c]) = "once" THEN [copy EXCEPT ![c] = "ok"] ELSE copy
  /\ quiet' = FALSE
  /\ UNCHANGED <<kind, carrier, near, far, end, dead, aborted, extra, hints, userVars>>

\* Mutant: the end of one direction closes both connections.
MutantEofCloses(c) ==
  /\ copy[c] = "run" /\ AtEof(Src[c])
  /\ copy' = [copy EXCEPT ![c] = "ok"]
  /\ IF Mode(Side[c]) \in {"both", "egress"} THEN CloseSide(Side[c], pipe) ELSE UNCHANGED <<end, pipe>>
  /\ UNCHANGED <<kind, carrier, near, far, dead, aborted, extra, hints, userVars, quiet>>

\* Mutant: it is not passed on.
MutantEofKept(c) ==
  /\ copy[c] = "run" /\ AtEof(Src[c])
  /\ copy' = [copy EXCEPT ![c] = "ok"]
  /\ UNCHANGED <<kind, carrier, near, far, end, pipe, dead, aborted, extra, hints, userVars, quiet>>

\* A direction finishes at EOF: half-closing relays pass it on.  An EOF in
\* place of a datagram is an error.
CopyEof(c) ==
  /\ copy[c] = "run" /\ AtEof(Src[c])
  /\ copy' = [copy EXCEPT ![c] = IF Mode(Side[c]) = "once" THEN "err" ELSE "ok"]
  /\ IF HalfCloses(c)
       THEN CloseWrite(Dst[c], pipe)
       ELSE UNCHANGED <<end, pipe>>
  /\ UNCHANGED <<kind, carrier, near, far, dead, aborted, extra, hints, userVars, quiet>>

\* It fails: half-closing relays close both connections.
CopyError(c) ==
  /\ copy[c] = "run"
  /\ ReadFails(Src[c]) \/ (HasData(Src[c]) /\ ~CanWrite(Dst[c]))
  /\ copy' = [copy EXCEPT ![c] = "err"]
  /\ IF Mode(Side[c]) \in {"both", "egress"}
       THEN CloseSide(Side[c], pipe)
       ELSE UNCHANGED <<end, pipe>>
  /\ UNCHANGED <<kind, carrier, near, far, dead, aborted, extra, hints, userVars, quiet>>

Finished(s) == {c \in CopiesOf(s) : copy[c] \in {"ok", "err"}}

SetDone(s) ==
  IF s = "near" THEN near' = "done" /\ UNCHANGED far ELSE far' = "done" /\ UNCHANGED near

\* The relay of one end returns and its deferred closes run.
Leaves(s) ==
  /\ State(s) = "relay"
  /\ SetDone(s)
  /\ CloseSide(s, pipe)
  /\ UNCHANGED <<kind, carrier, aborted, extra, hints, userVars, quiet>>

\* The first direction to finish ends the relay; the other goroutine finds its
\* connections closed.
ReturnsFirst(s, ks) == kind \in ks /\ Finished(s) # {} /\ Leaves(s) /\ UNCHANGED <<copy, dead>>

ReturnMuxProxy == carrier = "mux" /\ ReturnsFirst("near", {"h1", "upgrade"})
ReturnQUICProxy == carrier = "quic" /\ ReturnsFirst("near", {"h1", "upgrade"})
ReturnSocks == ReturnsFirst("near", {"socks"})
ReturnConnect == ReturnsFirst("near", {"connect"})
ReturnReverseMux == carrier = "mux" /\ ReturnsFirst("far", {"rev"})
ReturnReverseQUIC == carrier = "quic" /\ ReturnsFirst("far", {"rev"})

\* The others join both directions.
ReturnsBoth(s, m) ==
  Mode(s) = m /\ Finished(s) = CopiesOf(s) /\ Leaves(s) /\ UNCHANGED <<copy, dead>>

ReturnLocal(s) == ReturnsBoth(s, "both")
ReturnEgress == ReturnsBoth("far", "egress")
ReturnFrames(s) == ReturnsBoth(s, "all")

\* One goroutine handles a datagram and its answer; it ends with the answer or
\* the first error.
Stopped(s) == [c \in Copies |-> IF c \in CopiesOf(s) /\ copy[c] = "run" THEN "ok" ELSE copy[c]]

ReturnDatagram(s) ==
  /\ Mode(s) = "once"
  /\ \E c \in CopiesOf(s) : copy[c] = "err" \/ (c \in {"ND", "FD"} /\ copy[c] = "ok")
  /\ Leaves(s)
  /\ copy' = Stopped(s) /\ UNCHANGED dead

\* A stdio client ends with its output, and its carrier with it.
ReturnStdio ==
  /\ kind = "stdio" /\ (copy["ND"] \in {"ok", "err"} \/ copy["NU"] = "err")
  /\ Leaves("near")
  /\ copy' = Stopped("near") /\ dead' = TRUE

ReturnNear ==
  \/ ReturnMuxProxy \/ ReturnQUICProxy \/ ReturnSocks \/ ReturnConnect \/ ReturnStdio
  \/ ReturnLocal("near") \/ ReturnFrames("near") \/ ReturnDatagram("near")
ReturnFar ==
  \/ ReturnReverseMux \/ ReturnReverseQUIC \/ ReturnEgress
  \/ ReturnLocal("far") \/ ReturnFrames("far") \/ ReturnDatagram("far")

\* Frame relays close everything once one direction has finished.
StopOther(s) ==
  /\ State(s) = "relay" /\ Mode(s) = "all" /\ Finished(s) # {}
  /\ \E e \in Own(s) : end[e] # "closed"
  /\ CloseAll(s, pipe)
  /\ UNCHANGED <<kind, carrier, near, far, copy, dead, aborted, extra, hints, userVars, quiet>>

\* Nothing moves for as long as an idle timer of egress or of UDP frames runs.
IdleTick ==
  /\ far = "relay" /\ ~quiet /\ Mode("far") \in {"egress", "all"}
  /\ quiet' = TRUE
  /\ UNCHANGED <<kind, carrier, relayVars, dead, aborted, extra, hints, userVars>>

IdleClose(m) ==
  /\ far = "relay" /\ quiet /\ Mode("far") = m
  /\ \E e \in Own("far") : end[e] = "open"
  /\ CloseSide("far", pipe)
  /\ aborted' = TRUE
  /\ UNCHANGED <<kind, carrier, near, far, copy, dead, extra, hints, userVars, quiet>>

IdleEgress == IdleClose("egress")
IdleFrames == IdleClose("all")

\* The deadlines of one datagram.
Deadline(s) ==
  /\ State(s) = "relay" /\ Mode(s) = "once"
  /\ SetDone(s)
  /\ copy' = [c \in Copies |-> IF c \in CopiesOf(s) THEN "err" ELSE copy[c]]
  /\ CloseBoth(s, pipe)
  /\ aborted' = TRUE
  /\ UNCHANGED <<kind, carrier, dead, extra, hints, userVars, quiet>>

\* The context of the near or far end is cancelled.
Cancel(s) ==
  /\ State(s) = "relay"
  /\ Mode(s) \in {"both", "all"} \/ (s = "far" /\ Mode(s) = "first")
  /\ CloseSide(s, pipe)
  /\ IF Mode(s) = "first" THEN SetDone(s) ELSE UNCHANGED <<near, far>>
  /\ aborted' = TRUE
  /\ UNCHANGED <<kind, carrier, copy, dead, extra, hints, userVars, quiet>>

\* The carrier is lost.
CarrierLost ==
  /\ ~dead
  /\ dead' = TRUE /\ aborted' = TRUE
  /\ pipe' = [pipe EXCEPT !["NS"] = <<>>, !["FS"] = <<>>]
  /\ UNCHANGED <<kind, carrier, near, far, copy, end, extra, hints, userVars, quiet>>

\* yamux resets a stream one end closed when the other does not follow within
\* StreamCloseTimeout.
CloseTimeout ==
  /\ carrier = "mux" /\ ~dead
  /\ \E e \in StreamEnds : end[e] # "open" /\ end[Peer[e]] = "open"
  /\ dead' = TRUE /\ aborted' = TRUE
  /\ pipe' = [pipe EXCEPT !["NS"] = <<>>, !["FS"] = <<>>]
  /\ UNCHANGED <<kind, carrier, near, far, copy, end, extra, hints, userVars, quiet>>

Relaying ==
  \/ \E c \in Copies : CopyData(c) \/ CopyEof(c) \/ CopyError(c)
  \/ ReturnNear \/ ReturnFar
  \/ \E s \in {"near", "far"} : StopOther(s) \/ Deadline(s) \/ Cancel(s)
  \/ IdleTick \/ IdleEgress \/ IdleFrames \/ CarrierLost \/ CloseTimeout

Next == Users \/ Starting \/ Relaying

Spec == Init /\ [][Next]_vars

(* Fairness: the goroutines run and the timers of the code and of yamux fire; *)
(* users and targets read what reaches them and close their side when they    *)
(* see the other end do so.  Nothing makes a user ask or leave, a target      *)
(* answer, or a context or carrier end.                                       *)
NearStep == StartNear \/ NearFails \/ (\E t \in Tokens : Handshake(t)) \/ HandshakeFails
FarStep == StartFar \/ RefuseFar
Fairness ==
  /\ WF_vars(NearStep) /\ WF_vars(FarStep)
  /\ WF_vars(Hear \/ UserEnds) /\ WF_vars(TargetReads) /\ WF_vars(TargetEnds)
  /\ \A c \in Copies : WF_vars(CopyData(c) \/ CopyEof(c) \/ CopyError(c))
  /\ WF_vars(ReturnNear \/ Deadline("near")) /\ WF_vars(ReturnFar \/ Deadline("far"))
  /\ WF_vars(StopOther("near")) /\ WF_vars(StopOther("far"))
  /\ WF_vars(IdleTick) /\ WF_vars(IdleEgress \/ IdleFrames) /\ WF_vars(CloseTimeout)

FairSpec == Spec /\ Fairness

--------------------------------------------------------------------------------
(* Properties.                                                               *)

Over == near = "done" /\ far = "done" /\ \A c \in Copies : copy[c] # "run"

\* An answer the target gave reaches the user unless something failed or the
\* user left.  Half-closing the request does not cost it the answer where both
\* ends relay half-closes (relayLocalApplication, and bridgeStdio with
\* relayEgress); elsewhere it may.
ResponseDelivered ==
  ("resp" \in answered) ~>
    \/ "resp" \in got
    \/ aborted
    \/ kind \notin {"web", "webudp", "stdio"} /\ end["V"] # "open"

\* When the carrier is lost or the user has left, both relays end, all four
\* copying goroutines with them, and the connection to the target is closed,
\* whatever the target does: no path leaves a goroutine blocked on a read.
RelayEnds == (dead \/ end["V"] = "closed") ~> (Over /\ end["FT"] = "closed")

\* Bytes a visitor sent behind an upgrade request reach the application only
\* after it has answered 101, and never after any other final answer.
WithheldUntil101 ==
  /\ "extra" \in seen => "101" \in answered
  /\ extra = "dropped" => "extra" \notin seen
================================================================================

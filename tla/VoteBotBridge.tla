--------------------------- MODULE VoteBotBridge ---------------------------
(* The WebSocket /votebot/ws (app/routes/votebot.py): one handler couples a *)
(* client's socket to a socket of its own to VoteBot, with one coroutine    *)
(* per direction, and goes on until both coroutines have ended.             *)
(* Messages are numbered in the order they are sent; the client's may be    *)
(* text or binary frames, of which the gateway reads text.  VoteBot, the    *)
(* project's own service, sends text, as votebot_to_client relies on.       *)
EXTENDS Naturals, Sequences, SequencesExt

CONSTANT MaxSent      \* bound: messages a side sends

ASSUME MaxSentOK == MaxSent \in Nat

Sides == {"client", "votebot"}
Other(side) == IF side = "client" THEN "votebot" ELSE "client"

VARIABLES
  handler,     \* connecting, bridging, done
  socket,      \* of each side: open, left (closed by it) or shut (closed by the gateway)
  shutCode,    \* the code the client's socket was shut with
  sent,        \* how many messages each side sent
  binary,      \* which of the client's are binary frames
  wire,        \* of each side: its messages that the gateway has not read
  hand,        \* of each side: what the coroutine that reads it holds, at most one
  pump,        \* of each side: the coroutine that reads it, running or ended
  got          \* of each side: what the gateway delivered to it

vars == <<handler, socket, shutCode, sent, binary, wire, hand, pump, got>>

Each(x) == [side \in Sides |-> x]

(* The client is accepted before VoteBot is called. *)
Init ==
  /\ handler = "connecting" /\ socket = [side \in Sides |-> IF side = "client" THEN "open" ELSE "none"]
  /\ shutCode = 0
  /\ sent = Each(0) /\ binary = {} /\ wire = Each(<<>>) /\ hand = Each(<<>>)
  /\ pump = Each("running") /\ got = Each(<<>>)

-----------------------------------------------------------------------------
(* The two ends *)

Send(side) ==
  /\ socket[side] = "open" /\ sent[side] < MaxSent
  /\ sent' = [sent EXCEPT ![side] = @ + 1]
  /\ wire' = [wire EXCEPT ![side] = Append(@, sent'[side])]
  /\ binary' \in {binary} \cup IF side = "client" THEN {binary \cup {sent'[side]}} ELSE {}
  /\ UNCHANGED <<handler, socket, shutCode, hand, pump, got>>

(* A side closes, or its connection is lost: what it had not read is gone,  *)
(* what it had sent may still be read.                                      *)
Leave(side) ==
  /\ socket[side] = "open"
  /\ socket' = [socket EXCEPT ![side] = "left"]
  /\ UNCHANGED <<handler, shutCode, sent, binary, wire, hand, pump, got>>

-----------------------------------------------------------------------------
(* The handler *)

Connect ==
  /\ handler = "connecting"
  /\ handler' = "bridging" /\ socket' = [socket EXCEPT !["votebot"] = "open"]
  /\ UNCHANGED <<shutCode, sent, binary, wire, hand, pump, got>>

(* Mutation: the failure is logged and the client left as it is. *)
ConnectFails_Silent ==
  /\ handler = "connecting"
  /\ handler' = "done"
  /\ UNCHANGED <<socket, shutCode, sent, binary, wire, hand, pump, got>>

(* The connection fails: the client is told with 1011.                      *)
ConnectFails ==
  /\ handler = "connecting"
  /\ handler' = "done"
  /\ socket' = [socket EXCEPT !["client"] = IF @ = "open" THEN "shut" ELSE @]
  /\ shutCode' = IF socket["client"] = "open" THEN 1011 ELSE shutCode
  /\ UNCHANGED <<sent, binary, wire, hand, pump, got>>

(* Mutation: the coroutine reads on while its last message is being sent. *)
Read_Ahead(side) ==
  /\ handler = "bridging" /\ pump[side] = "running" /\ wire[side] # <<>>
  /\ hand' = [hand EXCEPT ![side] = <<Head(wire[side])>> \o @]
  /\ wire' = [wire EXCEPT ![side] = Tail(@)]
  /\ UNCHANGED <<handler, socket, shutCode, sent, binary, pump, got>>

(* The next message of the client is no text.                               *)
NoText(side) == side = "client" /\ Head(wire[side]) \in binary

(* async for message in ...: the coroutine takes its side's next message.   *)
Read(side) ==
  /\ handler = "bridging" /\ pump[side] = "running" /\ hand[side] = <<>> /\ wire[side] # <<>>
  /\ ~NoText(side)
  /\ hand' = [hand EXCEPT ![side] = <<Head(wire[side])>>]
  /\ wire' = [wire EXCEPT ![side] = Tail(@)]
  /\ UNCHANGED <<handler, socket, shutCode, sent, binary, pump, got>>

(* iter_text raises a KeyError, which the coroutine does not catch and      *)
(* gather keeps to itself: the coroutine ends, and both sockets stay open.  *)
ReadRaises(side) ==
  /\ handler = "bridging" /\ pump[side] = "running" /\ hand[side] = <<>> /\ wire[side] # <<>>
  /\ NoText(side)
  /\ hand' = [hand EXCEPT ![side] = <<Head(wire[side])>>]
  /\ wire' = [wire EXCEPT ![side] = Tail(@)]
  /\ pump' = [pump EXCEPT ![side] = "ended"]
  /\ UNCHANGED <<handler, socket, shutCode, sent, binary, got>>

(* await ....send(message)                                                  *)
Relay(side) ==
  /\ handler = "bridging" /\ pump[side] = "running" /\ hand[side] # <<>> /\ socket[Other(side)] = "open"
  /\ got' = [got EXCEPT ![Other(side)] = Append(@, Head(hand[side]))]
  /\ hand' = [hand EXCEPT ![side] = Tail(@)]
  /\ UNCHANGED <<handler, socket, shutCode, sent, binary, wire, pump>>

(* Mutation: a send that failed is tried again. *)
RelayFails_Retries(side) ==
  /\ handler = "bridging" /\ pump[side] = "running" /\ hand[side] # <<>> /\ socket[Other(side)] # "open"
  /\ UNCHANGED vars

(* The send raises: the coroutine ends, with the message it held.           *)
RelayFails(side) ==
  /\ handler = "bridging" /\ pump[side] = "running" /\ hand[side] # <<>> /\ socket[Other(side)] # "open"
  /\ pump' = [pump EXCEPT ![side] = "ended"]
  /\ UNCHANGED <<handler, socket, shutCode, sent, binary, wire, hand, got>>

(* Mutation: the end of a socket is noticed before its last messages.       *)
ReadEnds_Early(side) ==
  /\ handler = "bridging" /\ pump[side] = "running" /\ hand[side] = <<>>
  /\ socket[side] # "open"
  /\ pump' = [pump EXCEPT ![side] = "ended"]
  /\ UNCHANGED <<handler, socket, shutCode, sent, binary, wire, hand, got>>

(* The side is closed and all it sent is read: the iteration ends.          *)
ReadEnds(side) ==
  /\ handler = "bridging" /\ pump[side] = "running" /\ hand[side] = <<>>
  /\ socket[side] # "open" /\ wire[side] = <<>>
  /\ pump' = [pump EXCEPT ![side] = "ended"]
  /\ UNCHANGED <<handler, socket, shutCode, sent, binary, wire, hand, got>>

(* gather returns: the sockets that are still open are closed. *)
Finish ==
  /\ handler = "bridging" /\ \A side \in Sides : pump[side] = "ended"
  /\ handler' = "done"
  /\ socket' = [side \in Sides |-> IF socket[side] = "open" THEN "shut" ELSE socket[side]]
  /\ UNCHANGED <<shutCode, sent, binary, wire, hand, pump, got>>

Pump(side) == Read(side) \/ ReadRaises(side) \/ Relay(side) \/ RelayFails(side) \/ ReadEnds(side)

Next ==
  \/ Connect \/ ConnectFails \/ Finish
  \/ \E side \in Sides : Send(side) \/ Leave(side) \/ Pump(side)

Spec == Init /\ [][Next]_vars

(* The event loop runs both coroutines, and connecting ends one way or the  *)
(* other (open_timeout).  Neither side has to send or to leave.             *)
FairSpec ==
  /\ Spec
  /\ WF_vars(Connect \/ ConnectFails) /\ WF_vars(Finish)
  /\ \A side \in Sides : WF_vars(Pump(side))

-----------------------------------------------------------------------------
(* Properties *)

TypeOK ==
  /\ handler \in {"connecting", "bridging", "done"}
  /\ socket \in [Sides -> {"none", "open", "left", "shut"}] /\ shutCode \in {0, 1011}
  /\ sent \in [Sides -> 0..MaxSent] /\ binary \subseteq 1..MaxSent
  /\ wire \in [Sides -> Seq(1..MaxSent)] /\ got \in [Sides -> Seq(1..MaxSent)]
  /\ hand \in [Sides -> {<<>>} \cup {<<n>> : n \in 1..MaxSent}]
  /\ pump \in [Sides -> {"running", "ended"}]

(* What one side receives is what the other sent, in order, none twice and  *)
(* none skipped; the rest is under way or lost at the end.                  *)
InOrder ==
  \A side \in Sides :
    got[Other(side)] \o hand[side] \o wire[side] = [n \in 1..sent[side] |-> n]

(* A message is never dropped while both ends stay: it arrives, or one of   *)
(* the two leaves, or VoteBot was never reached.  Only what the client      *)
(* sends from its first binary frame on is lost, on sockets that stay open; *)
(* what VoteBot sends goes on arriving (the coroutines under gather).       *)
Delivered ==
  \A side \in Sides, n \in 1..MaxSent :
    sent[side] >= n ~> \/ Len(got[Other(side)]) >= n
                       \/ socket[Other(side)] # "open"
                       \/ side = "client" /\ \E m \in binary : m <= n

(* When one side has left, the session ends as soon as the other leaves too *)
(* or says something that the gateway has yet to pass on.  (While the other *)
(* is silent, gather waits for it, and has no deadline.)                    *)
EndsWhenNoticed ==
  \A side \in Sides :
    socket[side] = "left" /\ (socket[Other(side)] = "left" \/ wire[Other(side)] # <<>>)
      ~> handler = "done"

(* A session the gateway gives up is never left hanging: whoever is still   *)
(* there is told, the client with 1011 if VoteBot could not be reached.     *)
NobodyLeftHanging ==
  handler = "done" =>
    /\ \A side \in Sides : socket[side] # "open"
    /\ socket["client"] = "shut" /\ socket["votebot"] = "none" => shutCode = 1011
=============================================================================

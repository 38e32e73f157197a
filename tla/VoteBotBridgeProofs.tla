------------------------ MODULE VoteBotBridgeProofs ------------------------
(* Proofs about VoteBotBridge, for any number of messages. *)
EXTENDS VoteBotBridge, SequenceTheorems, TLAPS

USE MaxSentOK

-----------------------------------------------------------------------------
(* What the steps do to the sequence got \o hand \o wire *)

Message == 1..MaxSent

LEMMA ReadKeeps ==
  ASSUME NEW g \in Seq(Message), NEW w \in Seq(Message), w # <<>>
  PROVE  g \o <<>> \o w = g \o <<Head(w)>> \o Tail(w)
<1>1. <<Head(w)>> \o Tail(w) = w
  BY HeadTailProperties
<1>2. g \o <<>> = g
  BY ConcatEmptySeq
<1>3. g \o <<Head(w)>> \o Tail(w) = g \o (<<Head(w)>> \o Tail(w))
  BY HeadTailProperties, ConcatAssociative
<1> QED
  BY <1>1, <1>2, <1>3

LEMMA RelayKeeps ==
  ASSUME NEW g \in Seq(Message), NEW m \in Message, NEW w \in Seq(Message)
  PROVE  g \o <<m>> \o w = Append(g, m) \o <<>> \o w
<1>1. g \o <<m>> = Append(g, m)
  BY AppendProperties
<1>2. Append(g, m) \o <<>> = Append(g, m)
  BY AppendProperties, ConcatEmptySeq
<1> QED
  BY <1>1, <1>2

LEMMA SendExtends ==
  ASSUME NEW g \in Seq(Message), NEW h \in Seq(Message), NEW w \in Seq(Message), NEW m \in Message
  PROVE  g \o h \o Append(w, m) = Append(g \o h \o w, m)
<1> DEFINE s == g \o h
<1>1. s \in Seq(Message)
  BY ConcatProperties
<1>2. s \o Append(w, m) = Append(s \o w, m)
  <2> HIDE DEF s
  <2> QED
    BY <1>1, AppendProperties, ConcatProperties
<1> QED
  BY <1>2

LEMMA OneMore ==
  ASSUME NEW n \in Nat
  PROVE  Append([i \in 1..n |-> i], n + 1) = [i \in 1..(n + 1) |-> i]
  OBVIOUS

-----------------------------------------------------------------------------
(* Types *)

LEMMA Initially == Init => TypeOK /\ InOrder
<1> SUFFICES ASSUME Init PROVE TypeOK /\ InOrder
  OBVIOUS
<1>1. TypeOK
  BY DEF Init, TypeOK, Each, Sides
<1>2. <<>> \o <<>> \o <<>> = [n \in 1..0 |-> n]
  OBVIOUS
<1> QED
  BY <1>1, <1>2 DEF Init, InOrder, Each, Sides, Other

(* The other side of a side is a side, and not itself. *)
LEMMA Others ==
  ASSUME NEW side \in Sides
  PROVE  Other(side) \in Sides /\ Other(side) # side /\ Other(Other(side)) = side
  BY DEF Sides, Other

(* A coroutine holds nothing or one message. *)
LEMMA Held ==
  ASSUME TypeOK, NEW side \in Sides
  PROVE  /\ hand[side] \in Seq(Message)
         /\ hand[side] # <<>> => \E m \in Message : hand[side] = <<m>>
<1>1. hand[side] \in {<<>>} \cup {<<n>> : n \in Message}
  BY DEF TypeOK, Message
<1>2. CASE hand[side] = <<>>
  BY <1>2
<1>3. CASE hand[side] # <<>>
  <2>1. PICK m \in Message : hand[side] = <<m>>
    BY <1>1, <1>3, Zenon
  <2> QED
    BY <2>1
<1> QED
  BY <1>2, <1>3

LEMMA TypeStep == TypeOK /\ [Next]_vars => TypeOK'
<1> SUFFICES ASSUME TypeOK, [Next]_vars
             PROVE  TypeOK'
  OBVIOUS
<1>1. CASE Connect \/ ConnectFails \/ Finish
  <2>1. /\ handler' \in {"connecting", "bridging", "done"} /\ shutCode' \in {0, 1011}
        /\ UNCHANGED <<sent, binary, wire, hand, pump, got>>
    BY <1>1 DEF Connect, ConnectFails, Finish, TypeOK
  <2>2. socket' \in [Sides -> {"none", "open", "left", "shut"}]
    <3>1. socket \in [Sides -> {"none", "open", "left", "shut"}]
      BY DEF TypeOK
    <3> QED
      BY <1>1, <3>1 DEF Connect, ConnectFails, Finish
  <2> QED
    BY <2>1, <2>2 DEF TypeOK
<1>2. ASSUME NEW side \in Sides, Send(side)
      PROVE  TypeOK'
  <2>1. sent' \in [Sides -> 0..MaxSent] /\ sent'[side] \in Message
    BY <1>2 DEF Send, TypeOK, Message
  <2>2. Append(wire[side], sent'[side]) \in Seq(Message)
    BY <2>1, AppendProperties DEF TypeOK, Message
  <2>3. wire' \in [Sides -> Seq(Message)]
    BY <1>2, <2>2 DEF Send, TypeOK, Message
  <2>4. binary' \subseteq Message
    BY <1>2, <2>1 DEF Send, TypeOK, Message
  <2> QED
    BY <1>2, <2>1, <2>3, <2>4 DEF Send, TypeOK, Message
<1>3. ASSUME NEW side \in Sides, Leave(side)
      PROVE  TypeOK'
  BY <1>3 DEF Leave, TypeOK
<1>4. ASSUME NEW side \in Sides, Read(side) \/ ReadRaises(side)
      PROVE  TypeOK'
  <2>1. wire[side] \in Seq(Message) /\ Head(wire[side]) \in Message /\ Tail(wire[side]) \in Seq(Message)
    BY <1>4, HeadTailProperties DEF Read, ReadRaises, TypeOK, Message
  <2>2. wire' \in [Sides -> Seq(Message)]
    <3>1. wire \in [Sides -> Seq(Message)]
      BY DEF TypeOK, Message
    <3>2. wire' = [wire EXCEPT ![side] = Tail(@)]
      BY <1>4 DEF Read, ReadRaises
    <3> QED
      BY <2>1, <3>1, <3>2
  <2>6. hand' \in [Sides -> {<<>>} \cup {<<n>> : n \in Message}]
    <3> DEFINE H == {<<>>} \cup {<<n>> : n \in Message}
    <3>1. <<Head(wire[side])>> \in H /\ hand \in [Sides -> H]
      BY <2>1 DEF TypeOK, Message
    <3>2. hand' = [hand EXCEPT ![side] = <<Head(wire[side])>>]
      BY <1>4 DEF Read, ReadRaises
    <3> HIDE DEF H
    <3>3. hand' \in [Sides -> H]
      BY <3>1, <3>2
    <3> QED
      BY <3>3 DEF H
  <2>3. pump \in [Sides -> {"running", "ended"}]
    BY DEF TypeOK
  <2>4. pump' \in [Sides -> {"running", "ended"}]
    BY <1>4, <2>3 DEF Read, ReadRaises
  <2>5. UNCHANGED <<handler, socket, shutCode, sent, binary, got>>
    BY <1>4 DEF Read, ReadRaises
  <2> QED
    BY <2>2, <2>4, <2>5, <2>6 DEF TypeOK, Message
<1>5. ASSUME NEW side \in Sides, Relay(side)
      PROVE  TypeOK'
  <2>1. PICK n \in Message : hand[side] = <<n>>
    BY <1>5, Held DEF Relay
  <2>2. Head(hand[side]) = n /\ Tail(hand[side]) = <<>>
    BY <2>1
  <2>3. Append(got[Other(side)], n) \in Seq(Message)
    BY AppendProperties, Others DEF TypeOK, Message
  <2>4. got' \in [Sides -> Seq(Message)]
    BY <1>5, <2>2, <2>3, Others DEF Relay, TypeOK, Message
  <2> QED
    BY <1>5, <2>2, <2>4 DEF Relay, TypeOK, Message
<1>6. ASSUME NEW side \in Sides, RelayFails(side) \/ ReadEnds(side)
      PROVE  TypeOK'
  <2>0. pump \in [Sides -> {"running", "ended"}]
    BY DEF TypeOK
  <2>1. pump' \in [Sides -> {"running", "ended"}]
    BY <1>6, <2>0 DEF RelayFails, ReadEnds
  <2>2. UNCHANGED <<handler, socket, shutCode, sent, binary, wire, hand, got>>
    BY <1>6 DEF RelayFails, ReadEnds
  <2> QED
    BY <2>1, <2>2 DEF TypeOK
<1>7. CASE UNCHANGED vars
  BY <1>7 DEF vars, TypeOK
<1> QED
  BY <1>1, <1>2, <1>3, <1>4, <1>5, <1>6, <1>7 DEF Next, Pump

-----------------------------------------------------------------------------
(* Order *)

(* What a side sent is, in order: received, held, still to be read.         *)
Flow(side) == got[Other(side)] \o hand[side] \o wire[side]

(* A step that moves one side's messages leaves the other's where they are. *)
LEMMA OrderStep == TypeOK /\ InOrder /\ [Next]_vars => InOrder'
<1> SUFFICES ASSUME TypeOK, InOrder, [Next]_vars, NEW q \in Sides
             PROVE  Flow(q)' = [n \in 1..sent'[q] |-> n]
  BY DEF InOrder, Flow
<1>0. /\ Flow(q) = [n \in 1..sent[q] |-> n]
      /\ sent[q] \in Nat
      /\ got[Other(q)] \in Seq(Message) /\ wire[q] \in Seq(Message) /\ hand[q] \in Seq(Message)
  <2>1. Flow(q) = [n \in 1..sent[q] |-> n]
    BY Zenon DEF InOrder, Flow
  <2>2. sent[q] \in Nat /\ got[Other(q)] \in Seq(Message) /\ wire[q] \in Seq(Message)
    BY Others DEF TypeOK, Message
  <2> QED
    BY <2>1, <2>2, Held
<1>f. Flow(q)' = got'[Other(q)] \o hand'[q] \o wire'[q]
  BY DEF Flow, Other
<1>n. Flow(q) = got[Other(q)] \o hand[q] \o wire[q]
  BY DEF Flow
<1>1. CASE UNCHANGED <<sent, wire, hand, got>>
  BY <1>0, <1>1, <1>f, <1>n
<1>2. ASSUME NEW side \in Sides, Send(side)
      PROVE  Flow(q)' = [n \in 1..sent'[q] |-> n]
  <2>1. CASE q = side
    <3>1. sent'[q] = sent[q] + 1 /\ wire'[q] = Append(wire[q], sent[q] + 1) /\ sent[q] + 1 \in Message
      BY <1>2, <2>1 DEF Send, TypeOK, Message
    <3>2. got' = got /\ hand' = hand
      BY <1>2 DEF Send
    <3>3. PICK m \in Message : m = sent[q] + 1
      BY <3>1
    <3>4. got[Other(q)] \o hand[q] \o Append(wire[q], m) = Append(got[Other(q)] \o hand[q] \o wire[q], m)
      BY <1>0, SendExtends, Zenon
    <3>5. Append([n \in 1..sent[q] |-> n], m) = [n \in 1..(sent[q] + 1) |-> n]
      BY <1>0, <3>3, OneMore
    <3> QED
      BY <1>0, <1>f, <1>n, <3>1, <3>2, <3>3, <3>4, <3>5, Zenon
  <2>2. CASE q # side
    <3>1. sent'[q] = sent[q] /\ wire'[q] = wire[q] /\ hand' = hand /\ got' = got
      BY <1>2, <2>2 DEF Send, TypeOK
    <3> QED
      BY <1>0, <1>f, <1>n, <3>1
  <2> QED
    BY <2>1, <2>2
<1>3. ASSUME NEW side \in Sides, Read(side) \/ ReadRaises(side)
      PROVE  Flow(q)' = [n \in 1..sent'[q] |-> n]
  <2>1. CASE q = side
    <3>1. hand[q] = <<>> /\ hand'[q] = <<Head(wire[q])>> /\ wire'[q] = Tail(wire[q]) /\ wire[q] # <<>>
      BY <1>3, <2>1 DEF Read, ReadRaises, TypeOK
    <3>2. sent' = sent /\ got' = got
      BY <1>3 DEF Read, ReadRaises
    <3>3. got[Other(q)] \o <<>> \o wire[q] = got[Other(q)] \o <<Head(wire[q])>> \o Tail(wire[q])
      BY <1>0, <3>1, ReadKeeps
    <3> QED
      BY <1>0, <1>f, <1>n, <3>1, <3>2, <3>3, Zenon
  <2>2. CASE q # side
    <3>1. sent' = sent /\ wire'[q] = wire[q] /\ hand'[q] = hand[q] /\ got' = got
      BY <1>3, <2>2 DEF Read, ReadRaises, TypeOK
    <3> QED
      BY <1>0, <1>f, <1>n, <3>1
  <2> QED
    BY <2>1, <2>2
<1>4. ASSUME NEW side \in Sides, Relay(side)
      PROVE  Flow(q)' = [n \in 1..sent'[q] |-> n]
  <2>1. PICK m \in Message : hand[side] = <<m>>
    BY <1>4, Held DEF Relay
  <2>2. CASE q = side
    <3>1. hand'[q] = <<>> /\ got'[Other(q)] = Append(got[Other(q)], m)
      BY <1>4, <2>1, <2>2, Others DEF Relay, TypeOK
    <3>2. sent' = sent /\ wire' = wire
      BY <1>4 DEF Relay
    <3>3. got[Other(q)] \o <<m>> \o wire[q] = Append(got[Other(q)], m) \o <<>> \o wire[q]
      BY <1>0, RelayKeeps, Zenon
    <3> QED
      BY <1>0, <1>f, <1>n, <2>1, <2>2, <3>1, <3>2, <3>3, Zenon
  <2>3. CASE q # side
    <3>1. Other(q) # Other(side)
      BY <2>3, Others
    <3>2. got'[Other(q)] = got[Other(q)] /\ hand'[q] = hand[q]
      BY <1>4, <2>3, <3>1, Others DEF Relay, TypeOK
    <3>3. sent' = sent /\ wire' = wire
      BY <1>4 DEF Relay
    <3> QED
      BY <1>0, <1>f, <1>n, <3>2, <3>3
  <2> QED
    BY <2>2, <2>3
<1> QED
  BY <1>1, <1>2, <1>3, <1>4
     DEF Next, Pump, Connect, ConnectFails, Finish, Leave, RelayFails, ReadEnds, vars

-----------------------------------------------------------------------------
(* How a session ends *)

(* VoteBot's socket is there exactly when the connection was made, and the  *)
(* gateway shuts nothing before the end.                                    *)
Ending ==
  /\ handler = "connecting" => socket["votebot"] = "none" /\ socket["client"] # "shut"
  /\ handler = "bridging" => socket["votebot"] # "none"
  /\ NobodyLeftHanging

LEMMA EndingStep == TypeOK /\ Ending /\ [Next]_vars => Ending'
<1> SUFFICES ASSUME TypeOK, Ending, [Next]_vars
             PROVE  Ending'
  OBVIOUS
<1>0. /\ "client" \in Sides /\ "votebot" \in Sides
      /\ socket \in [Sides -> {"none", "open", "left", "shut"}]
      /\ handler \in {"connecting", "bridging", "done"}
  BY DEF Sides, TypeOK
<1>1. CASE Connect
  BY <1>0, <1>1 DEF Connect, Ending, NobodyLeftHanging
<1>2. CASE ConnectFails
  <2>1. handler' = "done" /\ socket["votebot"] = "none" /\ socket'["votebot"] = "none" /\ socket["client"] # "shut"
    BY <1>0, <1>2 DEF ConnectFails, Ending
  <2>2. socket'["client"] # "open" /\ (socket'["client"] = "shut" => shutCode' = 1011)
    BY <1>0, <1>2, <2>1 DEF ConnectFails
  <2> QED
    BY <2>1, <2>2 DEF Ending, NobodyLeftHanging, Sides
<1>3. CASE Finish
  <2>1. handler' = "done" /\ socket["votebot"] # "none" /\ \A side \in Sides : socket'[side] # "open"
    BY <1>0, <1>3 DEF Finish, Ending
  <2>2. socket'["votebot"] # "none"
    BY <1>0, <1>3, <2>1 DEF Finish
  <2> QED
    BY <2>1, <2>2 DEF Ending, NobodyLeftHanging
<1>4. ASSUME NEW side \in Sides, Leave(side)
      PROVE  Ending'
  BY <1>0, <1>4 DEF Leave, Ending, NobodyLeftHanging, Sides
<1>5. CASE UNCHANGED <<handler, socket, shutCode>>
  BY <1>5 DEF Ending, NobodyLeftHanging
<1> QED
  BY <1>1, <1>2, <1>3, <1>4, <1>5 DEF Next, Send, Pump, Read, ReadRaises, Relay, RelayFails, ReadEnds, vars

-----------------------------------------------------------------------------
(* The theorems *)

LEMMA Inductive == Spec => [](TypeOK /\ InOrder)
  BY Initially, TypeStep, OrderStep, PTL DEF Spec

(* However many messages either side sends, and whoever leaves when: each   *)
(* side receives what the other sent, in order, none twice and none skipped *)
(* (the two coroutines of votebot_websocket).                               *)
THEOREM MessagesInOrder == Spec => []InOrder
  BY Inductive, PTL

(* However the session ends, whoever is still there is told, and a client   *)
(* whose VoteBot was never reached with 1011 (the handler's except clause,  *)
(* and what closes both sockets after gather).                              *)
THEOREM WhoeverStaysIsTold == Spec => []NobodyLeftHanging
<1>1. Init => Ending
  BY DEF Init, Ending, NobodyLeftHanging, Sides
<1>2. Ending => NobodyLeftHanging
  BY DEF Ending
<1> QED
  BY <1>1, <1>2, Inductive, EndingStep, PTL DEF Spec
=============================================================================

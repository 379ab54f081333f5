----------------------------- MODULE MqttClient -----------------------------
(***************************************************************************)
(* mqtt_client, cpp/src/mqtt/mqtt_client.cpp, with mqtt_header.cpp: one    *)
(* side sends message objects, the other reads the stream in pieces of any *)
(* length and hands the messages to its handler.                           *)
(*                                                                         *)
(* Between them is a connection that keeps the order of the bytes and may  *)
(* be lost (WriteBuffer and ClientSocket are about how it does so).  The   *)
(* callback of read_await is broken into the steps of its loops.           *)
(***************************************************************************)
EXTENDS MqttCodec

CONSTANTS Messages,  (* the message objects of the sender, as built        *)
          ReadMax,   (* the size of the buffer in read_await, 1024         *)
          Garbage,   (* what may be in the byte behind buff_               *)
          SendMax    (* a bound on the messages sent                       *)

ASSUME MqttAssumption ==
    /\ ReadMax \in Nat \ {0} /\ SendMax \in Nat
    /\ \A i \in DOMAIN Messages : Messages[i] \in Objects

VARIABLES objs,      (* the sender's objects: to_string changes them       *)
          sent,      (* history: the messages as they were written         *)
          stream,    (* the bytes on their way                             *)
          data,      (* what is left of the bytes read                     *)
          hdr,       (* header_: type, flags, length, and how far it is    *)
          obj,       (* message_, or NoMessage                             *)
          delivered, (* history: what the handler was called with          *)
          closed     (* why the connection was closed, "" while it is open *)

sendVars == <<objs, sent>>
parseVars == <<data, hdr, obj>>
mqttVars == <<objs, sent, stream, data, hdr, obj, delivered, closed>>

\* mqtt_header's reset and constructor.
NoHeader == [st |-> "TYPE", type |-> 0, flags |-> 0, len |-> 0, buf |-> <<>>, fin |-> FALSE]

MqttInit ==
    /\ objs = [i \in DOMAIN Messages |-> Messages[i]]
    /\ sent = <<>>
    /\ stream = <<>>
    /\ data = <<>>
    /\ hdr = NoHeader
    /\ obj = NoMessage
    /\ delivered = <<>>
    /\ closed = ""

\* send_await: the bytes are written, or nothing when to_string refuses.
SendAwait(i) ==
    /\ Len(sent) < SendMax
    /\ closed = ""
    /\ LET w == to_string(objs[i])
       IN  /\ w.ok
           /\ objs' = [objs EXCEPT ![i] = w.m]
           /\ sent' = Append(sent, w.m)
           /\ stream' = stream \o w.out
    /\ UNCHANGED <<parseVars, delivered, closed>>

-----------------------------------------------------------------------------
Close(why) ==
    /\ closed' = why
    /\ data' = <<>>
    /\ UNCHANGED <<sendVars, stream, hdr, obj, delivered>>

\* Nothing is left of what was read: the callback has returned.
Idle ==
    /\ closed = ""
    /\ data = <<>>
    /\ ~hdr.fin \/ (obj # NoMessage /\ ~obj.done)

\* The read callback with data.
Read ==
    /\ Idle
    /\ \E n \in 1..ReadMax :
          /\ n <= Len(stream)
          /\ data' = SubSeq(stream, 1, n)
          /\ stream' = SubSeq(stream, n + 1, Len(stream))
    /\ UNCHANGED <<sendVars, hdr, obj, delivered, closed>>

\* The read callback when the time is over and the timeout handler does not
\* say to go on, and when the connection is lost.
Expired == Idle /\ Close("timeout")
Lost == Idle /\ Close("lost")

\* update_header_type.
HeaderType ==
    /\ data # <<>> /\ ~hdr.fin /\ hdr.st = "TYPE"
    /\ LET t == (Head(data) % 256) \div 16
       IN  IF t \notin CONNECT..DISCONNECT THEN Close("error")
           ELSE /\ hdr' = [hdr EXCEPT !.type = t, !.flags = Head(data) % 16,
                                      !.st = "LEN", !.buf = <<>>]
                /\ data' = Tail(data)
                /\ UNCHANGED <<sendVars, stream, obj, delivered, closed>>

\* What the digits of a length amount to.
Digits(b) ==
    LET at(i) == IF i <= Len(b) THEN b[i] % LenBase ELSE 0
    IN  at(1) + LenBase * (at(2) + LenBase * (at(3) + LenBase * at(4)))

\* Slip: the digits read before a cut are forgotten.
HeaderLenAnew ==
    /\ data # <<>> /\ ~hdr.fin /\ hdr.st = "LEN"
    /\ LET b == IF Len(data) = 1 THEN <<Head(data)>> ELSE Append(hdr.buf, Head(data))
       IN  /\ hdr' = [hdr EXCEPT !.buf = b, !.fin = Head(data) < LenBase,
                                 !.len = IF Head(data) < LenBase THEN Digits(b) ELSE @]
           /\ data' = Tail(data)
    /\ UNCHANGED <<sendVars, stream, obj, delivered, closed>>

\* update_header_len, one digit; the fourth must be the last.
HeaderLen ==
    /\ data # <<>> /\ ~hdr.fin /\ hdr.st = "LEN"
    /\ LET b == Append(hdr.buf, Head(data))
           last == Head(data) < LenBase
       IN  IF Len(b) = 4 /\ ~last THEN Close("error")
           ELSE /\ hdr' = [hdr EXCEPT !.buf = b, !.fin = last,
                                      !.len = IF last THEN Digits(b) ELSE @]
                /\ data' = Tail(data)
                /\ UNCHANGED <<sendVars, stream, obj, delivered, closed>>

\* create_message.
Create ==
    /\ closed = "" /\ hdr.fin /\ obj = NoMessage
    /\ obj' = Created(hdr.type, hdr.flags, hdr.len)
    /\ UNCHANGED <<sendVars, stream, data, hdr, delivered, closed>>

\* One turn of the loop in the message's update.
UpdateMessage ==
    /\ data # <<>> /\ obj # NoMessage /\ ~obj.done
    /\ \E g \in Garbage :
          LET r == Update(obj, data, g)
          IN  IF r.err THEN Close("error")
              ELSE /\ obj' = r.p
                   /\ data' = r.d
                   /\ UNCHANGED <<sendVars, stream, hdr, delivered, closed>>

\* Slip: the header is not reset.
FinishedKeepsHeader ==
    /\ closed = "" /\ obj # NoMessage /\ obj.done
    /\ delivered' = Append(delivered, obj.m)
    /\ obj' = NoMessage
    /\ UNCHANGED <<sendVars, stream, data, hdr, closed>>

\* A finished message goes to the handler, which may refuse it, and the header
\* is made ready for the next one.
Finished ==
    /\ closed = "" /\ obj # NoMessage /\ obj.done
    /\ delivered' = Append(delivered, obj.m)
    /\ hdr' = NoHeader
    /\ obj' = NoMessage
    /\ \E ok \in BOOLEAN :
          /\ closed' = IF ok THEN "" ELSE "handler"
          /\ data' = IF ok THEN data ELSE <<>>
    /\ UNCHANGED <<sendVars, stream>>

MqttParse == HeaderType \/ HeaderLen \/ Create \/ UpdateMessage \/ Finished

MqttNext ==
    \/ \E i \in DOMAIN Messages : SendAwait(i)
    \/ Read \/ MqttParse
    \/ Expired \/ Lost

MqttSpec == MqttInit /\ [][MqttNext]_mqttVars

\* Fairness: the loop goes on calling the callback while there are bytes, and
\* the callback runs to its end.
FairMqttSpec == MqttSpec /\ WF_mqttVars(Read \/ MqttParse)

-----------------------------------------------------------------------------
(***************************************************************************)
(* Properties.                                                             *)
(***************************************************************************)

\* What the receiver's message should be: the sender's with what is not on the
\* wire, the count of the body and the id of a publish of QoS 0, left out.
Seen(m) ==
    CASE m.type = PUBLISH -> IF Qos(m.flags) = 0 THEN [m EXCEPT !.pkt = 0] ELSE m
      [] m.type = SUBSCRIBE -> [type |-> m.type, flags |-> m.flags, pkt |-> m.pkt,
                                topics |-> m.topics, qoses |-> m.qoses]
      [] m.type = UNSUBSCRIBE -> [type |-> m.type, flags |-> m.flags, pkt |-> m.pkt,
                                  topics |-> m.topics]
      [] m.type = SUBACK -> [type |-> m.type, flags |-> m.flags, pkt |-> m.pkt,
                             qoses |-> m.qoses]
      [] OTHER -> m

\* The same but for what the receiver gets wrong without harm to what follows:
\* the flags of a subscribe, and keep_alive and the QoS of the will of a connect.
Same(a, b) ==
    CASE a.type = CONNECT /\ b.type = CONNECT ->
            [a EXCEPT !.keep = 0, !.wqos = 0] = [b EXCEPT !.keep = 0, !.wqos = 0]
      [] a.type = SUBSCRIBE /\ b.type = SUBSCRIBE -> [a EXCEPT !.flags = 0] = b
      [] OTHER -> a = b

\* The messages the code gets through: no text whose length does not fit a short,
\* no topic of length 0, no publish of QoS 0 without a payload, no unsubscribe of
\* several topics, no suback with a failure, and no object with a list that was
\* sent before.
Fits(s) == Len(s) < 65536
Topic(s) == s # <<>> /\ Fits(s)

Sound(m) ==
    CASE m.type = CONNECT -> \A s \in {m.cid, m.wtopic, m.wmsg, m.user, m.pass} : Fits(s)
      [] m.type = PUBLISH -> Topic(m.topic) /\ (Qos(m.flags) > 0 \/ m.payload # <<>>)
      [] m.type = UNSUBSCRIBE -> /\ Len(m.topics) = 1 /\ Topic(m.topics[1])
                                 /\ m.body = Len(m.topics[1]) + 4
      [] m.type = SUBSCRIBE -> /\ \A i \in DOMAIN m.topics : Topic(m.topics[i])
                               /\ m.body = Len(SubscribeEntries(m)) + 2
      [] m.type = SUBACK -> (\A i \in DOMAIN m.qoses : m.qoses[i] <= 2)
                               /\ m.body = Len(m.qoses) + 2
      [] OTHER -> TRUE

SoundUpTo(n) == \A i \in 1..n : Sound(sent[i])

\* However the stream is cut, up to the first message that the code does not get
\* through the handler is called with the messages sent, each once, in order and
\* unchanged.
DeliveredAsSent ==
    \A n \in DOMAIN delivered :
        n - 1 <= Len(sent) /\ SoundUpTo(n - 1) =>
            /\ n \in DOMAIN sent
            /\ Sound(sent[n]) => Same(Seen(sent[n]), delivered[n])

\* No message the code gets through makes the parser give up the connection.
RefusedIsUnsound == closed = "error" => ~SoundUpTo(Len(sent))

\* And every one is delivered, unless the connection ends for another reason.
AllDelivered ==
    \A n \in 1..SendMax :
        Len(sent) >= n /\ SoundUpTo(n) ~>
            Len(delivered) >= n \/ closed \in {"handler", "timeout", "lost"}

\* What mqtt_message.hpp says of every message: parsing is the inverse of
\* serialising.
RoundTrip ==
    \A n \in DOMAIN delivered : n \in DOMAIN sent /\ delivered[n] = Seen(sent[n])
=============================================================================

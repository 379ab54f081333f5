------------------------------ MODULE MqttCodec ------------------------------
(***************************************************************************)
(* The MQTT messages, cpp/src/mqtt: how to_string makes bytes of a message *)
(* and how update(), one handler for each part of a message, makes a       *)
(* message of bytes that come in pieces.                                   *)
(*                                                                         *)
(* A message object is a record with its type, the flags of its header and *)
(* the fields of its class; texts are sequences of bytes.  LenBase is the  *)
(* 128 of the length encoding and UintMod the 2^32 of unsigned: small      *)
(* values make the long encodings short.                                   *)
(***************************************************************************)
EXTENDS Integers, SequencesExt

CONSTANTS LenBase, UintMod

\* The four places of a length: 128, 16384, 2097152 and 268435456.
LenPow ==
    <<LenBase, LenBase * LenBase, LenBase * LenBase * LenBase,
      LenBase * LenBase * LenBase * LenBase>>

ASSUME CodecAssumption ==
    LenBase \in 2..128 /\ UintMod \in Nat \ {0} /\ LenPow[4] <= UintMod

\* mqtt_type_t.
CONNECT == 1
CONNACK == 2
PUBLISH == 3
PUBACK == 4
PUBREC == 5
PUBREL == 6
PUBCOMP == 7
SUBSCRIBE == 8
SUBACK == 9
UNSUBSCRIBE == 10
UNSUBACK == 11
PINGREQ == 12
PINGRESP == 13
DISCONNECT == 14

Acks == {PUBACK, PUBREC, PUBREL, PUBCOMP, UNSUBACK}
Bodyless == {PINGREQ, PINGRESP, DISCONNECT}

\* The bit of n with the weight w, a power of two.
Has(n, w) == (n \div w) % 2 = 1

SetBit(n, w) == IF Has(n, w) THEN n ELSE n + w

\* mqtt_header's get_qos.
Qos(flags) == IF (flags \div 2) % 4 = 3 THEN 0 ELSE (flags \div 2) % 4

SumLen(q) == FoldLeft(LAMBDA n, s : n + Len(s), 0, q)

-----------------------------------------------------------------------------
(***************************************************************************)
(* Messages as the application builds them with the setters.               *)
(***************************************************************************)
NewConnect(cid, will, user, pass, clean, keep) ==
    [type |-> CONNECT, flags |-> 0, cflags |-> (IF clean THEN 2 ELSE 0) + 8 * will.qos,
     wqos |-> will.qos, keep |-> keep, cid |-> cid, wtopic |-> will.topic,
     wmsg |-> will.msg, user |-> user, pass |-> pass]

NewConnack(session, code) ==
    [type |-> CONNACK, flags |-> 0, cflags |-> IF session THEN 1 ELSE 0, code |-> code]

\* set_qos, set_dup and set_remain.
Flags(qos, dup, remain) == 8 * dup + 2 * qos + remain

NewPublish(topic, pkt, payload, qos, dup, remain) ==
    [type |-> PUBLISH, flags |-> Flags(qos, dup, remain), topic |-> topic,
     pkt |-> pkt, payload |-> payload]

NewAck(type, pkt) ==
    [type |-> type, flags |-> IF type = PUBREL THEN 2 ELSE 0, pkt |-> pkt]

\* add_topic counts the body up.
NewSubscribe(pkt, topics, qoses) ==
    [type |-> SUBSCRIBE, flags |-> 0, pkt |-> pkt, topics |-> topics, qoses |-> qoses,
     body |-> SumLen(topics) + 3 * Len(topics)]

NewUnsubscribe(pkt, topics) ==
    [type |-> UNSUBSCRIBE, flags |-> 0, pkt |-> pkt, topics |-> topics,
     body |-> SumLen(topics) + 2 * Len(topics)]

NewSuback(pkt, qoses) ==
    [type |-> SUBACK, flags |-> 0, pkt |-> pkt, qoses |-> qoses, body |-> Len(qoses)]

NewBodyless(type) == [type |-> type, flags |-> 0]

\* What these build, and what to_string leaves of it.
Bytes == 0..255
Words == 0..65535
Texts == Seq(Bytes)

Connects ==
    {m \in [type : {CONNECT}, flags : {0}, cflags : Bytes, wqos : 0..2, keep : Words,
            cid : Texts, wtopic : Texts, wmsg : Texts, user : Texts, pass : Texts] :
        /\ Has(m.cflags, 4) => m.wtopic # <<>> /\ m.wmsg # <<>>
        /\ Has(m.cflags, 128) => m.user # <<>>
        /\ Has(m.cflags, 64) => m.pass # <<>>}
Connacks == [type : {CONNACK}, flags : {0}, cflags : 0..1, code : Bytes]
Publishes == [type : {PUBLISH}, flags : 0..15, topic : Texts, pkt : Words, payload : Texts]
AckMessages ==
    {m \in [type : Acks, flags : {0, 2}, pkt : Words] : m.flags = 2 <=> m.type = PUBREL}
Subscribes ==
    {m \in [type : {SUBSCRIBE}, flags : {0, 2}, pkt : Words, topics : Seq(Texts),
            qoses : Seq(0..2), body : Nat] : Len(m.topics) = Len(m.qoses)}
Unsubscribes ==
    [type : {UNSUBSCRIBE}, flags : {0, 2}, pkt : Words, topics : Seq(Texts), body : Nat]
Subacks == [type : {SUBACK}, flags : {0}, pkt : Words, qoses : Texts, body : Nat]
Signals == [type : Bodyless, flags : {0}]

Objects ==
    Connects \cup Connacks \cup Publishes \cup AckMessages \cup Subscribes
      \cup Unsubscribes \cup Subacks \cup Signals

-----------------------------------------------------------------------------
(***************************************************************************)
(* to_string.                                                              *)
(***************************************************************************)

\* n >> 7 * i.
Down(n, i) ==
    CASE i = 0 -> n
      [] i = 1 -> n \div LenBase
      [] i = 2 -> (n \div LenBase) \div LenBase
      [] i = 3 -> ((n \div LenBase) \div LenBase) \div LenBase

\* A length of k digits, all but the last marked.
LenBytes(n, k) ==
    [i \in 1..k |-> (Down(n, i - 1) % LenBase) + (IF i < k THEN LenBase ELSE 0)]

\* Slip: a length that fills its digits gets no further one.
HeaderShort(type, flags, n) ==
    LET k == CHOOSE k \in 1..4 : n <= LenPow[k] /\ \A j \in 1..(k - 1) : n > LenPow[j]
    IN  <<16 * type + flags>> \o LenBytes(n, k)

\* build_header, for a remaining length of at most four digits.
Header(type, flags, n) ==
    LET k == CHOOSE k \in 1..4 : n < LenPow[k] /\ \A j \in 1..(k - 1) : n >= LenPow[j]
    IN  <<16 * type + flags>> \o LenBytes(n, k)

\* The pack_add functions.
Short(n) == <<(n \div 256) % 256, n % 256>>
Text(s) == Short(Len(s)) \o (IF Len(s) % 65536 = 0 THEN <<>> ELSE s)
Optional(s) == IF s = <<>> THEN <<>> ELSE Text(s)

\* What goes out, or nothing when to_string returns false, and what becomes of
\* the message: some change it.
Written(m, n, out) ==
    [ok |-> n < LenPow[4], m |-> m,
     out |-> IF n < LenPow[4] THEN Header(m.type, m.flags, n) \o out ELSE <<>>]
Refused(m) == [ok |-> FALSE, m |-> m, out |-> <<>>]

\* The texts of a connect.
ConnectTexts(m) ==
    Text(m.cid) \o Optional(m.wtopic) \o Optional(m.wmsg) \o Optional(m.user)
      \o Optional(m.pass)

\* mqtt_connect::to_string.  A will needs a topic and a message.
ConnectBytes(m) ==
    LET will == m.wtopic # <<>> /\ m.wmsg # <<>>
        m1 == IF will THEN [m EXCEPT !.cflags = SetBit(@, 4)]
              ELSE [m EXCEPT !.wtopic = <<>>, !.wmsg = <<>>]
        m2 == IF m.user # <<>> THEN [m1 EXCEPT !.cflags = SetBit(@, 128)] ELSE m1
        m3 == IF m.pass # <<>> THEN [m2 EXCEPT !.cflags = SetBit(@, 64)] ELSE m2
    IN  Written(m3, 10 + Len(ConnectTexts(m3)),
                <<0, 4, 77, 81, 84, 84, 4, m3.cflags>> \o Short(m.keep) \o ConnectTexts(m3))

ConnackBytes(m) == Written(m, 2, <<m.cflags, m.code>>)

\* mqtt_publish::to_string.  An id is needed above QoS 0, dup is not sent at it.
PublishBytes(m) ==
    LET q == Qos(m.flags)
        id == IF q > 0 THEN Short(m.pkt) ELSE <<>>
        m1 == IF q = 0 THEN [m EXCEPT !.flags = @ % 8] ELSE m
    IN  IF q > 0 /\ m.pkt = 0 THEN Refused(m)
        ELSE Written(m1, Len(m.topic) + 2 + Len(m.payload) + Len(id),
                     Text(m.topic) \o id \o m.payload)

AckBytes(m) == Written(m, 2, Short(m.pkt))

\* What follows the id in a subscribe and an unsubscribe.
SubscribeEntries(m) ==
    FlattenSeq([i \in DOMAIN m.topics |-> Text(m.topics[i]) \o <<m.qoses[i]>>])
UnsubscribeEntries(m) == FlattenSeq([i \in DOMAIN m.topics |-> Text(m.topics[i])])

\* to_string of subscribe, unsubscribe and suback: the two bytes of the id are
\* added to the length of the body at every call.
SubscribeBytes(m) ==
    LET m1 == [m EXCEPT !.flags = 2, !.body = @ + 2]
    IN  IF m.topics = <<>> THEN Refused(m)
        ELSE Written(m1, m1.body, Short(m.pkt) \o SubscribeEntries(m))

UnsubscribeBytes(m) ==
    LET m1 == [m EXCEPT !.flags = 2, !.body = @ + 2]
    IN  IF m.topics = <<>> THEN Refused(m)
        ELSE Written(m1, m1.body, Short(m.pkt) \o UnsubscribeEntries(m))

SubackBytes(m) ==
    LET m1 == [m EXCEPT !.body = @ + 2]
    IN  IF m.qoses = <<>> THEN Refused(m)
        ELSE Written(m1, m1.body, Short(m.pkt) \o m.qoses)

to_string(m) ==
    CASE m.type = CONNECT -> ConnectBytes(m)
      [] m.type = CONNACK -> ConnackBytes(m)
      [] m.type = PUBLISH -> PublishBytes(m)
      [] m.type \in Acks -> AckBytes(m)
      [] m.type = SUBSCRIBE -> SubscribeBytes(m)
      [] m.type = UNSUBSCRIBE -> UnsubscribeBytes(m)
      [] m.type = SUBACK -> SubackBytes(m)
      [] m.type \in Bodyless -> Written(m, 0, <<>>)

-----------------------------------------------------------------------------
(***************************************************************************)
(* update.  The object being read is p: the message m, the handler st that *)
(* is next, buf for the parts of fixed length, need for the rest of a text *)
(* (dlen_), acc for the topic so far (topic_), nread, body for body_len_   *)
(* and payload_len_, head for hlen_var_, and done for finished_.  d are    *)
(* the bytes at hand, err the error that closes the connection.            *)
(***************************************************************************)
NoMessage == [type |-> 0]

NewObject(m, st, n) ==
    [m |-> m, st |-> st, buf |-> <<>>, need |-> 0, acc |-> <<>>, nread |-> 0,
     body |-> n, head |-> 0, done |-> m.type \in Bodyless]

\* create_message, from a header with these flags and remaining length.  A
\* subscribe and a suback drop the flags; a pubrel sets its own.
Created(type, flags, n) ==
    LET id == [type |-> type, flags |-> flags, pkt |-> 0]
    IN  CASE type = CONNECT -> NewObject(
                 [type |-> type, flags |-> flags, cflags |-> 0, wqos |-> 0, keep |-> 300, cid |-> <<>>,
                  wtopic |-> <<>>, wmsg |-> <<>>, user |-> <<>>, pass |-> <<>>], "HDR_VAR", n)
          [] type = CONNACK -> NewObject(
                 [type |-> type, flags |-> flags, cflags |-> 0, code |-> 0], "HDR_VAR", n)
          [] type = PUBLISH -> NewObject(
                 [type |-> type, flags |-> flags, topic |-> <<>>, pkt |-> 0,
                  payload |-> <<>>], "HDR_VAR", n)
          [] type \in Acks -> NewObject(
                 IF type = PUBREL THEN [id EXCEPT !.flags = 2] ELSE id, "HDR_VAR", n)
          [] type = SUBSCRIBE -> NewObject(
                 [type |-> type, flags |-> 0, pkt |-> 0, topics |-> <<>>, qoses |-> <<>>],
                 "HDR_VAR", n)
          [] type = UNSUBSCRIBE -> NewObject(
                 [type |-> type, flags |-> flags, pkt |-> 0, topics |-> <<>>], "HDR_VAR", n)
          [] type = SUBACK -> NewObject(
                 [type |-> type, flags |-> 0, pkt |-> 0, qoses |-> <<>>], "HDR_VAR", n)
          [] type \in Bodyless -> NewObject([type |-> type, flags |-> flags], "NONE", n)

Result(p, d) == [p |-> p, d |-> d, err |-> FALSE]
Failed(p) == [p |-> p, d |-> <<>>, err |-> TRUE]

UnpackShort(b) == 256 * b[1] + b[2]

\* The loops that fill a buffer of n bytes: buf and the rest of d.
Take(buf, n, d) ==
    LET k == IF n - Len(buf) < Len(d) THEN n - Len(buf) ELSE Len(d)
    IN  [buf |-> buf \o SubSeq(d, 1, k), d |-> SubSeq(d, k + 1, Len(d)), n |-> k]

\* A part of n bytes is read into buf; whole says that it is there.
Fixed(p, d, n) ==
    LET t == Take(p.buf, n, d)
    IN  [p |-> [p EXCEPT !.buf = t.buf], d |-> t.d, err |-> FALSE, whole |-> Len(t.buf) = n]

\* A length of two bytes.
Length(p, d) ==
    LET t == Take(p.buf, 2, d)
        q == [p EXCEPT !.buf = t.buf, !.nread = @ + t.n]
        whole == Len(t.buf) = 2
    IN  [p |-> IF whole THEN [q EXCEPT !.buf = <<>>, !.need = UnpackShort(t.buf)] ELSE q,
         d |-> t.d, err |-> FALSE, whole |-> whole]

\* A text of need bytes is added to acc.
Value(p, d) ==
    LET t == Take(<<>>, p.need, d)
    IN  [p |-> [p EXCEPT !.need = @ - t.n, !.acc = @ \o t.buf], d |-> t.d,
         err |-> FALSE, whole |-> p.need = t.n]

\* The handler is next, or the message is finished.
Goes(p, st) == IF st = "FINISHED" THEN [p EXCEPT !.done = TRUE] ELSE [p EXCEPT !.st = st]

(***************************************************************************)
(* The handlers of mqtt_connect.                                           *)
(***************************************************************************)
AfterUser(p) == IF Has(p.m.cflags, 64) THEN "PASSWD_LEN" ELSE "FINISHED"
AfterWill(p) == IF Has(p.m.cflags, 128) THEN "USERNAME_LEN" ELSE AfterUser(p)
AfterCid(p) == IF Has(p.m.cflags, 4) THEN "WILL_TOPIC_LEN" ELSE AfterWill(p)

\* The handler of a text's length and that of the text.
ValOf(st) ==
    CASE st = "CID_LEN" -> "CID_VAL"
      [] st = "WILL_TOPIC_LEN" -> "WILL_TOPIC_VAL"
      [] st = "WILL_MSG_LEN" -> "WILL_MSG_VAL"
      [] st = "USERNAME_LEN" -> "USERNAME_VAL"
      [] st = "PASSWD_LEN" -> "PASSWD_VAL"

ConnectVals == {"CID_VAL", "WILL_TOPIC_VAL", "WILL_MSG_VAL", "USERNAME_VAL", "PASSWD_VAL"}

ConnectField(val) ==
    CASE val = "CID_VAL" -> "cid" [] val = "WILL_TOPIC_VAL" -> "wtopic"
      [] val = "WILL_MSG_VAL" -> "wmsg" [] val = "USERNAME_VAL" -> "user"
      [] val = "PASSWD_VAL" -> "pass"

\* Where to go after the text, and after its length if that is 0.  The topic of
\* a will of length 0 is waited for all the same.
ConnectAfter(p, val) ==
    CASE val = "CID_VAL" -> AfterCid(p)
      [] val = "WILL_TOPIC_VAL" -> "WILL_MSG_LEN"
      [] val = "WILL_MSG_VAL" -> AfterWill(p)
      [] val = "USERNAME_VAL" -> AfterUser(p)
      [] val = "PASSWD_VAL" -> "FINISHED"

\* update_header_var: ten bytes of which the flags are the eighth.  keep_alive
\* is read from the tenth and the byte behind buff_, garbage g.
ConnectVar(p, d, g) ==
    LET r == Fixed(p, d, 10)
        b == r.p.buf
    IN  IF ~r.whole THEN r
        ELSE Result([r.p EXCEPT !.m.cflags = b[8], !.m.keep = 256 * b[10] + g,
                                !.buf = <<>>, !.st = "CID_LEN"], r.d)

ConnectLen(p, d) ==
    LET r == Length(p, d)
        val == ValOf(p.st)
        wait == r.p.need > 0 \/ val = "WILL_TOPIC_VAL"
    IN  IF ~r.whole THEN r
        ELSE Result(Goes(r.p, IF wait THEN val ELSE ConnectAfter(r.p, val)), r.d)

ConnectVal(p, d) ==
    LET r == Value(p, d)
        q == [r.p EXCEPT !.m[ConnectField(p.st)] = r.p.acc, !.acc = <<>>]
    IN  CASE p.need <= 0 -> Failed(p)
          [] p.need > 0 /\ ~r.whole -> r
          [] OTHER -> Result(Goes(q, ConnectAfter(q, p.st)), r.d)

ConnectUpdate(p, d, g) ==
    CASE p.st = "HDR_VAR" -> ConnectVar(p, d, g)
      [] p.st \in ConnectVals -> ConnectVal(p, d)
      [] OTHER -> ConnectLen(p, d)

(***************************************************************************)
(* The handlers of mqtt_connack and mqtt_ack.                              *)
(***************************************************************************)
ConnackUpdate(p, d) ==
    LET r == Fixed(p, d, 2)
    IN  IF ~r.whole THEN r
        ELSE Result([r.p EXCEPT !.m.cflags = r.p.buf[1], !.m.code = r.p.buf[2],
                                !.done = TRUE], r.d)

AckUpdate(p, d) ==
    LET r == Fixed(p, d, 2)
    IN  IF ~r.whole THEN r
        ELSE Result([r.p EXCEPT !.m.pkt = UnpackShort(r.p.buf), !.done = TRUE], r.d)

(***************************************************************************)
(* The handlers of mqtt_publish.                                           *)
(***************************************************************************)
PublishTopicLen(p, d) ==
    LET r == Length(p, d)
    IN  CASE ~r.whole -> r
          [] r.whole /\ r.p.need = 0 -> Failed(r.p)
          [] OTHER -> Result([r.p EXCEPT !.head = r.p.need + 2, !.st = "TOPIC_VAL"], r.d)

\* At QoS 0 the payload is next, also when there is none, and the length of the
\* topic is not compared with the body's.
PublishTopicVal(p, d) ==
    LET r == Value(p, d)
        q == [r.p EXCEPT !.m.topic = r.p.acc]
    IN  CASE ~r.whole -> r
          [] r.whole /\ Qos(p.m.flags) # 0 -> Result([q EXCEPT !.st = "PKTID"], r.d)
          [] OTHER -> Result([q EXCEPT !.body = (@ - q.head) % UintMod,
                                       !.st = "PAYLOAD"], r.d)

PublishPktid(p, d) ==
    LET t == Take(p.buf, 2, d)
        q == [p EXCEPT !.buf = t.buf, !.head = @ + 2, !.m.pkt = UnpackShort(t.buf)]
    IN  CASE Len(t.buf) < 2 -> Result([p EXCEPT !.buf = t.buf], t.d)
          [] Len(t.buf) = 2 /\ p.body = 0 -> Result([q EXCEPT !.done = TRUE], t.d)
          [] Len(t.buf) = 2 /\ p.body # 0 /\ p.body < q.head -> Failed(q)
          [] OTHER -> Result([q EXCEPT !.body = @ - q.head, !.st = "PAYLOAD",
                                       !.done = p.body = q.head], t.d)

PublishPayload(p, d) ==
    IF p.body <= Len(p.m.payload) THEN Failed(p)
    ELSE LET t == Take(p.m.payload, p.body, d)
         IN  Result([p EXCEPT !.m.payload = t.buf, !.done = Len(t.buf) = p.body], t.d)

PublishUpdate(p, d) ==
    CASE p.st = "HDR_VAR" -> Result([p EXCEPT !.st = "TOPIC_LEN"], d)
      [] p.st = "TOPIC_LEN" -> PublishTopicLen(p, d)
      [] p.st = "TOPIC_VAL" -> PublishTopicVal(p, d)
      [] p.st = "PKTID" -> PublishPktid(p, d)
      [] p.st = "PAYLOAD" -> PublishPayload(p, d)

(***************************************************************************)
(* The handlers of mqtt_subscribe, mqtt_unsubscribe and mqtt_suback.       *)
(***************************************************************************)

\* The id, and the body must go on behind it; a suback may end there.
ListVar(p, d) ==
    LET t == Take(p.buf, 2, d)
        q == [p EXCEPT !.buf = <<>>, !.nread = @ + t.n, !.m.pkt = UnpackShort(t.buf)]
    IN  CASE Len(t.buf) < 2 -> Result([p EXCEPT !.buf = t.buf, !.nread = @ + t.n], t.d)
          [] Len(t.buf) = 2 /\ q.nread >= p.body ->
                IF p.m.type = SUBACK THEN Result([q EXCEPT !.done = TRUE], t.d) ELSE Failed(q)
          [] OTHER -> Result([q EXCEPT !.st = IF p.m.type = SUBACK THEN "TOPIC_QOS"
                                              ELSE "TOPIC_LEN"], t.d)

ListTopicLen(p, d) ==
    LET r == Length(p, d)
    IN  CASE ~r.whole -> r
          [] r.whole /\ (r.p.need = 0 \/ r.p.nread >= p.body) -> Failed(r.p)
          [] OTHER -> Result([r.p EXCEPT !.st = "TOPIC_VAL"], r.d)

\* The end of an entry: the body is over or another entry follows.
NextEntry(p, st) == Goes(p, IF p.nread >= p.body THEN "FINISHED" ELSE st)

\* An unsubscribe keeps topic_: a second topic begins with the first.
ListTopicVal(p, d) ==
    LET r == Value(p, d)
        q == [r.p EXCEPT !.nread = @ + Len(r.p.acc)]
    IN  CASE ~r.whole -> r
          [] r.whole /\ p.m.type = SUBSCRIBE -> Result([q EXCEPT !.st = "TOPIC_QOS"], r.d)
          [] OTHER -> Result(NextEntry([q EXCEPT !.m.topics = Append(@, q.acc)],
                                       "TOPIC_LEN"), r.d)

\* A byte as a char: what is above 2, or negative, is taken for QoS 0.
QosOf(b) == IF b > 2 THEN 0 ELSE b

ListTopicQos(p, d) ==
    LET q == [p EXCEPT !.m.qoses = Append(@, QosOf(Head(d))), !.nread = @ + 1]
    IN  IF p.m.type = SUBACK THEN Result(NextEntry(q, "TOPIC_QOS"), Tail(d))
        ELSE IF p.acc = <<>> THEN Failed(p)
        ELSE Result(NextEntry([q EXCEPT !.m.topics = Append(@, p.acc), !.acc = <<>>],
                              "TOPIC_LEN"), Tail(d))

ListUpdate(p, d) ==
    CASE p.st = "HDR_VAR" -> ListVar(p, d)
      [] p.st = "TOPIC_LEN" -> ListTopicLen(p, d)
      [] p.st = "TOPIC_VAL" -> ListTopicVal(p, d)
      [] p.st = "TOPIC_QOS" -> ListTopicQos(p, d)

\* One turn of the loop in update: a handler, on the bytes d.
Update(p, d, g) ==
    CASE p.m.type = CONNECT -> ConnectUpdate(p, d, g)
      [] p.m.type = CONNACK -> ConnackUpdate(p, d)
      [] p.m.type = PUBLISH -> PublishUpdate(p, d)
      [] p.m.type \in Acks -> AckUpdate(p, d)
      [] p.m.type \in {SUBSCRIBE, UNSUBSCRIBE, SUBACK} -> ListUpdate(p, d)
=============================================================================

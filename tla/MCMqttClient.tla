---------------------------- MODULE MCMqttClient ----------------------------
(***************************************************************************)
(* A message of every kind, with lengths of one digit to four, in pairs.   *)
(* The bodies are at the edges of the length encoding in base 3: 3, 8, 9,  *)
(* 26 and 27 bytes.                                                        *)
(***************************************************************************)
EXTENDS MqttClient

NoWill == [topic |-> <<>>, msg |-> <<>>, qos |-> 0]
Will == [topic |-> <<21, 22>>, msg |-> <<23>>, qos |-> 2]

MCMessages ==
    <<NewConnect(<<>>, NoWill, <<>>, <<>>, TRUE, 60),
      NewConnect(<<11, 12>>, Will, <<13>>, <<14>>, FALSE, 300),
      NewConnect(<<11>>, [Will EXCEPT !.msg = <<>>], <<>>, <<14>>, TRUE, 60),
      NewConnect(<<>>, [Will EXCEPT !.qos = 1], <<>>, <<>>, TRUE, 60),
      NewConnack(TRUE, 5),
      NewPublish(<<1>>, 0, <<>>, 0, 0, 0),
      NewPublish(<<1>>, 0, <<9, 8, 7, 6, 5>>, 0, 1, 1),
      NewPublish(<<1, 2>>, 258, <<>>, 1, 0, 0),
      NewPublish(<<1>>, 258, <<2, 3, 4, 5>>, 2, 1, 0),
      NewPublish(<<1>>, 0, [i \in 1..24 |-> i], 0, 0, 1),
      NewPublish(<<1>>, 0, <<9>>, 1, 0, 0),
      NewAck(PUBACK, 513),
      NewAck(PUBREL, 2),
      NewSubscribe(259, <<<<1>>>>, <<2>>),
      NewSubscribe(1, <<<<1, 2>>, <<3>>>>, <<0, 1>>),
      NewUnsubscribe(259, <<<<1, 2>>>>),
      NewUnsubscribe(1, <<<<1>>, <<2, 3>>>>),
      NewSuback(260, <<1>>),
      NewSuback(1, <<2, 128>>),
      NewBodyless(PINGREQ),
      NewBodyless(DISCONNECT)>>
=============================================================================

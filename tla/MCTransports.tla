----------------------------- MODULE MCTransports -----------------------------
(* Two senders, the second being the first started again or one of another *)
(* run, with two messages each, the first in two parts; zmq_topic is       *)
(* given or not, on either side.                                           *)
EXTENDS Transports

MCSizes == <<2, 1>>
MCTopics == {<<>>, <<"a">>}
===============================================================================

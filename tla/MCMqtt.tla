-------------------------------- MODULE MCMqtt --------------------------------
(* Command lines: the three QoS, a number that does not fit and a topic    *)
(* that cannot be published to, and those that do not get to a connection. *)
EXTENDS MqttTransport

Mqtt == <<Word("--protocol"), Word("mqtt")>>
Qos(n) == <<Word("--qos"), Number(n)>>

MCStarts ==
  {Mqtt \o Qos(n) : n \in {0, 1, 3}} \union
  {Mqtt \o o : o \in {Qos(2) \o <<Word("--noise"), Number(20000)>>, <<Word("--topic"), Word("#")>>,
                      <<Word("--port"), Number(65537)>>, <<Word("--port"), Number(65536)>>,
                      <<Word("--port"), Word("x")>>, <<Word("--rate"), Number(0)>>,
                      <<Word("--will-qos"), Number(-1)>>, <<Word("--qos")>>,
                      <<Word("--help")>>, <<Word("--keepalive"), Partial(-1)>>,
                      <<Word("--duration"), Empty>>}} \union
  {<<Word("--protocol"), Word("http")>>, << >>, <<Word("--no-clean"), Word("--retain")>>}
=============================================================================

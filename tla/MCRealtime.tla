----------------------------- MODULE MCRealtime -----------------------------
(* Instances of RealtimeGateway for TLC: two nodes; a customer with a socket *)
(* on each, a driver and an admin on the first.  Every run record gives the  *)
(* sockets that are open, what they send, the events of the topic, and what  *)
(* may fail, so that each run is about one race.                             *)
EXTENDS RealtimeGateway

RtNodes == [s1 |-> "n1", s2 |-> "n2", s3 |-> "n1", s4 |-> "n1"]
RtUsers == [s1 |-> "cust", s2 |-> "cust", s3 |-> "drv", s4 |-> "adm"]
RtRoles == [cust |-> "user", drv |-> "driver", adm |-> "admin"]
RtEvs == [e1 |-> [kind |-> "status", delivery |-> "d1", user |-> "cust"],
          e2 |-> [kind |-> "offer", delivery |-> "d1", user |-> "drv"],
          e3 |-> [kind |-> "status", delivery |-> "d2", user |-> ""]]
RtParties == {<<"cust","d1">>, <<"drv","d1">>}
RtAsk(t, d, c) == [type |-> t, delivery |-> d, id |-> c]
RtNone == [s1 |-> <<>>, s2 |-> <<>>, s3 |-> <<>>, s4 |-> <<>>]
RtR == [ready |-> {}, socks |-> {}, ids |-> {"c1", "c2"}, msgs |-> RtNone, topic |-> <<>>,
        broadcast |-> <<>>, outside |-> <<>>, rejects |-> 0, closes |-> 0, lapses |-> 0,
        redis |-> 0, limits |-> 0, grpc |-> 0, nats |-> 0, redeliver |-> 0, slow |-> 0, crashes |-> 0]
RtRunSet ==
  { [RtR EXCEPT !.socks = {"s1", "s2"}, !.closes = 1, !.rejects = 1, !.redis = 1],
    [RtR EXCEPT !.ready = {"s1"}, !.socks = {"s2"}, !.closes = 1, !.lapses = 1,
                !.msgs.s1 = <<RtAsk("ping", "", "")>>],
    [RtR EXCEPT !.ready = {"s1", "s2"}, !.topic = <<"e1">>, !.redeliver = 1, !.redis = 1,
                !.msgs.s1 = <<RtAsk("subscribe", "d1", "")>>],
    [RtR EXCEPT !.ready = {"s1"}, !.topic = <<"e1">>, !.slow = 1,
                !.msgs.s1 = <<RtAsk("subscribe", "d1", ""), RtAsk("unsubscribe", "d1", "")>>],
    [RtR EXCEPT !.ready = {"s3"}, !.topic = <<"e3">>, !.crashes = 1, !.redeliver = 1, !.nats = 1,
                !.msgs.s3 = <<RtAsk("subscribe", "d2", "")>>],
    [RtR EXCEPT !.ready = {"s3"}, !.grpc = 2, !.nats = 1,
                !.msgs.s3 = <<RtAsk("location", "d1", ""), RtAsk("command", "d1", "c1"), RtAsk("command", "d1", "c2")>>],
    [RtR EXCEPT !.ready = {"s1", "s3"}, !.msgs.s1 = <<RtAsk("subscribe", "d1", "")>>,
                !.msgs.s3 = <<RtAsk("location", "d1", "")>>],
    [RtR EXCEPT !.ready = {"s3"}, !.limits = 1, !.redis = 1, !.nats = 1,
                !.msgs.s3 = <<RtAsk("command", "d1", "c1"), RtAsk("command", "d1", "c1")>>],
    [RtR EXCEPT !.ready = {"s3"}, !.limits = 1, !.nats = 1,
                !.msgs.s3 = <<RtAsk("location", "d1", "invalid"), RtAsk("location", "d1", "")>>],
    [RtR EXCEPT !.socks = {"s4"}, !.topic = <<"e3">>, !.msgs.s4 = <<RtAsk("bad", "", ""), RtAsk("subscribe", "d2", "")>>],
    [RtR EXCEPT !.ready = {"s1"}, !.topic = <<"malformed", "unknown", "e2">>, !.redeliver = 1],
    [RtR EXCEPT !.ready = {"s3"}, !.topic = <<"e2">>, !.slow = 1, !.broadcast = <<"e1">>],
    [RtR EXCEPT !.ready = {"s1"}, !.msgs.s1 = <<RtAsk("location", "d1", "")>>, !.outside =
       <<RtMsg("notification", "note", "", "cust", FALSE), RtMsg("payment", "pay", "d1", "cust", TRUE)>>] }

=============================================================================

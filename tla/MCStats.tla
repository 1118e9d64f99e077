------------------------------ MODULE MCStats ------------------------------
(* Stats for TLC: configurations that override, remove, define, drop and    *)
(* fail halfway, and one that is not JSON.                                  *)
EXTENDS Stats

CONSTANTS t, g              \* a TCP and a gRPC stream

MCUpstream ==
    (t :> [route |-> "", cluster |-> "outbound", services |-> TRUE, workload |-> 5])
    @@ (g :> [route |-> "default", cluster |-> "outbound", services |-> FALSE, workload |-> 4])

MCProto == (t :> "TCP") @@ (g :> "GRPC")

Overriding(name, remove, dimensions) ==
    [name |-> name, object |-> TRUE, drop |-> FALSE,
     remove |-> remove, dimensions |-> dimensions]

Dropping(name) == [Overriding(name, <<>>, <<>>) EXCEPT !.drop = TRUE]

To(tag, value) == [tag |-> tag, value |-> value]

Broken == [json |-> FALSE, disableHostHeaderFallback |-> FALSE, definitions |-> <<>>, metrics |-> <<>>]

Plain == [json |-> TRUE, disableHostHeaderFallback |-> FALSE, definitions |-> <<>>, metrics |-> <<>>]

Custom ==
    [json |-> TRUE, disableHostHeaderFallback |-> FALSE,
     definitions |-> <<[name |-> "custom", value |-> "e1"]>>,
     metrics |-> <<Overriding("", <<"service">>, <<To("peer", "e2"), To("version", "e1")>>),
                   Overriding("tcp_sent_bytes_total", <<"version">>, <<To("peer", "bad")>>)>>]

Dropped ==
    [json |-> TRUE, disableHostHeaderFallback |-> TRUE,
     definitions |-> <<>>,
     metrics |-> <<Dropping("tcp_connections_closed_total"),
                   Overriding("", <<"peer", "code">>, <<To("peer", "e1")>>)>>]

\* The definitions end at the bad one, the overrides at the malformed tag.
Partial ==
    [json |-> TRUE, disableHostHeaderFallback |-> FALSE,
     definitions |-> <<[name |-> "custom", value |-> "e1"], [name |-> "more", value |-> "bad"],
                       [name |-> "rest", value |-> "e2"]>>,
     metrics |-> <<Overriding("requests_total", <<"code">>, <<To("a", "e2"), To("b", Malformed)>>),
                   Dropping("custom")>>]

DropOnly == [Plain EXCEPT !.metrics = <<Dropping("tcp_connections_closed_total")>>]

MCDropConfig == {Plain, DropOnly}
MCConfig == {Broken, Plain, Custom, Dropped, Partial}
=============================================================================

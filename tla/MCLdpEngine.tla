---------------------------- MODULE MCLdpEngine ----------------------------
EXTENDS LdpEngine

At(l, fs) == [x \in Lsr |-> IF x = l THEN fs ELSE {}]
Pair == {{1, 2}}
Chain == {{1, 2}, {2, 3}}
Triangle == Chain \cup {{1, 3}}

Lab(link, binds, top) ==
    [link |-> link, binds |-> binds, top |-> top, faults |-> 0, kinds |-> {},
     gr |-> FALSE, recovery |-> FALSE, loopDetection |-> FALSE]

\* No fault: the order of sessions and mappings, along a chain and around a cycle of LSRs.
Faultless ==
    {[Lab(net, At(1, {1}), 2) EXCEPT !.loopDetection = d] : net \in {Chain, Triangle}, d \in BOOLEAN}

\* Two faults of any kind, or a binding that goes and comes back or meets a PDU too long.
Disturbed ==
    {[Lab(Chain, At(e, {1}), 2) EXCEPT !.faults = Cardinality(k), !.kinds = k] :
        e \in {1, 2}, k \in {{"bind", "length"}} \cup {{"cut", x} : x \in {"silence", "hello", "restart"}}}

\* Graceful restart, with and without forwarding state kept by the peer.
Graceful ==
    {[Lab(Chain, At(e, {1}), 2) EXCEPT !.faults = 1, !.kinds = Kinds \ {"bind"},
                                       !.gr = TRUE, !.recovery = r] : e \in {1, 2}, r \in BOOLEAN}
    \cup {[Lab(Pair, At(1, {1}), 2) EXCEPT !.faults = 3, !.kinds = Kinds \ {"bind"},
                                           !.gr = TRUE, !.recovery = r] : r \in BOOLEAN}

\* Two prefixes come and go, over a range of labels with room for one or for both.
Scarce == {[Lab(Pair, At(1, {1, 2}), t) EXCEPT !.faults = 3, !.kinds = {"bind"}] : t \in {1, 2}}

AllLabs == Faultless \cup Disturbed \cup Graceful \cup Scarce
============================================================================

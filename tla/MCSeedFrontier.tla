--------------------------- MODULE MCSeedFrontier ---------------------------
(* SeedFrontier on four keys and two signals.                              *)
EXTENDS SeedFrontier

CONSTANTS k1, k2, k3, k4, s1, s2

Weak(s) == [own |-> {}, sig |-> {s}, seedStrong |-> FALSE,
            sigStrong |-> FALSE, reasoned |-> FALSE]

\* Two weak signals, a strong one, and a reasoned approval that also carries
\* the collector's own evidence but no usable signal.
MCOffer ==
    {Weak(s1), Weak(s2), [Weak(s1) EXCEPT !.sigStrong = TRUE],
     [own |-> {s2}, sig |-> {}, seedStrong |-> FALSE, sigStrong |-> TRUE,
      reasoned |-> TRUE]}

MCSubmission ==
    {s \in [Key -> {NoEntry, [n |-> 1, ev |-> {}], [n |-> 2, ev |-> {s1}]}] :
        Cardinality(KeysOf(s)) \in 1..2}

=============================================================================

----------------------------- MODULE MCHubStreams -----------------------------
(* Instances of HubStreams.                                                  *)
EXTENDS HubStreams

\* Every stream goes from a to b.
FromA == [s \in Stream |-> "a"]
ToB == [s \in Stream |-> "b"]

\* x goes from a to b, the other streams back.
XFromA == [s \in Stream |-> IF s = "x" THEN "a" ELSE "b"]
XToB == [s \in Stream |-> IF s = "x" THEN "b" ELSE "a"]

\* A behaviour uses one stream.
OneStream == Cardinality({s \in Stream : open[s] # IdleOpen}) <= 1
===============================================================================

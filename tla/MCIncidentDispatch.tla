-------------------------- MODULE MCIncidentDispatch ---------------------------
(* IncidentDispatch for TLC: two events, two publishers, two investigators, *)
(* and smaller instances in which one statement fails.                      *)
EXTENDS IncidentDispatch

CONSTANTS p1, i1, i2, g1, g2

MCPartitionOf == [e \in Event |-> p1]
MCGroupOf == [m \in Member |-> IF m = i1 THEN g1 ELSE g2]

\* Two disturbances of any kind while there is one event, one failed send or
\* dead publisher once there are two.
FewDisturbances ==
    /\ sendFaults + consumerFaults <= 2
    /\ row[2] # "absent" =>
          /\ consumerFaults = 0 /\ sendFaults <= 1
          /\ \A e \in Event : workflow[e] # "closed"
=============================================================================

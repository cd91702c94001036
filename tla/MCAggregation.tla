---------------------------- MODULE MCAggregation ---------------------------
(* The aggregation round on small instances: three clients, vectors whole or *)
(* in two parts.                                                             *)
EXTENDS Aggregation
=============================================================================

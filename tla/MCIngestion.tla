---------------------------- MODULE MCIngestion ----------------------------
(* Two rows of one organization, an edge, a scholar and a paper for TLC.   *)
EXTENDS Ingestion

CONSTANTS e1, e2, x1, s1, p1, org, person, paper

MCVertexOf == [r \in Row \ RelationRow |->
                 CASE r \in EntityRow -> org [] r = s1 -> person [] r = p1 -> paper]
MCEnds == [r \in RelationRow |-> {org}]
=============================================================================

------------------------------ MODULE StandingWork ------------------------------
(***************************************************************************)
(* What stands until it is answered or taken back, side by side: a user's  *)
(* grants and the requests for them, the wrong-code limiter, the members   *)
(* of a consumer, the leases of clusters and the capability cards.  They   *)
(* share no state; a step is a step of any of them.                        *)
(***************************************************************************)
EXTENDS UserGrants, CodeLimiter, Members, Clusters, CapabilityCards

AllStanding == GrantsSpec /\ LimiterSpec /\ MembersSpec /\ ClustersSpec /\ CardsSpec

\* The types of every component here.
StandingTypeOK == GrantsTypeOK /\ LimiterTypeOK /\ MembersTypeOK /\ ClustersTypeOK /\ CardsTypeOK
=================================================================================

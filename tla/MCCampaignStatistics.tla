------------------------ MODULE MCCampaignStatistics ------------------------
(* Four planned trials in groups of one to four, and of five, which is more *)
(* than there are.  Observing some of the faults is not observing them.     *)
EXTENDS CampaignStatistics

MCObservations == {{"f1"}, {"f1", "f2"}}
=============================================================================

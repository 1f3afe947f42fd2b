----------------------------- MODULE MCEpisode ------------------------------
(* Episode for TLC: there is one episode, so only the tools and the faults  *)
(* are chosen, in the configurations.                                       *)
EXTENDS Episode
=============================================================================

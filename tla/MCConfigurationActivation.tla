-------------------------- MODULE MCConfigurationActivation --------------------------
(* ConfigurationActivation for one entry and a few revisions.              *)
EXTENDS ConfigurationActivation
==============================================================================

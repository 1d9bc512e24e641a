---------------------------- MODULE MCExtensionHost ----------------------------
(* Instances of ExtensionHost: the values are in the configurations.        *)
EXTENDS ExtensionHost
=============================================================================

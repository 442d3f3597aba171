-------------------------- MODULE MCProviderChain --------------------------
(***************************************************************************)
(* Two calls, for two seconds, under every setting of a chain of up to two *)
(* live providers.                                                         *)
(***************************************************************************)
EXTENDS ProviderChain
=============================================================================

---------------------------- MODULE MCHostRelay ----------------------------
(* The prompts, and the devices, are interchangeable where only a safety   *)
(* property is checked.                                                    *)
EXTENDS HostRelay

Interchangeable == Permutations(Prompts) \union Permutations(Devices)
=============================================================================

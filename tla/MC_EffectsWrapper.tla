------------------------- MODULE MC_EffectsWrapper ---------------------------
(* One process (and those that take over from it) performs a reversible and an *)
(* irreversible effect.                                                        *)
EXTENDS EffectsWrapper
==============================================================================

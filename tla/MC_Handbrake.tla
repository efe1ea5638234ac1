---------------------------- MODULE MC_Handbrake -----------------------------
(* Small plans for Handbrake: L1 items pause, L2 items do not. *)
EXTENDS HandbrakeFlow, Observe

ShortPlans == {<<>>, <<"L2">>, <<"L1", "L2">>, <<"L1", "L1">>}
PausingPlans == {<<"L2">>, <<"L1", "L2">>}
OnePausing == {<<"L1">>}
==============================================================================

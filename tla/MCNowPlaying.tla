---------------------------- MODULE MCNowPlaying ----------------------------
(***************************************************************************)
(* NowPlaying for TLC: the apps are interchangeable, and so are the items. *)
(* All its properties are safety properties.                               *)
(***************************************************************************)
EXTENDS NowPlaying, TLC

Symmetry == Permutations(Clients) \union Permutations(Items)
=============================================================================

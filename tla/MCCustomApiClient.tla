------------------------- MODULE MCCustomApiClient -------------------------
(***************************************************************************)
(* Two resources and two names: the directive renames the first to the     *)
(* second, which it leaves alone.                                          *)
(***************************************************************************)
EXTENDS CustomApiClient

CONSTANTS m1, m2, pods, services

MCName == {m1, m2}
MCListable == {<<pods, m1>>, <<pods, m2>>, <<services, m2>>}
MCAlias == [n \in MCName |-> m2]
=============================================================================

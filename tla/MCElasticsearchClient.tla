----------------------- MODULE MCElasticsearchClient -----------------------
(***************************************************************************)
(* Two metric sets that share a field; the directive gives two fields the  *)
(* same alias.                                                             *)
(***************************************************************************)
EXTENDS ElasticsearchClient, TLC

CONSTANTS f1, f2, alias

MCName == {f1, f2, alias}
MCAlias == [f \in MCName |-> IF f \in {f1, f2} THEN alias ELSE f]
MCSelected == 1 :> {f1} @@ 2 :> {f1, f2}

\* A static field, which a mapping may also have.
MCStatic == 1 :> {f2} @@ 2 :> {}
=============================================================================

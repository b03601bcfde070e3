---------------------------- MODULE MCPersistSweep ----------------------------
(* One to three of the facets, for PersistSweep's runs: the one a teardown  *)
(* always rewrites, one that loading flags, and one that is neither.        *)
EXTENDS PersistSweep

OneFacet    == <<"Effects">>
TwoFacets   == <<"Effects", "Equip">>
ThreeFacets == <<"Effects", "Equip", "CharVars">>
=============================================================================

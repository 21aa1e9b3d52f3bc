---------------------------- MODULE MCBackOffice ----------------------------
(***************************************************************************)
(* BackOffice for TLC: two signups at once, or one over the weeks; two     *)
(* tenants, of which the first cannot be read; two of everything that may  *)
(* overlap.                                                                *)
(***************************************************************************)
EXTENDS BackOffice

MCScenes ==
  {[who |-> {"t1", "t2"}, long |-> FALSE], [who |-> {"t2"}, long |-> TRUE]}
MCTenantList == <<"down", "up">>
MCOwnerOf == "s" :> "up"
=============================================================================

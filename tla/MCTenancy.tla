----------------------------- MODULE MCTenancy -----------------------------
(* One address in two spellings, and two Google accounts.                   *)
EXTENDS TenancyProperties, TLC

CONSTANTS ann, Ann

Addresses == {ann, Ann}
LowerCase == [e \in Addresses |-> ann]

Symmetric == Permutations(Request) \cup Permutations(Slug) \cup Permutations(Sub)
=============================================================================

----------------------------- MODULE MCPlacement -----------------------------
(* Small rings for Placement: three nodes with colliding and wrapping tokens. *)
EXTENDS Placement

MCTokenOf == <<{1, 5}, {3, 5}, {6}>>

Config(rf, policy, copies, healthy) ==
    [rf |-> rf, policy |-> policy, minCopies |-> copies, minHealthy |-> healthy]

MCPlain == Config(2, "OwnerOnly", 1, 0)
MCGuarded == Config(2, "OwnerOnly", 2, 0)
MCStrict == Config(2, "FirstSuccessor", 1, 0)

MCBootstraps == {<<{1, 2}, MCGuarded>>, <<{1, 2}, MCStrict>>, <<{1, 2, 3}, MCPlain>>}
MCProcs == <<1, 1, 2>>
MCMembers == {{1, 2}, {1, 2, 3}}
MCConfigs == {MCPlain, MCGuarded, MCStrict}
=============================================================================

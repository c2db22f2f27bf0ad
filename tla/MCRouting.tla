------------------------------ MODULE MCRouting ------------------------------
(* An instance of Routing for TLC: two recipients, a forward for one key    *)
(* and a forward for two.                                                   *)
EXTENDS Routing, TLC

CONSTANTS alice, bob, aliceKey1, aliceKey2, bobKey, note, circular, w1, w2

MCNextOf == (note :> bob) @@ (circular :> alice)
MCKidsOf == (note :> <<bobKey>>) @@ (circular :> <<aliceKey1, aliceKey2>>)
WorkerSymmetry == Permutations(Workers)

==============================================================================

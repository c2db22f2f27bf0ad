--------------------------- MODULE MCMessagePickup ---------------------------
(* Instances of MessagePickup for TLC: two mailboxes, the DID of the first *)
(* being a prefix of the DID of the second.                                *)
EXTENDS MessagePickup, TLC

CONSTANTS alice, alice2, aliceKey, alice2Key, letter, circular, torn,
          phone, laptop, tablet, w1, w2

MCDidOf == (aliceKey :> alice) @@ (alice2Key :> alice2)
MCLikes == {<<alice, alice>>, <<alice2, alice2>>, <<alice, alice2>>}
MCKidsOf == [r \in Raws |-> CASE r = letter   -> {aliceKey}
                              [] r = circular -> {aliceKey, alice2Key}
                              [] r = torn     -> {alice2Key}]
MCDidAt == [s \in Sessions |-> IF s = tablet THEN alice2 ELSE alice]
WorkerSymmetry == Permutations(Workers)

==============================================================================

---------------------------- MODULE MCRefUpdate ----------------------------
(* Small instances of RefUpdate: a move and its way back by one signer, an
   update that names a scope, one whose signature does not verify, one signed
   with a nonce already used and a later not_after, and one that is not dated. *)
EXTENDS RefUpdate, TLC

CONSTANTS a, b, n, s1, s2

\* Verifiers are interchangeable.
Symmetry == Permutations(Verifiers)

Root == <<>>
Sub  == <<"src">>

Make(old, new, scope, signer, nonce, expires, evidence, signed) ==
    [ref |-> n, old |-> old, new |-> new, scope |-> scope, signer |-> signer,
     nonce |-> nonce, expires |-> expires, evidence |-> evidence, signed |-> signed]

Create  == Make(NoId, a, Sub, s1, 1, 1, {}, TRUE)
Advance == Make(a, b, Root, s1, 2, 2, {b}, TRUE)
Forged  == Make(NoId, b, Sub, s1, 3, 0, {}, FALSE)
Foreign == Make(a, NoId, Root, s2, 1, 2, {a}, TRUE)
Reused  == Make(NoId, b, Root, s1, 1, 2, {}, TRUE)
Undated == Make(NoId, a, Root, s1, 4, 0, {}, TRUE)

MCUpdates == {Create, Advance, Forged, Foreign, Reused, Undated}
MCRecords == {[fp |-> s1, scope |-> Root, right |-> RightPromote],
              [fp |-> s2, scope |-> Root, right |-> RightPropose],
              [fp |-> s2, scope |-> Sub, right |-> RightPromote]}
MCScopes == {Root, Sub}
=============================================================================

----------------------------- MODULE MCFieldSync -----------------------------
(* Small instances of FieldSync for TLC.                                   *)
EXTENDS FieldSync, TLC

CONSTANTS w1, w2, d1, d2, ann, bob, all

Sym == Permutations({w1, w2})

OneRep == [d \in Devices |-> ann]

Change(id, d, what, base) == [id |-> id, device |-> d, what |-> what, base |-> base]
MixedPushes == {Change("c1", d1, "edit", 0), Change("c2", d2, "order", NoBase)}

=============================================================================

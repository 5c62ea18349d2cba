------------------------------ MODULE MCSignup ------------------------------
(* Small instances of Signup: the seeded admin's address, and two that     *)
(* people type with a capital.                                             *)
EXTENDS Signup, TLC

CONSTANTS root, guest, Guest, other, Other

SmallLower == (Guest :> guest) @@ (Other :> other)

SwapPeople == (guest :> other) @@ (other :> guest) @@ (Guest :> Other) @@ (Other :> Guest)
Interchangeable == Permutations(Browsers) \cup Permutations(Tokens) \cup {SwapPeople}
=============================================================================

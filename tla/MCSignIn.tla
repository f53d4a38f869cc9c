-------------------------------- MODULE MCSignIn --------------------------------
(***************************************************************************)
(* Instances of SignIn for TLC: two administrators' accounts,              *)
(* and two requests that may be in progress together.                      *)
(***************************************************************************)
EXTENDS SignIn, TLC

CONSTANTS ann, bob, a, b, c, h1, h2

MCUsers      == {ann, bob}
MCAdmins     == {ann, bob}
MCEmails     == {a, b, c}
MCFirstEmail == (ann :> a) @@ (bob :> b)
MCHandlers   == {h1, h2}

\* The accounts differ in their first addresses only, the requests in nothing.
Swap(x, y) == (x :> y) @@ (y :> x)
MCSymmetry == {accounts @@ requests :
                 accounts \in {Swap(ann, bob) @@ Swap(a, b), Swap(ann, ann) @@ Swap(bob, bob) @@ Swap(a, a) @@ Swap(b, b)},
                 requests \in Permutations(MCHandlers)}
=============================================================================

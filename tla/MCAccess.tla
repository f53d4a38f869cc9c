-------------------------------- MODULE MCAccess --------------------------------
(***************************************************************************)
(* Instances of Access for TLC: a workspace with a private project and a   *)
(* group, one with an open project, each with a customer; an owner, a team *)
(* lead in the group and an account that does not exist yet.               *)
(***************************************************************************)
EXTENDS Access, TLC

CONSTANTS root, ann, bob, here, there, team, acme, zeta, dev, job

MCFirstProject   == (here :> [ws |-> 1, customer |-> acme, private |-> TRUE])
                    @@ (there :> [ws |-> 2, customer |-> zeta, private |-> FALSE])
MCFirstCustomer  == (acme :> 1) @@ (zeta :> 2)
MCFirstWork      == (dev :> [ws |-> 1, project |-> here]) @@ (job :> [ws |-> 2, project |-> there])
MCGroupWorkspace == (team :> 1)
MCFirstRole      == (root :> "superadmin") @@ (ann :> "teamlead") @@ (bob :> "none")
MCFirstGrouped   == (team :> {ann})
MCFirstProjectGroups == (here :> {team}) @@ (there :> {})
HandlerSymmetry  == Permutations(Handlers)
=============================================================================

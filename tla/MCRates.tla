-------------------------------- MODULE MCRates --------------------------------
(***************************************************************************)
(* Instances of Rates for TLC: a customer with a project that has a task   *)
(* and an activity of its own, another activity, another project, two users*)
(***************************************************************************)
EXTENDS Rates, FiniteSets, TLC

CONSTANTS cust, proj, side, dev, ops, job, ann, bob

MCProjectCustomer == (proj :> cust) @@ (side :> cust)
MCActivityProject == (dev :> proj) @@ (ops :> Null)
MCTaskProject     == (job :> proj)

Work(activity, task, user) ==
    [customer |-> cust, project |-> proj, activity |-> activity, task |-> task, user |-> user]

MCWorks == {Work(dev, job, ann), Work(dev, Null, ann), Work(ops, Null, bob)}

Scope(customer, project, activity, task, user) ==
    [customer |-> customer, project |-> project, activity |-> activity, task |-> task,
     user |-> user]

\* Every level by itself and some pairs of levels, for anyone or for ann; the first
\* is refused.
MCScopes == UNION {
    {Scope(Null, side, dev, Null, u),
     Scope(Null, Null, Null, Null, u), Scope(cust, Null, Null, Null, u),
     Scope(cust, proj, Null, Null, u), Scope(Null, proj, ops, Null, u),
     Scope(Null, Null, dev, Null, u), Scope(Null, Null, ops, job, u),
     Scope(Null, Null, Null, job, u)} : u \in {Null, ann}}

\* From the beginning, from the beginning to the middle, from the middle.
MCWindows == {<<0, 2>>, <<0, 1>>, <<1, 2>>}
=============================================================================

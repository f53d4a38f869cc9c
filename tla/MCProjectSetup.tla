------------------------------ MODULE MCProjectSetup ------------------------------
(***************************************************************************)
(* An instance of ProjectSetup for TLC: two workspaces with a customer and *)
(* a default workstream each, a project and a global activity in the       *)
(* first, a draft with an old and a new item of each kind, and a template. *)
(***************************************************************************)
EXTENDS ProjectSetup

CONSTANTS initiation, ann

Numbered(w, of, name) == [ws |-> w, of |-> of, name |-> name, number |-> 1, after |-> 0]

MCFirstRows ==
    [customers   |-> <<Numbered(1, 0, "none"), Numbered(2, 0, "none")>>,
     projects    |-> <<Numbered(1, 1, "none")>>,
     activities  |-> <<Numbered(1, 0, "none")>>,
     tasks       |-> <<>>,
     workstreams |-> <<Numbered(1, 0, initiation), Numbered(2, 0, initiation)>>]
MCFormKinds == [p \in Handlers |-> Kinds \cup {"entries"}]
HandlerSymmetry == Permutations(Handlers)

MCWorkspaceUsers == <<{ann}, {}>>
DraftOf(customer, workstreams, activities) ==
    [customer |-> customer, workstreams |-> workstreams, activities |-> activities,
     members |-> [u \in Users |-> "member"]]
MCFirstDrafts == {DraftOf(1, {1, ProjectManagement}, {0, 1})}
TemplateOf(tasks, activities, archived) ==
    [ws |-> 1, archived |-> archived, tasks |-> tasks, activities |-> activities]
MCFirstTemplates == <<TemplateOf(1, 1, FALSE)>>
MCFormTemplates  == {TemplateOf(1, 0, TRUE)}
=============================================================================

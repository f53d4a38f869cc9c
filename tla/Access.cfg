SPECIFICATION Spec
CONSTANTS
    root = root  ann = ann  bob = bob  here = here  there = there  team = team
    acme = acme  zeta = zeta  dev = dev  job = job
    Users = {root, ann, bob}
    NoUser = NoUser
    NoProject = NoProject
    Handlers = {h1, h2}
    Workspaces = {1, 2}
    Projects = {here, there}
    Customers = {acme, zeta}
    Activities = {dev}
    Tasks = {job}
    FirstProject <- MCFirstProject
    FirstCustomer <- MCFirstCustomer
    FirstWork <- MCFirstWork
    Groups = {team}
    GroupWorkspace <- MCGroupWorkspace
    FirstRole <- MCFirstRole
    FirstGrouped <- MCFirstGrouped
    FirstProjectGroups <- MCFirstProjectGroups
    Owner = root
    FormRoles = {"admin", "teamlead"}
    FormMemberRoles = {"admin", "owner"}
    MaxWrites = 2
SYMMETRY HandlerSymmetry
CHECK_DEADLOCK FALSE
INVARIANTS TypeOK OrgRoleFollowsRole NoMoreThanHeld MembersWereInvited OfferedIsAccepted

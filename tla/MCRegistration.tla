--------------------------- MODULE MCRegistration ---------------------------
(***************************************************************************)
(* Model-checking instance of registration and upstream links. Both        *)
(* upstream identities report the same localpart.                          *)
(***************************************************************************)
EXTENDS Registration, TLC

CONSTANTS alice, bob, e1

Localparts == [subject \in Subjects |-> alice]

PasswordOnly == [password |-> TRUE, upstream |-> "off", imports |-> {},
                 email_change_allowed |-> TRUE]
UpstreamOnly(mode) == [password |-> FALSE, upstream |-> mode, imports |-> {},
                       email_change_allowed |-> FALSE]
WithEmail(deployment) ==
    [deployment EXCEPT !.imports = {e1}, !.email_change_allowed = TRUE]
AllDeployments ==
    {PasswordOnly, UpstreamOnly("suggest"), WithEmail(UpstreamOnly("add")),
     UpstreamOnly("replace"), UpstreamOnly("set")}

NobodyOrAlice == {{}, {alice}}

Symmetry == Permutations(Requests)
=============================================================================

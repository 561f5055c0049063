-------------------------- MODULE MCAuthentication --------------------------
(* Authentication with three profiles and the forms that differ.           *)
EXTENDS Authentication

P(u, g, protocol, mode, mobile, user) ==
    [username |-> u, group |-> g, protocol |-> protocol, mode |-> mode, mobile |-> mobile,
     interactive |-> user, remembered |-> TRUE]
MCProfiles == {P(TRUE, FALSE, "gp", "Auto", FALSE, TRUE), P(FALSE, TRUE, "other", "System", FALSE, TRUE),
               P(TRUE, TRUE, "gp", "System", TRUE, FALSE)}

F(fields, error, challenge) == [fields |-> fields, error |-> error, challenge |-> challenge]
MCForms == {F({"group", "user", "password"}, FALSE, FALSE), F({"password"}, TRUE, FALSE),
            F({"user", "password"}, FALSE, FALSE), F({"password", "generated"}, FALSE, TRUE), F({}, FALSE, FALSE)}
============================================================================

-------------------------- MODULE MCAccessControl --------------------------
(* Instances of AccessControl for TLC: two pods, admin and one more user,    *)
(* two roles, two secrets.                                                   *)
EXTENDS AccessControl, TLC

Internal(secret, roles) == [mode |-> "Internal", secret |-> secret, roles |-> roles]
PKI(roles) == [mode |-> "PKIOnly", secret |-> NoSecret, roles |-> roles]
R(privileges, limits) == [privileges |-> privileges, limits |-> limits]

\* An access control with an admin user, maybe a user "u", and roles.
Acl(admin, u, roles) == [users |-> "admin" :> admin @@ u, roles |-> roles]
NoUser == <<>>
Admin(secret) == Internal(secret, requiredRoles)
AdminPKI == PKI(requiredRoles)

Plain == [net |-> {"plain"}, security |-> FALSE, acl |-> NoAcl]
Secure(net, acls) == [net |-> net, security |-> TRUE, acl |-> acls]
Off(s) == [s EXCEPT !.security = FALSE]

Base == [federal |-> FALSE, spec |-> Plain, secrets |-> [x \in {"a", "b"} |-> IF x = "a" THEN "pa" ELSE "pb"],
         edits |-> <<>>, writes |-> <<>>, interrupts |-> 0, fails |-> 0]

WithU == Acl(Admin("a"), "u" :> Internal("a", {"r"}), "r" :> R({"read"}, 0))
WithUChanged == Acl(Admin("b"), "u" :> Internal("b", {"q"}), "r" :> R({"write"}, 1) @@ "q" :> R({"read"}, 0))
OnlyAdmin(secret) == Acl(Admin(secret), NoUser, <<>>)
OnlyAdminPKI == Acl(AdminPKI, NoUser, <<>>)
AdminAnd(u) == Acl(Admin("a"), "u" :> u, <<>>)
UPKI == Acl(AdminPKI, "u" :> PKI({"sys-admin"}), <<>>)

MCScenarios == {
    \* users and roles added, changed and dropped
    [Base EXCEPT !.spec = Secure({"plain"}, WithU), !.interrupts = 2,
                 !.edits = <<Secure({"plain"}, WithUChanged), Secure({"plain"}, OnlyAdmin("b"))>>],
    \* security enabled on a running cluster, then off and on again
    [Base EXCEPT !.edits = <<Secure({"plain"}, OnlyAdmin("a")), Off(Secure({"plain"}, OnlyAdmin("a"))),
                             Secure({"plain"}, OnlyAdmin("a"))>>, !.interrupts = 1],
    \* security switched off while a user is to be dropped
    [Base EXCEPT !.spec = Secure({"plain"}, WithU), !.interrupts = 1,
                 !.edits = <<Secure({"plain"}, OnlyAdmin("a")), Off(Secure({"plain"}, OnlyAdmin("a"))),
                             Secure({"plain"}, OnlyAdmin("a"))>>],
    \* TLS with PKI at once, then TLS, then PKI with security, then TLS only
    [Base EXCEPT !.edits = <<Secure(Ports, OnlyAdminPKI), [Plain EXCEPT !.net = Ports],
                             Secure(Ports, OnlyAdminPKI), Secure({"tls"}, OnlyAdminPKI)>>, !.interrupts = 1],
    \* the plain port removed too early, then TLS added and given up
    [Base EXCEPT !.edits = <<[Plain EXCEPT !.net = {"tls"}], [Plain EXCEPT !.net = Ports], Plain,
                             [Plain EXCEPT !.net = Ports]>>, !.interrupts = 1],
    \* admin turned to PKI, a PKI user dropped and put back
    [Base EXCEPT !.spec = Secure(Ports, AdminAnd(PKI({"sys-admin"}))), !.interrupts = 2,
                 !.edits = <<Secure(Ports, OnlyAdminPKI), Secure(Ports, UPKI)>>],
    \* a federal image
    [Base EXCEPT !.federal = TRUE, !.spec = Secure({"tls"}, UPKI), !.interrupts = 2,
                 !.edits = <<Secure({"tls"}, OnlyAdminPKI), Secure({"tls"}, UPKI)>>],
    \* a federal image without TLS
    [Base EXCEPT !.federal = TRUE, !.edits = <<[Plain EXCEPT !.net = Ports]>>],
    \* an edit taken back while its pass runs, then security off and on
    [Base EXCEPT !.spec = Secure({"plain"}, OnlyAdmin("a")),
                 !.edits = <<Secure({"plain"}, WithU), Secure({"plain"}, OnlyAdmin("a")),
                             Off(Secure({"plain"}, OnlyAdmin("a"))), Secure({"plain"}, OnlyAdmin("a"))>>],
    \* a PKI user dropped, put back with a password, dropped and put back
    [Base EXCEPT !.spec = Secure({"tls"}, AdminAnd(PKI({"sys-admin"}))),
                 !.edits = <<Secure({"tls"}, OnlyAdmin("a")), Secure({"tls"}, AdminAnd(Internal("b", {"sys-admin"}))),
                             Secure({"tls"}, OnlyAdmin("a")), Secure({"tls"}, AdminAnd(PKI({"sys-admin"})))>>,
                 !.interrupts = 1],
    \* a creation that fails after access control was set up
    [Base EXCEPT !.spec = Secure({"plain"}, WithU), !.fails = 1, !.interrupts = 2],
    \* an admin without its roles, a secret that comes late, and one replaced
    [Base EXCEPT !.spec = Secure({"plain"}, OnlyAdmin("a")), !.secrets["b"] = Missing, !.interrupts = 1,
                 !.edits = <<Secure({"plain"}, Acl(Internal("a", {"user-admin"}), NoUser, <<>>)),
                             Secure({"plain"}, OnlyAdmin("b"))>>,
                 !.writes = <<[secret |-> "b", password |-> "pb"], [secret |-> "a", password |-> "pb"]>>]
    }
=============================================================================

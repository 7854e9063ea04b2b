---------------------------- MODULE AccessControl ----------------------------
(* The users, the roles and the operator's own access to a cluster: how a    *)
(* pass of the reconciler applies spec.aerospikeAccessControl call by call,  *)
(* which port and which credentials it uses to reach the servers while the   *)
(* network and security settings roll out, and what the admission webhook    *)
(* lets the user change.  The pass learns what it applied before from the    *)
(* status only, so every step between a call to the server and the patch of  *)
(* the status matters.                                                       *)
(*                                                                           *)
(* Users, roles, secrets and passwords are names.  A role is its privileges  *)
(* and one value for its whitelist and quotas.  An access control without    *)
(* users stands for a nil one: a valid one always has the admin user.        *)
EXTENDS Naturals, Sequences, Functions

CONSTANTS
    NumNodes,       \* the pods, restarted from the last to the first
    User, Role,     \* names of users (with "admin") and of roles that are not predefined
    Privilege,      \* what a role allows
    Limits,         \* a role's whitelist and quotas
    Secret,         \* names of secrets
    Password,       \* what a secret can hold
    Scenarios       \* what may happen to the cluster: see ScenariosAssumption

ASSUME ConstantsAssumption ==
    /\ NumNodes \in Nat \ {0}
    /\ "admin" \in User
    /\ Role \cap {"sys-admin", "user-admin"} = {}

Ports == {"plain", "tls"}
PredefinedRoles == {"sys-admin", "user-admin"}
Missing == "missing"            \* what a secret that does not exist is taken to hold
NoSecret == ""
EmptyPassword == ""

\* The functions from some of the names to the values.
Maps(names, values) == UNION {[some -> values] : some \in SUBSET names}

\* An access control, a spec (ports, security stanza, access control) and the
\* contents of the secrets.
UserSpecs == [mode : {"Internal", "PKIOnly"}, secret : Secret \cup {NoSecret},
              roles : SUBSET (Role \cup PredefinedRoles)]
RoleSpecs == [privileges : SUBSET Privilege, limits : Limits]
AccessControls == [users : Maps(User, UserSpecs), roles : Maps(Role, RoleSpecs)]
Specs == [net : SUBSET Ports, security : BOOLEAN, acl : AccessControls]
Secrets == [Secret -> Password \cup {Missing}]
Configs == [net : SUBSET Ports, security : BOOLEAN]
Writes == [secret : Secret, password : Password \cup {Missing}]

\* A scenario: the image, the cluster as it is created, the secrets, and the
\* edits, secret writes, interruptions and failures to come.
ASSUME ScenariosAssumption ==
    Scenarios \subseteq
        [federal : BOOLEAN, spec : Specs, secrets : Secrets, edits : Seq(Specs),
         writes : Seq(Writes), interrupts : Nat, fails : Nat]

\* "missing" stands for a secret that is not there, "unset" for a nil password.
ASSUME MarkersAssumption == Password \cap {Missing, "unset"} = {}

VARIABLES
    spec,        \* the spec: service ports, security stanza, access control
    status,      \* the part of the status copied from a spec; no ports when it is empty
    nodes,       \* the configuration each pod runs; no ports when it does not exist
    failed,      \* every pod has hard-failed
    server,      \* users and roles in the servers' system metadata
    secrets,     \* what each secret holds
    pass,        \* the pass in progress
    queued,      \* a pass is due
    env,         \* what may still happen to the cluster
    cause,       \* history: what has cut the operator's access so far
    rotated,     \* history: secrets whose password was replaced or removed
    unrecorded,  \* history: users and roles created by a pass and not reported since
    turned       \* history: users given a password while the status reports them as PKI users

vars == <<spec, status, nodes, failed, server, secrets, pass, queued, env, cause, rotated,
          unrecorded, turned>>

Node == 1..NumNodes
requiredRoles == {"sys-admin", "user-admin"}
DefaultPassword == "default"

\* The user "admin" every server starts with.
FreshServer == [users |-> [u \in {"admin"} |-> [password |-> DefaultPassword, roles |-> {"user-admin"}]],
                roles |-> <<>>]

NoAcl == [users |-> <<>>, roles |-> <<>>]
NoStatus == [net |-> {}, security |-> FALSE, acl |-> NoAcl]
NoNode == [net |-> {}, security |-> FALSE]
Idle == [at |-> "idle", spec |-> NoStatus, todo |-> {}, cur |-> {}, ret |-> "idle",
         read |-> [x \in Secret |-> Missing]]
NoNames == [users |-> {}, roles |-> {}]

Stages == {"idle", "start", "wipe", "clear", "racks", "final",
           "dropRoles", "roles", "dropUsers", "users", "admin", "record", "update"}

With(f, x, v) == [y \in DOMAIN f \cup {x} |-> IF y = x THEN v ELSE f[y]]
Without(f, x) == Restrict(f, DOMAIN f \ {x})

-----------------------------------------------------------------------------
(* Admission *)

\* Mutant: the admin user is taken whatever its roles.
isUserSpecValidAnyAdmin(acl, federal) ==
    "admin" \in DOMAIN acl.users

\* Every user has roles that exist and a secret exactly when it logs in with
\* a password; the admin user has the required roles.
isUserSpecValid(acl, federal) ==
    /\ \A u \in DOMAIN acl.users :
          /\ acl.users[u].roles \subseteq DOMAIN acl.roles \cup PredefinedRoles
          /\ (acl.users[u].mode = "PKIOnly") = (acl.users[u].secret = NoSecret)
          /\ federal => acl.users[u].mode = "PKIOnly"
    /\ "admin" \in DOMAIN acl.users
    /\ requiredRoles \subseteq acl.users["admin"].roles

isRoleSpecValid(acl) == DOMAIN acl.roles \cap PredefinedRoles = {}

IsAerospikeAccessControlValid(s, federal) ==
    s.security => /\ s.acl # NoAcl
                  /\ isRoleSpecValid(s.acl)
                  /\ isUserSpecValid(s.acl, federal)

hasPKIOnlyUser(s) == \E u \in DOMAIN s.acl.users : s.acl.users[u].mode = "PKIOnly"

validateClientCertSpec(s) == hasPKIOnlyUser(s) => "tls" \in s.net

validateAccessControlCreate(s) == s.acl # NoAcl => s.security

validateUsersAuthModeUpdate(old, new) ==
    \A u \in DOMAIN old.acl.users \cap DOMAIN new.acl.users :
        ~(old.acl.users[u].mode = "PKIOnly" /\ new.acl.users[u].mode = "Internal")

validateAccessControlUpdate(old, new) ==
    old.acl # new.acl => /\ new.acl # NoAcl
                         /\ new.security
                         /\ validateUsersAuthModeUpdate(old, new)

\* PKI users are not admitted with the update that enables TLS, nor before
\* the status reports TLS.
validateTLSAndPKIOnlyUpdate(old, new) ==
    hasPKIOnlyUser(new) =>
        /\ ~("tls" \notin old.net /\ "tls" \in new.net)
        /\ ~(status.net # {} /\ "tls" \in new.net /\ "tls" \notin status.net)

\* A port is removed only from a configuration that has both.
validateNetworkPortUpdate(old, new) == ~(old.net \subseteq new.net) => old.net = Ports

ValidateUpdate(old, new, federal) ==
    /\ new.net # {}
    /\ IsAerospikeAccessControlValid(new, federal)
    /\ validateClientCertSpec(new)
    /\ validateAccessControlUpdate(old, new)
    /\ validateTLSAndPKIOnlyUpdate(old, new)
    /\ validateNetworkPortUpdate(old, new)

ValidateCreate(s, federal) ==
    /\ s.net # {}
    /\ IsAerospikeAccessControlValid(s, federal)
    /\ validateClientCertSpec(s)
    /\ validateAccessControlCreate(s)

-----------------------------------------------------------------------------
(* Reaching the servers *)

\* TLS when the spec has it, but not while the status still says that the pods
\* have the plain port only; else the spec's plain port, which may be absent.
getServicePort(s) ==
    IF "tls" \in s.net /\ ~("tls" \notin status.net /\ "plain" \in status.net) THEN "tls"
    ELSE IF "plain" \in s.net THEN "plain" ELSE "nil"

\* Get of the password provider: what the named secret holds now.
SecretPassword(acl, u) == secrets[acl.users[u].secret]

\* How the operator logs in: as the admin user the status reports.
AuthMode(federal) ==
    IF status.acl # NoAcl THEN status.acl.users["admin"].mode
    ELSE IF federal THEN "PKIOnly" ELSE "Internal"

\* The password: the default one until an access control has been reported,
\* then that of the secret the status names.  A failed read is only logged.
AerospikeAdminCredentials(s) ==
    CASE s.acl = NoAcl -> EmptyPassword
      [] env.federal -> EmptyPassword
      [] s.acl # NoAcl /\ ~env.federal /\ status.acl = NoAcl -> DefaultPassword
      [] s.acl # NoAcl /\ ~env.federal /\ status.acl # NoAcl /\ status.acl.users["admin"].mode = "PKIOnly"
            -> EmptyPassword
      [] OTHER -> SecretPassword(status.acl, "admin")

\* A server takes the connection on a port it has; a login by certificate
\* needs TLS, and one by password the admin user's password.
Accepts(n, s) ==
    /\ ~failed
    /\ getServicePort(s) \in nodes[n].net
    /\ IF AuthMode(env.federal) = "PKIOnly" THEN getServicePort(s) = "tls"
       ELSE nodes[n].security => AerospikeAdminCredentials(s) = server.users["admin"].password

Created == {n \in Node : nodes[n].net # {}}
Connects(s) == \A n \in Created : Accepts(n, s)

-----------------------------------------------------------------------------
(* The user and the cluster *)

\* Ports or security are edited before the last edit has been reported, or
\* while a pass still works for an earlier spec.
hasty(new) == /\ status # spec \/ (pass.at # "idle" /\ pass.spec # spec)
              /\ new.net # spec.net \/ new.security # spec.security

\* The user's next edit, which the webhook admits or refuses.
Edit ==
    /\ env.edits # <<>>
    /\ LET new == Head(env.edits) IN
         IF new # spec /\ ValidateUpdate(spec, new, env.federal)
         THEN /\ spec' = new
              /\ queued' = TRUE
              /\ cause' = IF hasty(new) THEN cause \cup {"hasty"} ELSE cause
         ELSE UNCHANGED <<spec, queued, cause>>
    /\ env' = [env EXCEPT !.edits = Tail(@)]
    /\ UNCHANGED <<status, nodes, failed, server, secrets, pass, rotated, unrecorded, turned>>

\* A secret is written; the operator does not watch secrets.
WriteSecret ==
    /\ env.writes # <<>>
    /\ LET w == Head(env.writes) IN
         /\ secrets' = [secrets EXCEPT ![w.secret] = w.password]
         /\ rotated' = IF secrets[w.secret] = Missing THEN rotated ELSE rotated \cup {w.secret}
    /\ env' = [env EXCEPT !.writes = Tail(@)]
    /\ UNCHANGED <<spec, status, nodes, failed, server, pass, queued, cause, unrecorded, turned>>

\* Every pod of a cluster that has not completed its creation fails for good.
PodsFail ==
    /\ env.fails > 0
    /\ status.net = {} /\ Created # {} /\ ~failed
    /\ failed' = TRUE
    /\ env' = [env EXCEPT !.fails = @ - 1]
    /\ UNCHANGED <<spec, status, nodes, server, secrets, pass, queued, cause, rotated, unrecorded, turned>>

-----------------------------------------------------------------------------
(* The pass *)

history == <<cause, rotated, unrecorded, turned>>
outside == <<spec, secrets, env>>

GoTo(stage) == /\ pass' = [pass EXCEPT !.at = stage]
               /\ UNCHANGED queued

\* An error ends the pass and asks for another.
Retry == /\ pass' = Idle
         /\ queued' = TRUE

\* The pass is about to change, or has changed, what admin logs in with and
\* has not reported it.
AdminInFlight ==
    /\ pass.at \in {"admin", "record"}
    /\ pass.spec.acl # NoAcl
    /\ \/ status.acl = NoAcl
       \/ pass.spec.acl.users["admin"].mode # status.acl.users["admin"].mode
       \/ pass.spec.acl.users["admin"].secret # status.acl.users["admin"].secret

\* The manager restarts, or a call to the API server or to a server fails.
Interrupt ==
    /\ env.interrupts > 0
    /\ pass.at # "idle"
    /\ Retry
    /\ env' = [env EXCEPT !.interrupts = @ - 1]
    /\ cause' = cause \cup (IF AdminInFlight THEN {"cut"} ELSE {})
                      \cup (IF pass.at = "clear" /\ status.acl # NoAcl THEN {"torn"} ELSE {})
    /\ UNCHANGED <<spec, status, nodes, failed, server, secrets, rotated, unrecorded, turned>>

Begin ==
    /\ pass.at = "idle" /\ queued
    /\ pass' = [Idle EXCEPT !.at = "start", !.spec = spec]
    /\ queued' = FALSE
    /\ UNCHANGED <<status, nodes, failed, server, history, outside>>

\* A cluster without a status whose pods have all failed is created anew.
\* One without StatefulSets is taken for a new one.
checkPreviouslyFailedCluster ==
    /\ pass.at = "start"
    /\ GoTo(IF status.net = {} /\ Created # {} /\ failed THEN "wipe" ELSE "racks")
    /\ UNCHANGED <<status, nodes, failed, server, history, outside>>

\* The StatefulSets and every volume go, and with them users and roles.
recoverFailedCreate ==
    /\ pass.at = "wipe"
    /\ nodes' = [n \in Node |-> NoNode]
    /\ server' = FreshServer
    /\ failed' = FALSE
    /\ unrecorded' = NoNames
    /\ turned' = {}
    /\ GoTo("clear")
    /\ UNCHANGED <<status, cause, rotated, outside>>

\* Mutant: the access control stays in the status.
clearAerospikeAccessControlStatusNever ==
    /\ pass.at = "clear"
    /\ Retry
    /\ UNCHANGED <<status, nodes, failed, server, history, outside>>

\* A patch of its own; then the pass ends with an error so that it is retried.
clearAerospikeAccessControlStatus ==
    /\ pass.at = "clear"
    /\ status' = [status EXCEPT !.acl = NoAcl]
    /\ Retry
    /\ UNCHANGED <<nodes, failed, server, history, outside>>

ConfigOf(s) == [net |-> s.net, security |-> s.security]

getPodsWithUpdatedConfigForRack == {n \in Created : nodes[n] = ConfigOf(pass.spec)}

enablingSecurity == pass.spec.acl # NoAcl /\ status.acl = NoAcl

\* The client logs in through one of the hosts, and the commands begin with
\* the roles to drop.
validateAndReconcileAccessControl(hosts, ret) ==
    IF \E n \in hosts : Accepts(n, pass.spec)
    THEN /\ pass' = [pass EXCEPT !.at = "dropRoles", !.ret = ret,
                                 !.todo = (DOMAIN status.acl.roles \ DOMAIN pass.spec.acl.roles) \ PredefinedRoles]
         /\ UNCHANGED queued
    ELSE Retry

handleEnableSecurity ==
    /\ pass.at = "racks"
    /\ enablingSecurity /\ pass.spec.security
    /\ getPodsWithUpdatedConfigForRack # {}
    /\ validateAndReconcileAccessControl(getPodsWithUpdatedConfigForRack, "racks")
    /\ UNCHANGED <<status, nodes, failed, server, history, outside>>

\* New pods start with the configuration of the spec.
createRacks ==
    /\ pass.at = "racks"
    /\ Created = {}
    /\ nodes' = [n \in Node |-> ConfigOf(pass.spec)]
    /\ GoTo("final")
    /\ UNCHANGED <<status, failed, server, history, outside>>

\* The next pod is restarted once the pass has found the cluster stable
\* through every server; then the pass is requeued.
rollingRestartRack ==
    /\ pass.at = "racks"
    /\ Created # {}
    /\ ~(enablingSecurity /\ pass.spec.security /\ getPodsWithUpdatedConfigForRack # {})
    /\ LET outdated == Node \ getPodsWithUpdatedConfigForRack IN
         IF outdated = {} THEN GoTo("final") /\ UNCHANGED nodes
         ELSE /\ Retry
              /\ IF Connects(pass.spec)
                 THEN \E n \in outdated : /\ \A m \in outdated : m <= n
                                          /\ nodes' = [nodes EXCEPT ![n] = ConfigOf(pass.spec)]
                 ELSE UNCHANGED nodes
    /\ UNCHANGED <<status, failed, server, history, outside>>

\* After the racks: quiesce is undone on every server, then access control is
\* set up through any of them if the spec enables security.
setupAccessControl ==
    /\ pass.at = "final"
    /\ IF ~Connects(pass.spec) THEN Retry
       ELSE IF pass.spec.security THEN validateAndReconcileAccessControl(Node, "update")
       ELSE GoTo("update")
    /\ UNCHANGED <<status, nodes, failed, server, history, outside>>

-----------------------------------------------------------------------------
(* Access control, command by command *)

acl == pass.spec.acl

\* The passwords of all users are read when the commands for users are built,
\* before the first of them runs.
PasswordsReadable ==
    \A u \in DOMAIN acl.users :
        (~env.federal /\ acl.users[u].mode = "Internal") => SecretPassword(acl, u) # Missing

\* Roles are reconciled before users, and the admin user comes last.
NextStage(stage) ==
    CASE stage = "dropRoles" -> "roles"
      [] stage = "roles" -> "dropUsers"
      [] stage = "dropUsers" -> "users"
      [] stage = "users" -> "admin"
      [] stage = "admin" -> "record"

\* Mutant: admin is one of the users.
CommandsAdminAmongUsers(stage) ==
    CASE stage = "roles" -> DOMAIN acl.roles
      [] stage = "dropUsers" -> DOMAIN status.acl.users \ DOMAIN acl.users
      [] stage = "users" -> DOMAIN acl.users
      [] OTHER -> {}

\* The names each stage has a command for: what the status has and the spec
\* has not is dropped, what the spec has is created or updated.
Commands(stage) ==
    CASE stage = "roles" -> DOMAIN acl.roles
      [] stage = "dropUsers" -> DOMAIN status.acl.users \ DOMAIN acl.users
      [] stage = "users" -> DOMAIN acl.users \ {"admin"}
      [] stage = "admin" -> {"admin"}
      [] OTHER -> {}

StageDone ==
    /\ pass.at \in {"dropRoles", "roles", "dropUsers", "users", "admin"}
    /\ pass.todo = {} /\ pass.cur = {}
    /\ LET next == NextStage(pass.at) IN
         IF next = "dropUsers" /\ ~PasswordsReadable THEN Retry
         ELSE /\ pass' = [pass EXCEPT !.at = next, !.todo = Commands(next),
                                      !.read = IF next = "dropUsers" THEN secrets ELSE @]
              /\ UNCHANGED queued
    /\ UNCHANGED <<status, nodes, failed, server, history, outside>>

\* A command of the stage runs, in any order and each to its end.
Runs(stage, x) ==
    /\ pass.at = stage
    /\ pass.cur = {x} \/ (pass.cur = {} /\ x \in pass.todo)

\* The command makes a call and goes on, or is done.
Continue(x) == /\ pass' = [pass EXCEPT !.todo = @ \ {x}, !.cur = {x}]
               /\ UNCHANGED queued
Done(x) == /\ pass' = [pass EXCEPT !.todo = @ \ {x}, !.cur = {}]
           /\ UNCHANGED queued

frame == <<status, nodes, failed, outside>>

aerospikeRoleDrop(r) ==
    /\ Runs("dropRoles", r)
    /\ IF failed THEN Retry /\ UNCHANGED server
       ELSE server' = [server EXCEPT !.roles = Without(@, r)] /\ Done(r)
    /\ UNCHANGED <<frame, history>>

createRole(r) ==
    /\ Runs("roles", r)
    /\ r \notin DOMAIN server.roles
    /\ IF failed THEN Retry /\ UNCHANGED <<server, unrecorded>>
       ELSE /\ server' = [server EXCEPT !.roles = With(@, r, acl.roles[r])]
            /\ unrecorded' = [unrecorded EXCEPT !.roles = @ \cup ({r} \ DOMAIN status.acl.roles)]
            /\ Done(r)
    /\ UNCHANGED <<frame, cause, rotated, turned>>

\* The role after the next call of updateRole: privileges are revoked, then
\* granted, then whitelist and quotas are set.
UpdatedRole(now, want) ==
    IF ~(now.privileges \subseteq want.privileges) THEN [now EXCEPT !.privileges = @ \cap want.privileges]
    ELSE IF now.privileges # want.privileges THEN [now EXCEPT !.privileges = want.privileges]
    ELSE want

updateRole(r) ==
    /\ Runs("roles", r)
    /\ r \in DOMAIN server.roles
    /\ LET now == server.roles[r] IN
         IF failed THEN Retry /\ UNCHANGED server
         ELSE IF UpdatedRole(now, acl.roles[r]) = now THEN Done(r) /\ UNCHANGED server
         ELSE /\ server' = [server EXCEPT !.roles[r] = UpdatedRole(now, acl.roles[r])]
              /\ Continue(r)
    /\ UNCHANGED <<frame, history>>

\* Mutant: dropping a user that is already gone is an error.
aerospikeUserDropStrict(u) ==
    /\ Runs("dropUsers", u)
    /\ IF failed \/ u \notin DOMAIN server.users THEN Retry /\ UNCHANGED server
       ELSE server' = [server EXCEPT !.users = Without(@, u)] /\ Done(u)
    /\ UNCHANGED <<frame, history>>

\* A user that is already gone counts as dropped.
aerospikeUserDrop(u) ==
    /\ Runs("dropUsers", u)
    /\ IF failed THEN Retry /\ UNCHANGED server
       ELSE server' = [server EXCEPT !.users = Without(@, u)] /\ Done(u)
    /\ UNCHANGED <<frame, history>>

\* Mutant: a user that turns to PKI keeps its password.
UserPasswordOnlyNew(u) ==
    LET found == u \in DOMAIN status.acl.users IN
    IF env.federal THEN IF ~found /\ u # "admin" THEN EmptyPassword ELSE "unset"
    ELSE IF acl.users[u].mode = "Internal" THEN pass.read[acl.users[u].secret]
    ELSE IF ~found THEN "nopassword" ELSE "unset"

\* The password a user is given: none when the status says it has it already.
UserPassword(u) ==
    LET found == u \in DOMAIN status.acl.users IN
    IF env.federal THEN IF ~found /\ u # "admin" THEN EmptyPassword ELSE "unset"
    ELSE IF acl.users[u].mode = "Internal" THEN pass.read[acl.users[u].secret]
    ELSE IF ~found THEN "nopassword"
    ELSE IF status.acl.users[u].mode = "Internal" THEN "nopassword" ELSE "unset"

\* The users with a password that the status reports as PKI users, once u has
\* been given its own.
Turned(u) == turned \cup {x \in {u} \cap DOMAIN status.acl.users :
                            status.acl.users[x].mode = "PKIOnly" /\ acl.users[x].mode = "Internal"}

\* The servers know the roles that were created on them and the predefined ones.
KnownRoles == DOMAIN server.roles \cup PredefinedRoles

createUser(u) ==
    /\ Runs("users", u) \/ Runs("admin", u)
    /\ u \notin DOMAIN server.users
    /\ IF failed \/ UserPassword(u) = "unset" \/ ~(acl.users[u].roles \subseteq KnownRoles)
       THEN Retry /\ UNCHANGED <<server, unrecorded, turned>>
       ELSE /\ server' = [server EXCEPT !.users =
                            With(@, u, [password |-> UserPassword(u), roles |-> acl.users[u].roles])]
            /\ unrecorded' = [unrecorded EXCEPT !.users = @ \cup ({u} \ DOMAIN status.acl.users)]
            /\ turned' = Turned(u)
            /\ Done(u)
    /\ UNCHANGED <<frame, cause, rotated>>

\* The user after the next call of updateUser: the password is changed, then
\* roles are revoked, then granted.
UpdatedUser(now, password, roles) ==
    IF password \notin {"unset", now.password} THEN [now EXCEPT !.password = password]
    ELSE IF ~(now.roles \subseteq roles) THEN [now EXCEPT !.roles = @ \cap roles]
    ELSE [now EXCEPT !.roles = roles]

updateUser(u) ==
    /\ Runs("users", u) \/ Runs("admin", u)
    /\ u \in DOMAIN server.users
    /\ LET now == server.users[u]
           then == UpdatedUser(now, UserPassword(u), acl.users[u].roles) IN
         IF failed \/ ~(then.roles \subseteq now.roles \cup KnownRoles) THEN Retry /\ UNCHANGED <<server, turned>>
         ELSE IF then = now THEN Done(u) /\ UNCHANGED <<server, turned>>
         ELSE /\ server' = [server EXCEPT !.users[u] = then]
              /\ turned' = Turned(u)
              /\ Continue(u)
    /\ UNCHANGED <<frame, cause, rotated, unrecorded>>

\* The names the status does not list once the access control is reported.
Unreported == [users |-> unrecorded.users \ DOMAIN acl.users,
               roles |-> unrecorded.roles \ DOMAIN acl.roles]

updateAccessControlStatus ==
    /\ pass.at = "record"
    /\ status' = [status EXCEPT !.acl = acl]
    /\ unrecorded' = Unreported
    /\ turned' = {u \in turned \cap DOMAIN acl.users : acl.users[u].mode = "PKIOnly"}
    /\ GoTo(pass.ret)
    /\ UNCHANGED <<nodes, failed, server, cause, rotated, outside>>

\* The whole spec becomes the status, its access control included even if
\* security is off and it was not applied.
updateStatus ==
    /\ pass.at = "update"
    /\ status' = pass.spec
    /\ unrecorded' = Unreported
    /\ pass' = Idle
    /\ UNCHANGED <<nodes, failed, server, queued, cause, rotated, turned, outside>>

-----------------------------------------------------------------------------
Init ==
    \E s \in Scenarios :
        /\ env = [federal |-> s.federal, edits |-> s.edits, writes |-> s.writes,
                  interrupts |-> s.interrupts, fails |-> s.fails]
        /\ ValidateCreate(s.spec, s.federal)
        /\ spec = s.spec
        /\ secrets = s.secrets
        /\ status = NoStatus
        /\ nodes = [n \in Node |-> NoNode]
        /\ failed = FALSE
        /\ server = FreshServer
        /\ pass = Idle
        /\ queued = TRUE
        /\ cause = {} /\ rotated = {} /\ unrecorded = NoNames /\ turned = {}

aclStep ==
    \/ StageDone
    \/ \E r \in Role : aerospikeRoleDrop(r) \/ createRole(r) \/ updateRole(r)
    \/ \E u \in User : aerospikeUserDrop(u) \/ createUser(u) \/ updateUser(u)
    \/ updateAccessControlStatus

reconcile ==
    \/ Begin \/ checkPreviouslyFailedCluster
    \/ recoverFailedCreate \/ clearAerospikeAccessControlStatus
    \/ handleEnableSecurity \/ createRacks \/ rollingRestartRack
    \/ setupAccessControl \/ aclStep \/ updateStatus

Next == Edit \/ WriteSecret \/ PodsFail \/ Interrupt \/ reconcile

Spec == Init /\ [][Next]_vars

\* The controller keeps working its queue; nothing is assumed of the user.
FairSpec == Spec /\ WF_vars(reconcile)

-----------------------------------------------------------------------------
(* Properties *)

\* What the servers may hold: the user "admin" always, and no password that the
\* operator did not take from a secret or from its constants.
Passwords == Password \cup {DefaultPassword, "nopassword", EmptyPassword}
ServerUsers == [password : Passwords, roles : SUBSET (Role \cup PredefinedRoles)]
Servers == {s \in [users : Maps(User, ServerUsers), roles : Maps(Role, RoleSpecs)] : "admin" \in DOMAIN s.users}

Passes == [at : Stages, spec : Specs, todo : SUBSET (User \cup Role), cur : SUBSET (User \cup Role),
           ret : {"idle", "racks", "update"}, read : Secrets]
Environments == [federal : BOOLEAN, edits : Seq(Specs), writes : Seq(Writes), interrupts : Nat, fails : Nat]

\* The state is well formed.
TypeOK ==
    /\ spec \in Specs /\ status \in Specs
    /\ nodes \in [Node -> Configs]
    /\ failed \in BOOLEAN /\ queued \in BOOLEAN
    /\ server \in Servers
    /\ secrets \in Secrets
    /\ pass \in Passes
    /\ env \in Environments
    /\ cause \subseteq {"hasty", "cut", "torn"} /\ rotated \subseteq Secret
    /\ unrecorded \in [users : SUBSET User, roles : SUBSET Role] /\ turned \subseteq User

AtRest == pass.at = "idle" /\ ~queued

\* The operator can log in to every server whenever it is about to start a
\* pass, unless its access was cut by one of four events: a pass stopped
\* between the change of admin's login and the patch that reports it; a
\* recreation stopped between the deletion of the volumes and the patch that
\* clears the reported access control; ports or security edited again before
\* the last edit was reported or while a pass still worked for an earlier spec;
\* the password in admin's secret replaced.  A federal image is logged in to by
\* certificate only, so the spec must have TLS: the webhook does not ask for it.
OperatorKeepsAccess ==
    (pass.at = "idle" /\ ~failed /\ cause = {} /\ (env.federal => "tls" \in spec.net)
     /\ (status.acl # NoAcl => status.acl.users["admin"].secret \notin rotated))
        => Connects(spec)

\* At rest the servers hold the roles and the users of the spec, with the
\* passwords of their secrets and no others, save those an interrupted pass
\* created and a later spec no longer names: they are nowhere recorded and are
\* never dropped.  A PKI user has no password, unless passes that were stopped
\* gave it one between two specs in which it is a PKI user.
RestMeansApplied ==
    (AtRest /\ spec.security /\ cause = {}) =>
        /\ status = spec
        /\ DOMAIN server.roles \ unrecorded.roles = DOMAIN spec.acl.roles
        /\ \A r \in DOMAIN spec.acl.roles : server.roles[r] = spec.acl.roles[r]
        /\ DOMAIN server.users \ unrecorded.users = DOMAIN spec.acl.users
        /\ \A u \in DOMAIN spec.acl.users :
              LET now == server.users[u]
                  want == spec.acl.users[u] IN
              /\ now.roles = want.roles
              /\ want.mode = "Internal" =>
                    want.secret \in rotated \/ now.password = secrets[want.secret]
              /\ want.mode = "PKIOnly" =>
                    IF env.federal THEN u = "admin" \/ now.password = EmptyPassword
                    ELSE u \in turned \/ now.password = "nopassword"

\* admin's own login is changed only once every other role and user is as the
\* pass wants it, so that losing the connection to it costs nothing else.
AdminLast ==
    [][(server'.users["admin"].password # server.users["admin"].password /\ pass.at # "wipe") =>
          /\ \A r \in DOMAIN acl.roles : r \in DOMAIN server.roles /\ server.roles[r] = acl.roles[r]
          /\ \A u \in DOMAIN acl.users \ {"admin"} :
                u \in DOMAIN server.users /\ server.users[u].roles = acl.users[u].roles
          /\ (DOMAIN status.acl.users \ DOMAIN acl.users) \cap DOMAIN server.users = {}]_vars

\* Once its access control has been reported the admin user keeps the roles the
\* operator needs, whatever the user edits and wherever a pass stops.
AdminKeepsRoles ==
    (status.acl # NoAcl /\ status.security) =>
        requiredRoles \subseteq server.users["admin"].roles

\* A user the status lists as a PKI user, or as any user of a federal image, but
\* that is no longer on the servers, cannot be created: it is given no password.
Uncreatable ==
    \E u \in DOMAIN spec.acl.users \ DOMAIN server.users :
        /\ u \in DOMAIN status.acl.users
        /\ env.federal \/ (status.acl.users[u].mode = "PKIOnly" /\ spec.acl.users[u].mode = "PKIOnly")

PasswordMissing ==
    \E u \in DOMAIN spec.acl.users : spec.acl.users[u].mode = "Internal" /\ SecretPassword(spec.acl, u) = Missing

\* Once the edits stop, the operator comes to rest, unless it has lost its
\* access, or the spec names a secret that is not there, or a user was dropped
\* by a pass that was stopped and then put back as a PKI user.
Settles ==
    <>[]AtRest \/ <>[](~Connects(spec)) \/ <>[]PasswordMissing \/ <>[]Uncreatable
=============================================================================

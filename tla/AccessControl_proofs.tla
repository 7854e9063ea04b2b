------------------------ MODULE AccessControl_proofs ------------------------
(* Proofs about AccessControl for any number of pods, any names, secrets and *)
(* passwords and any scenario: any sequence of edits, secret writes,         *)
(* interruptions and failed creations.  First the types and the steps of a   *)
(* pass, then what the passes keep true: the operator keeps its login, admin *)
(* keeps its roles and is changed last, and at rest the servers hold what    *)
(* the spec says.                                                            *)
EXTENDS AccessControl, TLAPS

\* The steps are about names, sets and maps, with hardly any arithmetic.
USE ZenonT(30)

-----------------------------------------------------------------------------
(* Functions on some of the names *)

\* A map is a function whose domain is some of the names.
LEMMA MapsElim ==
    ASSUME NEW D, NEW X, NEW f \in Maps(D, X)
    PROVE  /\ DOMAIN f \subseteq D
           /\ f \in [DOMAIN f -> X]
  BY DEF Maps

\* A function whose domain is some of the names is a map.
LEMMA MapsIntro ==
    ASSUME NEW D, NEW X, NEW S \in SUBSET D, NEW f \in [S -> X]
    PROVE  f \in Maps(D, X)
  BY DEF Maps

\* Dropping a role or a user removes one name and keeps what the others have.
LEMMA MapsWithout ==
    ASSUME NEW D, NEW X, NEW f \in Maps(D, X), NEW d
    PROVE  /\ Without(f, d) \in Maps(D, X)
           /\ DOMAIN Without(f, d) = DOMAIN f \ {d}
           /\ \A e \in DOMAIN f \ {d} : Without(f, d)[e] = f[e]
  <1>1. Without(f, d) \in [DOMAIN f \ {d} -> X]
    BY SMT, MapsElim DEF Without, Restrict
  <1>2. DOMAIN f \ {d} \in SUBSET D
    BY MapsElim
  <1> QED BY <1>1, <1>2, MapsIntro DEF Without, Restrict

\* Updating a role or a user keeps the names and what the others have.
LEMMA MapsUpdate ==
    ASSUME NEW D, NEW X, NEW f \in Maps(D, X), NEW d \in DOMAIN f, NEW x \in X
    PROVE  /\ [f EXCEPT ![d] = x] \in Maps(D, X)
           /\ DOMAIN [f EXCEPT ![d] = x] = DOMAIN f
           /\ [f EXCEPT ![d] = x][d] = x
           /\ \A e \in DOMAIN f \ {d} : [f EXCEPT ![d] = x][e] = f[e]
  <1>1. [f EXCEPT ![d] = x] \in [DOMAIN f -> X]
    BY MapsElim
  <1>2. DOMAIN f \in SUBSET D
    BY MapsElim
  <1> QED BY <1>1, <1>2, MapsIntro

-----------------------------------------------------------------------------
(* What the state holds *)

\* The users and the roles of an access control.
LEMMA AclFields ==
    ASSUME NEW a \in AccessControls
    PROVE  /\ DOMAIN a.users \subseteq User /\ DOMAIN a.roles \subseteq Role
           /\ \A u \in DOMAIN a.users : a.users[u] \in UserSpecs
           /\ \A r \in DOMAIN a.roles : a.roles[r] \in RoleSpecs
  <1>1. a.users \in Maps(User, UserSpecs) /\ a.roles \in Maps(Role, RoleSpecs)
    BY DEF AccessControls
  <1> QED BY SMT, <1>1, MapsElim

\* The users and the roles on the servers.
LEMMA ServerFields ==
    ASSUME NEW s \in Servers
    PROVE  /\ s.users \in Maps(User, ServerUsers) /\ s.roles \in Maps(Role, RoleSpecs)
           /\ DOMAIN s.users \subseteq User /\ DOMAIN s.roles \subseteq Role
           /\ "admin" \in DOMAIN s.users
           /\ \A u \in DOMAIN s.users : s.users[u] \in ServerUsers
           /\ \A r \in DOMAIN s.roles : s.roles[r] \in RoleSpecs
  <1>1. s.users \in Maps(User, ServerUsers) /\ s.roles \in Maps(Role, RoleSpecs) /\ "admin" \in DOMAIN s.users
    BY DEF Servers
  <1> QED BY SMT, <1>1, MapsElim

\* The initial values have their types.
LEMMA Initials ==
    /\ NoAcl \in AccessControls /\ NoStatus \in Specs /\ NoNode \in Configs
    /\ FreshServer \in Servers /\ Idle \in Passes
    /\ DOMAIN NoAcl.users = {} /\ DOMAIN NoAcl.roles = {}
    /\ DOMAIN FreshServer.users = {"admin"} /\ DOMAIN FreshServer.roles = {}
    /\ FreshServer.users["admin"].password = DefaultPassword
  <1>1. <<>> \in [{} -> UserSpecs] /\ <<>> \in [{} -> RoleSpecs] /\ DOMAIN <<>> = {}
    BY SMT
  <1>2. <<>> \in Maps(User, UserSpecs) /\ <<>> \in Maps(Role, RoleSpecs)
    BY <1>1, MapsIntro
  <1>3. NoAcl \in AccessControls /\ DOMAIN NoAcl.users = {} /\ DOMAIN NoAcl.roles = {}
    BY <1>1, <1>2 DEF NoAcl, AccessControls
  <1>4. NoStatus \in Specs /\ NoNode \in Configs
    BY <1>3 DEF NoStatus, NoNode, Specs, Configs
  <1>5. Idle \in Passes
    <2>1. [x \in Secret |-> Missing] \in Secrets
      BY DEF Secrets
    <2> QED BY <1>4, <2>1 DEF Idle, Passes, Stages
  <1>6. FreshServer \in Servers /\ DOMAIN FreshServer.users = {"admin"} /\ DOMAIN FreshServer.roles = {}
        /\ FreshServer.users["admin"].password = DefaultPassword
    <2> DEFINE fresh == [u \in {"admin"} |-> [password |-> DefaultPassword, roles |-> {"user-admin"}]]
    <2>1. [password |-> DefaultPassword, roles |-> {"user-admin"}] \in ServerUsers
      BY DEF ServerUsers, Passwords, PredefinedRoles
    <2>2. fresh \in [{"admin"} -> ServerUsers] /\ {"admin"} \in SUBSET User
      BY <2>1, ConstantsAssumption
    <2>3. fresh \in Maps(User, ServerUsers) /\ DOMAIN fresh = {"admin"}
      BY <2>2, MapsIntro
    <2>4. FreshServer = [users |-> fresh, roles |-> <<>>]
      BY DEF FreshServer
    <2>5. fresh["admin"].password = DefaultPassword
      OBVIOUS
    <2> HIDE DEF fresh
    <2> QED BY <1>1, <1>2, <2>3, <2>4, <2>5 DEF Servers
  <1> QED BY <1>3, <1>4, <1>5, <1>6

-----------------------------------------------------------------------------
(* The inductive invariant *)

Active == pass.at # "idle"
AclStages == {"dropRoles", "roles", "dropUsers", "users", "admin", "record"}
UserStages == {"dropUsers", "users", "admin", "record"}
InAcl == pass.at \in AclStages
InUsers == pass.at \in UserStages
Applied == pass.at = "update" /\ pass.spec.security     \* the commands have all run

ValidAcl(a) == a # NoAcl => isUserSpecValid(a, env.federal)
ValidSpec(s) == ValidAcl(s.acl) /\ (s.security => s.acl # NoAcl) /\ validateClientCertSpec(s)

\* a spec with access control b may follow one with a: the admin user stays,
\* and stays a PKI user.
Leads(a, b) ==
    a # NoAcl => b # NoAcl /\ (a.users["admin"].mode = "PKIOnly" => b.users["admin"].mode = "PKIOnly")

\* The spec, the copy a pass works with and the access control reported were
\* admitted by the webhook, and in that order; the queue covers every edit.
ValidInv ==
    /\ ValidSpec(spec) /\ spec.net # {}
    /\ ValidSpec(pass.spec) /\ (Active => pass.spec.net # {})
    /\ ValidAcl(status.acl)
    /\ status.net = {} => ~status.security
    /\ Leads(status.acl, spec.acl) /\ Leads(pass.spec.acl, spec.acl)
    /\ status.security => spec.acl # NoAcl
    /\ ~queued => IF Active THEN pass.spec = spec ELSE status = spec

\* The pods run the configuration of the pass.
Rolled == pass.at \in {"final", "update"} \/ (InAcl /\ pass.ret = "update")

\* Where a pass is and what it has left to do.
PassInv ==
    /\ InAcl => pass.spec.security /\ pass.ret \in {"racks", "update"}
    /\ pass.at \notin {"roles", "users", "admin"} => pass.cur = {}
    /\ pass.at \in {"wipe", "clear"} => status.net = {}
    /\ pass.at = "clear" => server = FreshServer /\ (\A n \in Node : nodes[n] = NoNode) /\ ~failed
    /\ Rolled => \A n \in Node : nodes[n] = ConfigOf(pass.spec)
    /\ pass.at = "dropRoles" => pass.todo \cap DOMAIN acl.roles = {}
    /\ pass.at = "roles" => pass.todo \cup pass.cur \subseteq DOMAIN acl.roles
    /\ pass.at = "dropUsers" => pass.todo \subseteq DOMAIN status.acl.users \ DOMAIN acl.users
    /\ pass.at = "users" => pass.todo \cup pass.cur \subseteq DOMAIN acl.users \ {"admin"}
    /\ pass.at = "admin" => pass.todo \cup pass.cur \subseteq {"admin"}

RoleDone(r) == r \in DOMAIN server.roles /\ server.roles[r] = acl.roles[r]
RolesGiven(u) == u \in DOMAIN server.users /\ server.users[u].roles = acl.users[u].roles
UserDone(u) == RolesGiven(u) /\ UserPassword(u) \in {"unset", server.users[u].password}
ToDrop == DOMAIN status.acl.users \ DOMAIN acl.users

\* What the commands that have run leave on the servers, stage by stage.
StageInv ==
    /\ pass.at = "roles" => \A r \in DOMAIN acl.roles \ (pass.todo \cup pass.cur) : RoleDone(r)
    /\ InUsers \/ Applied => \A r \in DOMAIN acl.roles : RoleDone(r)
    /\ pass.at = "dropUsers" => ToDrop \cap DOMAIN server.users \subseteq pass.todo
    /\ pass.at \in {"users", "admin", "record"} => ToDrop \cap DOMAIN server.users = {}
    /\ pass.at = "users" =>
          \A u \in DOMAIN acl.users \ ({"admin"} \cup pass.todo \cup pass.cur) : UserDone(u)
    /\ pass.at \in {"admin", "record"} => \A u \in DOMAIN acl.users \ {"admin"} : UserDone(u)
    /\ pass.at = "record" \/ (pass.at = "admin" /\ pass.todo = {} /\ pass.cur = {}) => UserDone("admin")
    /\ Applied => status.acl = acl /\ \A u \in DOMAIN acl.users : RolesGiven(u)

\* The passwords of a pass were read while the secrets were there, and are
\* those the secrets hold still unless they were replaced.
ReadInv ==
    InUsers \/ Applied => \A u \in DOMAIN acl.users :
        acl.users[u].mode = "Internal" =>
            LET read == pass.read[acl.users[u].secret]
            IN  /\ read # Missing
                /\ read = secrets[acl.users[u].secret] \/ acl.users[u].secret \in rotated
                /\ Applied => server.users[u].password = read

-----------------------------------------------------------------------------
(* The steps *)

Outer == UNCHANGED <<spec, secrets, env, cause, rotated>>
Kept == UNCHANGED <<status, server, unrecorded, turned>>
Placed == UNCHANGED <<nodes, failed>>
SamePass == pass' \in Passes /\ pass'.spec = pass.spec /\ pass'.ret = pass.ret /\ pass'.read = pass.read

\* The pass ends with an error before its end.
Quits ==
    /\ Outer /\ Kept /\ failed' = failed
    /\ pass.at \notin {"idle", "clear"}
    /\ pass.at \in {"admin", "record"} => failed
    /\ pass' = Idle /\ queued' = TRUE
    /\ \/ nodes' = nodes
       \/ /\ pass.at = "racks" /\ Created # {}
          /\ \E n \in Node : nodes' = [nodes EXCEPT ![n] = ConfigOf(pass.spec)]

\* The pass goes on from one part to the next, outside access control.
Walks ==
    /\ Outer /\ Kept /\ failed' = failed /\ queued' = queued
    /\ SamePass /\ pass'.todo = pass.todo /\ pass'.cur = pass.cur
    /\ \/ pass.at = "start" /\ pass'.at = "racks" /\ nodes' = nodes
       \/ pass.at = "start" /\ pass'.at = "wipe" /\ nodes' = nodes /\ status.net = {}
       \/ pass.at = "racks" /\ pass'.at = "final" /\ nodes' = [n \in Node |-> ConfigOf(pass.spec)]
       \/ /\ pass.at = "final" /\ pass'.at = "update" /\ nodes' = nodes
          /\ ~pass.spec.security /\ Connects(pass.spec)

\* The pass has logged in and starts on access control.
Enters ==
    /\ Outer /\ Kept /\ Placed /\ queued' = queued
    /\ pass.spec.security
    /\ pass' \in Passes /\ pass'.at = "dropRoles" /\ pass'.spec = pass.spec /\ pass'.cur = pass.cur
    /\ pass'.todo = (DOMAIN status.acl.roles \ DOMAIN acl.roles) \ PredefinedRoles
    /\ \/ pass.at = "racks" /\ pass'.ret = "racks"
       \/ pass.at = "final" /\ pass'.ret = "update" /\ Connects(pass.spec)

\* A stage of access control is done and the next one begins.
Advances ==
    /\ Outer /\ Kept /\ Placed /\ queued' = queued
    /\ pass.todo = {} /\ pass.cur = {}
    /\ pass' \in Passes /\ pass'.spec = pass.spec /\ pass'.ret = pass.ret /\ pass'.cur = {}
    /\ pass'.todo = Commands(pass'.at)
    /\ \/ pass.at = "dropRoles" /\ pass'.at = "roles"
       \/ /\ pass.at = "roles" /\ pass'.at = "dropUsers"
          /\ pass'.read = secrets /\ PasswordsReadable
       \/ pass.at = "dropUsers" /\ pass'.at = "users" /\ pass'.read = pass.read
       \/ pass.at = "users" /\ pass'.at = "admin" /\ pass'.read = pass.read
       \/ pass.at = "admin" /\ pass'.at = "record" /\ pass'.read = pass.read

\* A call to the server that concerns the user or role x.
Calls(stage, x) ==
    /\ Outer /\ Placed /\ status' = status /\ queued' = queued
    /\ pass.at = stage
    /\ x \in pass.todo \cup pass.cur /\ (pass.cur = {} \/ pass.cur = {x})
    /\ SamePass /\ pass'.at = pass.at /\ pass'.todo = pass.todo \ {x} /\ pass'.cur \in {{}, {x}}
    /\ server' \in Servers

DropsRole(r) ==
    /\ Calls("dropRoles", r) /\ pass'.cur = {}
    /\ server'.users = server.users /\ DOMAIN server'.roles = DOMAIN server.roles \ {r}
    /\ UNCHANGED <<unrecorded, turned>>

SetsRole(r) ==
    /\ Calls("roles", r)
    /\ server'.users = server.users /\ DOMAIN server'.roles = DOMAIN server.roles \cup {r}
    /\ \A x \in DOMAIN server.roles \ {r} : server'.roles[x] = server.roles[x]
    /\ pass'.cur = {} => server'.roles[r] = acl.roles[r]
    /\ unrecorded' \in [users : SUBSET User, roles : SUBSET Role] /\ unrecorded'.users = unrecorded.users
    /\ unrecorded'.roles = unrecorded.roles
                             \cup ((DOMAIN server'.roles \ DOMAIN server.roles) \ DOMAIN status.acl.roles)
    /\ turned' = turned

DropsUser(u) ==
    /\ Calls("dropUsers", u) /\ pass'.cur = {}
    /\ server'.roles = server.roles /\ DOMAIN server'.users = DOMAIN server.users \ {u}
    /\ \A x \in DOMAIN server.users \ {u} : server'.users[x] = server.users[x]
    /\ UNCHANGED <<unrecorded, turned>>

SetsUser(u) ==
    /\ Calls("users", u) \/ Calls("admin", u)
    /\ server'.roles = server.roles /\ DOMAIN server'.users = DOMAIN server.users \cup {u}
    /\ \A x \in DOMAIN server.users \ {u} : server'.users[x] = server.users[x]
    /\ \/ u \in DOMAIN server.users /\ server'.users[u].password = server.users[u].password
       \/ UserPassword(u) # "unset" /\ server'.users[u].password = UserPassword(u) /\ turned' = Turned(u)
    /\ \/ server'.users[u].roles = acl.users[u].roles
       \/ u \in DOMAIN server.users /\ server'.users[u].roles = server.users[u].roles
       \/ u \in DOMAIN server.users /\ server'.users[u].roles = server.users[u].roles \cap acl.users[u].roles
    /\ pass'.cur = {} => /\ server'.users[u].roles = acl.users[u].roles
                         /\ UserPassword(u) \in {"unset", server'.users[u].password}
    /\ unrecorded' \in [users : SUBSET User, roles : SUBSET Role] /\ unrecorded'.roles = unrecorded.roles
    /\ unrecorded'.users = unrecorded.users
                             \cup ((DOMAIN server'.users \ DOMAIN server.users) \ DOMAIN status.acl.users)
    /\ turned' \in {turned, Turned(u)}

Steps ==
    \/ Edit \/ WriteSecret \/ PodsFail \/ Interrupt
    \/ Begin \/ recoverFailedCreate \/ clearAerospikeAccessControlStatus
    \/ Quits \/ Walks \/ Enters \/ Advances
    \/ \E r \in Role : DropsRole(r) \/ SetsRole(r)
    \/ \E u \in User : DropsUser(u) \/ SetsUser(u)
    \/ updateAccessControlStatus \/ updateStatus
    \/ UNCHANGED vars

Sound == TypeOK /\ ValidInv /\ PassInv /\ StageInv /\ ReadInv

\* The types of what a pass works with.
LEMMA PassTyped ==
    ASSUME TypeOK
    PROVE  /\ pass.at \in Stages /\ pass.spec \in Specs /\ pass.todo \in SUBSET (User \cup Role)
           /\ pass.cur \in SUBSET (User \cup Role) /\ pass.ret \in {"idle", "racks", "update"}
           /\ pass.read \in Secrets
           /\ acl \in AccessControls /\ status.acl \in AccessControls /\ spec.acl \in AccessControls
           /\ ConfigOf(pass.spec) \in Configs /\ ConfigOf(spec) \in Configs /\ ConfigOf(status) \in Configs
  <1>1. /\ pass.at \in Stages /\ pass.spec \in Specs /\ pass.todo \in SUBSET (User \cup Role)
        /\ pass.cur \in SUBSET (User \cup Role) /\ pass.ret \in {"idle", "racks", "update"}
        /\ pass.read \in Secrets /\ status \in Specs /\ spec \in Specs
    BY DEF TypeOK, Passes
  <1>2. ASSUME NEW s \in Specs
        PROVE  s.acl \in AccessControls /\ ConfigOf(s) \in Configs
    BY DEF Specs, ConfigOf, Configs
  <1> QED BY <1>1, <1>2 DEF acl

\* The access control a pass applies was admitted with its admin user.
LEMMA AclAdmitted ==
    ASSUME TypeOK, ValidInv, PassInv, InAcl \/ Applied
    PROVE  /\ isUserSpecValid(acl, env.federal)
           /\ "admin" \in DOMAIN acl.users /\ requiredRoles \subseteq acl.users["admin"].roles
           /\ \A u \in DOMAIN acl.users : acl.users[u].mode = "Internal" =>
                 ~env.federal /\ acl.users[u].secret \in Secret
  <1>1. isUserSpecValid(acl, env.federal)
    BY DEF ValidInv, ValidSpec, ValidAcl, PassInv, acl, Applied
  <1>2. \A u \in DOMAIN acl.users : acl.users[u] \in UserSpecs
    BY PassTyped, AclFields
  <1>3. \A u \in DOMAIN acl.users : acl.users[u].mode = "Internal" =>
                 ~env.federal /\ acl.users[u].secret # NoSecret
    BY <1>1 DEF isUserSpecValid
  <1>4. \A u \in DOMAIN acl.users : acl.users[u].secret \in Secret \cup {NoSecret}
    BY <1>2 DEF UserSpecs
  <1> QED BY <1>1, <1>3, <1>4 DEF isUserSpecValid

\* The password a user is given comes from its secret, or is one of two
\* constants, or is left alone.
LEMMA PasswordTyped ==
    ASSUME Sound, InUsers, NEW u \in DOMAIN acl.users
    PROVE  /\ UserPassword(u) \in Passwords \cup {"unset"}
           /\ acl.users[u].mode = "Internal" =>
                 /\ UserPassword(u) = pass.read[acl.users[u].secret]
                 /\ UserPassword(u) \in Password /\ UserPassword(u) # "unset"
  <1>1. /\ \A v \in DOMAIN acl.users : acl.users[v].mode = "Internal" =>
                 ~env.federal /\ acl.users[v].secret \in Secret
    BY AclAdmitted DEF Sound, InUsers, InAcl, UserStages, AclStages
  <1>2. pass.read \in Secrets
    BY PassTyped DEF Sound
  <1>3. acl.users[u].mode = "Internal" => pass.read[acl.users[u].secret] # Missing
    BY DEF Sound, ReadInv
  <1>4. acl.users[u].mode = "Internal" => pass.read[acl.users[u].secret] \in Password
    BY <1>1, <1>2, <1>3 DEF Secrets
  <1>5. acl.users[u].mode = "Internal" => UserPassword(u) = pass.read[acl.users[u].secret]
    BY <1>1 DEF UserPassword
  <1>6. acl.users[u].mode # "Internal" => UserPassword(u) \in {EmptyPassword, "nopassword", "unset"}
    BY DEF UserPassword
  <1> QED BY <1>4, <1>5, <1>6, MarkersAssumption DEF Passwords

\* The roles of a user are known to the servers when the user is set.
LEMMA RolesKnown ==
    ASSUME Sound, InUsers, NEW u \in DOMAIN acl.users
    PROVE  acl.users[u].roles \subseteq KnownRoles
  <1>1. acl.users[u].roles \subseteq DOMAIN acl.roles \cup PredefinedRoles
    BY AclAdmitted DEF Sound, InUsers, InAcl, UserStages, AclStages, isUserSpecValid
  <1>2. DOMAIN acl.roles \subseteq DOMAIN server.roles
    BY DEF Sound, StageInv, RoleDone
  <1> QED BY <1>1, <1>2 DEF KnownRoles

\* A pass that gives up leaves the servers and the status as they are.
LEMMA RetryQuits ==
    ASSUME Retry, Outer, Kept, Placed, pass.at \notin {"idle", "clear"},
           pass.at \in {"admin", "record"} => failed
    PROVE  Quits
  BY DEF Retry, Quits, Placed

\* A pass that goes to another stage keeps everything else.
LEMMA GoesTo ==
    ASSUME TypeOK, NEW stage \in Stages, GoTo(stage)
    PROVE  /\ SamePass /\ pass'.at = stage /\ pass'.todo = pass.todo /\ pass'.cur = pass.cur
           /\ queued' = queued
  BY DEF TypeOK, Passes, GoTo, SamePass

\* What logging in for access control does.
LEMMA LoginEnters ==
    ASSUME Sound, NEW hosts, NEW ret \in {"racks", "update"}, validateAndReconcileAccessControl(hosts, ret),
           UNCHANGED <<status, nodes, failed, server, history, outside>>, pass.spec.security,
           (pass.at = "racks" /\ ret = "racks") \/ (pass.at = "final" /\ ret = "update" /\ Connects(pass.spec))
    PROVE  Quits \/ Enters
  <1>1. Outer /\ Kept /\ Placed
    BY DEF Outer, Kept, Placed, history, outside
  <1>2. CASE Retry
    BY <1>1, <1>2, RetryQuits
  <1>3. CASE ~Retry
    <2> DEFINE todo == (DOMAIN status.acl.roles \ DOMAIN acl.roles) \ PredefinedRoles
    <2>1. pass' = [pass EXCEPT !.at = "dropRoles", !.ret = ret, !.todo = todo] /\ queued' = queued
      BY <1>3 DEF validateAndReconcileAccessControl, acl
    <2>2. todo \in SUBSET (User \cup Role)
      BY PassTyped, AclFields DEF Sound
    <2>3. pass \in Passes /\ "dropRoles" \in Stages
      BY DEF Sound, TypeOK, Stages
    <2> HIDE DEF todo
    <2>4. /\ pass' \in Passes /\ pass'.at = "dropRoles" /\ pass'.spec = pass.spec /\ pass'.cur = pass.cur
          /\ pass'.todo = todo /\ pass'.ret = ret
      BY <2>1, <2>2, <2>3 DEF Passes
    <2> QED BY <1>1, <2>1, <2>4 DEF Enters, todo
  <1> QED BY <1>2, <1>3

\* The passes' steps before access control.
LEMMA RackSteps ==
    ASSUME Sound
    PROVE  /\ checkPreviouslyFailedCluster => Walks
           /\ handleEnableSecurity => Quits \/ Enters
           /\ createRacks => Walks
           /\ rollingRestartRack => Quits \/ Walks
           /\ setupAccessControl => Quits \/ Enters \/ Walks
  <1>0. {"wipe", "racks", "final", "update"} \subseteq Stages /\ TypeOK
    BY DEF Sound, Stages
  <1>1. checkPreviouslyFailedCluster => Walks
    <2> SUFFICES ASSUME checkPreviouslyFailedCluster PROVE Walks
      OBVIOUS
    <2> DEFINE failing == status.net = {} /\ Created # {} /\ failed
    <2>1. pass.at = "start" /\ Outer /\ Kept /\ Placed
      BY DEF checkPreviouslyFailedCluster, Outer, Kept, Placed, history, outside
    <2>2. (status.net = {} /\ GoTo("wipe")) \/ GoTo("racks")
      BY DEF checkPreviouslyFailedCluster
    <2> QED BY <1>0, <2>1, <2>2, GoesTo DEF Walks, Placed
  <1>2. handleEnableSecurity => Quits \/ Enters
    BY LoginEnters DEF handleEnableSecurity
  <1>3. createRacks => Walks
    <2> SUFFICES ASSUME createRacks PROVE Walks
      OBVIOUS
    <2>1. Outer /\ Kept /\ failed' = failed /\ pass.at = "racks" /\ GoTo("final")
          /\ nodes' = [n \in Node |-> ConfigOf(pass.spec)]
      BY DEF createRacks, Outer, Kept, history, outside
    <2> QED BY <1>0, <2>1, GoesTo DEF Walks
  <1>4. rollingRestartRack => Quits \/ Walks
    <2> SUFFICES ASSUME rollingRestartRack PROVE Quits \/ Walks
      OBVIOUS
    <2> DEFINE outdated == Node \ getPodsWithUpdatedConfigForRack
    <2>1. Outer /\ Kept /\ failed' = failed /\ pass.at = "racks" /\ Created # {}
      BY DEF rollingRestartRack, Outer, Kept, history, outside
    <2>2. CASE outdated = {}
      <3>1. GoTo("final") /\ nodes' = nodes
        BY <2>2 DEF rollingRestartRack
      <3>2. \A n \in Node : nodes[n] = ConfigOf(pass.spec)
        BY <2>2 DEF getPodsWithUpdatedConfigForRack
      <3>3. nodes = [n \in Node |-> ConfigOf(pass.spec)]
        BY <1>0, <3>2 DEF TypeOK
      <3> QED BY <1>0, <2>1, <3>1, <3>3, GoesTo DEF Walks
    <2>3. CASE outdated # {}
      <3>1. Retry /\ (nodes' = nodes \/ \E n \in outdated : nodes' = [nodes EXCEPT ![n] = ConfigOf(pass.spec)])
        BY <2>3 DEF rollingRestartRack
      <3> QED BY <2>1, <3>1 DEF Quits, Retry
    <2> QED BY <2>2, <2>3
  <1>5. setupAccessControl => Quits \/ Enters \/ Walks
    <2> SUFFICES ASSUME setupAccessControl PROVE Quits \/ Enters \/ Walks
      OBVIOUS
    <2>1. pass.at = "final" /\ Outer /\ Kept /\ Placed
      BY DEF setupAccessControl, Outer, Kept, Placed, history, outside
    <2>2. CASE ~Connects(pass.spec)
      BY <2>1, <2>2, RetryQuits DEF setupAccessControl
    <2>3. CASE Connects(pass.spec) /\ pass.spec.security
      BY <2>1, <2>3, LoginEnters DEF setupAccessControl
    <2>4. CASE Connects(pass.spec) /\ ~pass.spec.security
      BY <1>0, <2>1, <2>4, GoesTo DEF setupAccessControl, Walks, Placed
    <2> QED BY <2>2, <2>3, <2>4
  <1> QED BY <1>1, <1>2, <1>3, <1>4, <1>5

\* The end of a stage of access control.
LEMMA StageSteps ==
    ASSUME Sound, StageDone
    PROVE  Quits \/ Advances
  <1>1. /\ pass.at \in {"dropRoles", "roles", "dropUsers", "users", "admin"}
        /\ pass.todo = {} /\ pass.cur = {} /\ Outer /\ Kept /\ Placed
    BY DEF StageDone, Outer, Kept, Placed, history, outside
  <1> DEFINE next == NextStage(pass.at)
  <1>2. /\ pass.at = "dropRoles" => next = "roles"
        /\ pass.at = "roles" => next = "dropUsers"
        /\ pass.at = "dropUsers" => next = "users"
        /\ pass.at = "users" => next = "admin"
        /\ pass.at = "admin" => next = "record"
    BY DEF NextStage
  <1>3. next \in {"roles", "dropUsers", "users", "admin", "record"}
    BY <1>1, <1>2
  <1>4. CASE next = "dropUsers" /\ ~PasswordsReadable
    <2>1. Retry
      BY <1>4 DEF StageDone
    <2>2. pass.at = "roles"
      BY <1>1, <1>2, <1>4
    <2> QED BY <1>1, <2>1, <2>2, RetryQuits
  <1>5. CASE ~(next = "dropUsers" /\ ~PasswordsReadable)
    <2> DEFINE read == IF next = "dropUsers" THEN secrets ELSE pass.read
    <2>1. pass' = [pass EXCEPT !.at = next, !.todo = Commands(next), !.read = read] /\ queued' = queued
      BY <1>5 DEF StageDone
    <2>2. Commands(next) \in SUBSET (User \cup Role)
      <3>1. /\ DOMAIN acl.roles \subseteq Role /\ DOMAIN acl.users \subseteq User
            /\ DOMAIN status.acl.users \subseteq User /\ "admin" \in User
        BY PassTyped, AclFields, ConstantsAssumption DEF Sound
      <3> HIDE DEF next
      <3> QED BY <1>3, <3>1 DEF Commands
    <2>3. read \in Secrets
      BY PassTyped DEF Sound, TypeOK
    <2>4. pass \in Passes /\ next \in Stages
      BY <1>3 DEF Sound, TypeOK, Stages
    <2> HIDE DEF next, read
    <2>5. /\ pass' \in Passes /\ pass'.spec = pass.spec /\ pass'.ret = pass.ret /\ pass'.cur = pass.cur
          /\ pass'.at = next /\ pass'.todo = Commands(next) /\ pass'.read = read
      BY <2>1, <2>2, <2>3, <2>4 DEF Passes
    <2>6. (next = "dropUsers" => read = secrets) /\ (next # "dropUsers" => read = pass.read)
      BY DEF read
    <2> QED BY <1>1, <1>2, <1>5, <2>1, <2>5, <2>6 DEF Advances
  <1> QED BY <1>4, <1>5

\* What a command does to the pass.
LEMMA CallSteps ==
    ASSUME Sound, NEW stage, NEW x \in User \cup Role, Runs(stage, x), Continue(x) \/ Done(x),
           UNCHANGED <<frame, cause, rotated>>, server' \in Servers
    PROVE  Calls(stage, x) /\ (Done(x) => pass'.cur = {}) /\ (Continue(x) => pass'.cur = {x})
  <1>1. Outer /\ Placed /\ status' = status /\ queued' = queued
    BY DEF frame, outside, Outer, Placed, Continue, Done
  <1>2. pass \in Passes
    BY DEF Sound, TypeOK
  <1>3. ASSUME NEW cur \in {{}, {x}}, pass' = [pass EXCEPT !.todo = @ \ {x}, !.cur = cur]
        PROVE  SamePass /\ pass'.at = pass.at /\ pass'.todo = pass.todo \ {x} /\ pass'.cur = cur
    <2>1. cur \in SUBSET (User \cup Role)
      OBVIOUS
    <2> QED BY <1>2, <1>3, <2>1 DEF Passes, SamePass
  <1>4. (Done(x) => pass'.cur = {}) /\ (Continue(x) => pass'.cur = {x})
        /\ SamePass /\ pass'.at = pass.at /\ pass'.todo = pass.todo \ {x}
    BY <1>3 DEF Continue, Done
  <1> QED BY <1>1, <1>4 DEF Calls, Runs

\* A failed cluster answers no command.
LEMMA FailedQuits ==
    ASSUME Retry, UNCHANGED <<frame, history>>, server' = server, pass.at \in AclStages, failed
    PROVE  Quits
  <1>1. Outer /\ Kept /\ Placed
    BY DEF frame, history, outside, Outer, Kept, Placed
  <1> QED BY <1>1, RetryQuits DEF AclStages

\* The commands for roles.
LEMMA RoleSteps ==
    ASSUME Sound, NEW r \in Role, aerospikeRoleDrop(r) \/ createRole(r) \/ updateRole(r)
    PROVE  Quits \/ DropsRole(r) \/ SetsRole(r)
  <1>0. /\ server \in Servers /\ server.roles \in Maps(Role, RoleSpecs)
        /\ unrecorded \in [users : SUBSET User, roles : SUBSET Role]
        /\ status.acl \in AccessControls /\ acl \in AccessControls
    BY ServerFields, PassTyped DEF Sound, TypeOK
  <1>1. ASSUME NEW roles \in Maps(Role, RoleSpecs), server' = [server EXCEPT !.roles = roles]
        PROVE  server' \in Servers /\ server'.roles = roles /\ server'.users = server.users
    BY <1>0, <1>1 DEF Servers
  <1>2. CASE aerospikeRoleDrop(r)
    <2>1. Runs("dropRoles", r) /\ UNCHANGED <<frame, history>>
      BY <1>2 DEF aerospikeRoleDrop
    <2>2. CASE failed
      BY <1>2, <2>1, <2>2, FailedQuits DEF aerospikeRoleDrop, Runs, AclStages
    <2>3. CASE ~failed
      <3>1. server' = [server EXCEPT !.roles = Without(server.roles, r)] /\ Done(r)
        BY <1>2, <2>3 DEF aerospikeRoleDrop
      <3>0. /\ Without(server.roles, r) \in Maps(Role, RoleSpecs)
            /\ DOMAIN Without(server.roles, r) = DOMAIN server.roles \ {r}
        BY <1>0, MapsWithout DEF Without, Restrict
      <3>2. server' \in Servers /\ server'.roles = Without(server.roles, r) /\ server'.users = server.users
        BY <1>1, <3>0, <3>1
      <3>3. Calls("dropRoles", r) /\ pass'.cur = {}
        BY <2>1, <3>1, <3>2, CallSteps DEF history
      <3>4. DOMAIN server'.roles = DOMAIN server.roles \ {r}
        BY <3>0, <3>2
      <3> QED BY <2>1, <3>2, <3>3, <3>4 DEF DropsRole, history
    <2> QED BY <2>2, <2>3
  <1>3. CASE createRole(r)
    <2>1. Runs("roles", r) /\ r \notin DOMAIN server.roles /\ UNCHANGED <<frame, cause, rotated, turned>>
      BY <1>3 DEF createRole
    <2>2. CASE failed
      BY <1>3, <2>1, <2>2, FailedQuits DEF createRole, Runs, AclStages, history
    <2>3. CASE ~failed
      <3>1. /\ server' = [server EXCEPT !.roles = With(server.roles, r, acl.roles[r])] /\ Done(r)
            /\ unrecorded' = [unrecorded EXCEPT !.roles = @ \cup ({r} \ DOMAIN status.acl.roles)]
        BY <1>3, <2>3 DEF createRole
      <3>2. r \in DOMAIN acl.roles
        BY <2>1 DEF Sound, PassInv, Runs
      <3>3. acl.roles[r] \in RoleSpecs
        BY <1>0, <3>2, AclFields
      <3> DEFINE roles == With(server.roles, r, acl.roles[r])
      <3>0. /\ roles \in Maps(Role, RoleSpecs)
            /\ DOMAIN roles = DOMAIN server.roles \cup {r} /\ roles[r] = acl.roles[r]
            /\ \A x \in DOMAIN server.roles \ {r} : roles[x] = server.roles[x]
        <4>1. server.roles \in [DOMAIN server.roles -> RoleSpecs] /\ DOMAIN server.roles \cup {r} \in SUBSET Role
          BY <1>0, MapsElim
        <4>2. roles \in [DOMAIN server.roles \cup {r} -> RoleSpecs]
          BY <3>3, <4>1 DEF With
        <4>3. roles \in Maps(Role, RoleSpecs)
          BY <4>1, <4>2, MapsIntro
        <4> QED BY <4>1, <4>2, <4>3 DEF With
      <3> HIDE DEF roles
      <3>4. server' \in Servers /\ server'.roles = roles /\ server'.users = server.users
        BY <1>1, <3>0, <3>1 DEF roles
      <3>5. Calls("roles", r)
        BY <2>1, <3>1, <3>4, CallSteps
      <3>6. /\ DOMAIN server'.roles = DOMAIN server.roles \cup {r} /\ server'.roles[r] = acl.roles[r]
            /\ \A x \in DOMAIN server.roles \ {r} : server'.roles[x] = server.roles[x]
        BY <3>0, <3>4
      <3>7. /\ unrecorded' \in [users : SUBSET User, roles : SUBSET Role]
            /\ unrecorded'.users = unrecorded.users
            /\ unrecorded'.roles = unrecorded.roles \cup ({r} \ DOMAIN status.acl.roles)
        BY <1>0, <3>1
      <3> QED BY <2>1, <3>4, <3>5, <3>6, <3>7 DEF SetsRole
    <2> QED BY <2>2, <2>3
  <1>4. CASE updateRole(r)
    <2> DEFINE now == server.roles[r]
               want == acl.roles[r]
    <2>1. Runs("roles", r) /\ r \in DOMAIN server.roles /\ UNCHANGED <<frame, history>>
      BY <1>4 DEF updateRole
    <2>2. r \in DOMAIN acl.roles
      BY <2>1 DEF Sound, PassInv, Runs
    <2>3. now \in RoleSpecs /\ want \in RoleSpecs
      BY SMT, <1>0, <2>1, <2>2, AclFields, MapsElim
    <2>4. UpdatedRole(now, want) \in RoleSpecs /\ (UpdatedRole(now, want) = now => now = want)
      <3> HIDE DEF now, want
      <3>1. CASE ~(now.privileges \subseteq want.privileges)
        <4>1. UpdatedRole(now, want) = [now EXCEPT !.privileges = @ \cap want.privileges]
          BY <3>1 DEF UpdatedRole
        <4> QED BY <2>3, <3>1, <4>1 DEF RoleSpecs
      <3>2. CASE now.privileges \subseteq want.privileges /\ now.privileges # want.privileges
        <4>1. UpdatedRole(now, want) = [now EXCEPT !.privileges = want.privileges]
          BY <3>2 DEF UpdatedRole
        <4> QED BY <2>3, <3>2, <4>1 DEF RoleSpecs
      <3>3. CASE now.privileges = want.privileges
        BY <2>3, <3>3 DEF UpdatedRole
      <3> QED BY <3>1, <3>2, <3>3
    <2>5. CASE failed
      BY <1>4, <2>1, <2>5, FailedQuits DEF updateRole, Runs, AclStages
    <2>6. CASE ~failed /\ UpdatedRole(now, want) = now
      <3>1. Done(r) /\ server' = server
        BY <1>4, <2>6 DEF updateRole
      <3>2. Calls("roles", r)
        BY <1>0, <2>1, <3>1, CallSteps DEF history
      <3>3. server.roles[r] = acl.roles[r]
        BY <2>4, <2>6
      <3> QED BY <1>0, <2>1, <3>1, <3>2, <3>3 DEF SetsRole, history
    <2>7. CASE ~failed /\ UpdatedRole(now, want) # now
      <3>1. server' = [server EXCEPT !.roles[r] = UpdatedRole(now, want)] /\ Continue(r)
        BY <1>4, <2>7 DEF updateRole
      <3> DEFINE roles == [server.roles EXCEPT ![r] = UpdatedRole(now, want)]
      <3>2. /\ roles \in Maps(Role, RoleSpecs) /\ DOMAIN roles = DOMAIN server.roles
            /\ \A x \in DOMAIN server.roles \ {r} : roles[x] = server.roles[x]
        BY SMT, <1>0, <2>1, <2>4, MapsUpdate
      <3>3. server' = [server EXCEPT !.roles = roles]
        BY <3>1
      <3> HIDE DEF roles
      <3>4. server' \in Servers /\ server'.roles = roles /\ server'.users = server.users
        BY <1>1, <3>2, <3>3
      <3>5. Calls("roles", r) /\ pass'.cur = {r}
        BY <2>1, <3>1, <3>4, CallSteps DEF history
      <3>6. DOMAIN server'.roles = DOMAIN server.roles \cup {r}
        BY <2>1, <3>2, <3>4
      <3> QED BY <1>0, <2>1, <3>2, <3>4, <3>5, <3>6 DEF SetsRole, history
    <2> QED BY <2>5, <2>6, <2>7
  <1> QED BY <1>2, <1>3, <1>4

\* The user after a call of updateUser.
LEMMA UserUpdated ==
    ASSUME NEW now \in ServerUsers, NEW password \in Passwords \cup {"unset"},
           NEW roles \in SUBSET (Role \cup PredefinedRoles)
    PROVE  LET then == UpdatedUser(now, password, roles)
           IN  /\ then \in ServerUsers
               /\ \/ then.password = now.password
                  \/ password # "unset" /\ then.password = password
               /\ then.roles \in {now.roles, now.roles \cap roles, roles}
               /\ then = now => now.roles = roles /\ password \in {"unset", now.password}
  <1> DEFINE then == UpdatedUser(now, password, roles)
  <1>0. now.password \in Passwords /\ now.roles \in SUBSET (Role \cup PredefinedRoles)
    BY DEF ServerUsers
  <1>1. CASE password \notin {"unset", now.password}
    <2>1. then = [now EXCEPT !.password = password]
      BY <1>1 DEF UpdatedUser
    <2> HIDE DEF then
    <2>2. then \in ServerUsers /\ then.password = password /\ then.roles = now.roles
      BY <1>1, <2>1 DEF ServerUsers
    <2> QED BY <1>1, <2>2 DEF then
  <1>2. CASE password \in {"unset", now.password} /\ ~(now.roles \subseteq roles)
    <2>1. then = [now EXCEPT !.roles = @ \cap roles]
      BY <1>2 DEF UpdatedUser
    <2> HIDE DEF then
    <2>2. then \in ServerUsers /\ then.password = now.password /\ then.roles = now.roles \cap roles
      BY <1>0, <2>1 DEF ServerUsers
    <2> QED BY <1>2, <2>2 DEF then
  <1>3. CASE password \in {"unset", now.password} /\ now.roles \subseteq roles
    <2>1. then = [now EXCEPT !.roles = roles]
      BY <1>3 DEF UpdatedUser
    <2> HIDE DEF then
    <2>2. then \in ServerUsers /\ then.password = now.password /\ then.roles = roles
      BY <1>0, <2>1 DEF ServerUsers
    <2> QED BY <1>3, <2>2 DEF then
  <1> QED BY <1>1, <1>2, <1>3

\* The commands for users.  A user that is set has roles the servers know, so
\* that only a failed cluster stops the command for admin.
LEMMA UserSteps ==
    ASSUME Sound, NEW u \in User, aerospikeUserDrop(u) \/ createUser(u) \/ updateUser(u)
    PROVE  Quits \/ DropsUser(u) \/ SetsUser(u)
  <1>0. /\ server \in Servers /\ server.users \in Maps(User, ServerUsers) /\ "admin" \in DOMAIN server.users
        /\ unrecorded \in [users : SUBSET User, roles : SUBSET Role]
        /\ status.acl \in AccessControls /\ acl \in AccessControls
    BY ServerFields, PassTyped DEF Sound, TypeOK
  <1>1. ASSUME NEW users \in Maps(User, ServerUsers), server' = [server EXCEPT !.users = users],
               "admin" \in DOMAIN users
        PROVE  server' \in Servers /\ server'.users = users /\ server'.roles = server.roles
    BY <1>0, <1>1 DEF Servers
  <1>2. CASE aerospikeUserDrop(u)
    <2>1. Runs("dropUsers", u) /\ UNCHANGED <<frame, history>>
      BY <1>2 DEF aerospikeUserDrop
    <2>2. CASE failed
      BY <1>2, <2>1, <2>2, FailedQuits DEF aerospikeUserDrop, Runs, AclStages
    <2>3. CASE ~failed
      <3> DEFINE users == Without(server.users, u)
      <3>1. server' = [server EXCEPT !.users = users] /\ Done(u)
        BY <1>2, <2>3 DEF aerospikeUserDrop
      <3>2. /\ users \in Maps(User, ServerUsers) /\ DOMAIN users = DOMAIN server.users \ {u}
            /\ \A x \in DOMAIN server.users \ {u} : users[x] = server.users[x]
        BY <1>0, MapsWithout DEF Without, Restrict
      <3> HIDE DEF users
      <3>3. u # "admin"
        <4>1. pass.at = "dropUsers" /\ pass.cur = {} /\ u \in pass.todo
          BY <2>1 DEF Sound, PassInv, Runs
        <4>2. u \notin DOMAIN acl.users
          BY <4>1 DEF Sound, PassInv
        <4> QED BY <4>1, <4>2, AclAdmitted DEF Sound, InAcl, AclStages
      <3>4. server' \in Servers /\ server'.users = users /\ server'.roles = server.roles
        BY <1>0, <1>1, <3>1, <3>2, <3>3
      <3>5. Calls("dropUsers", u) /\ pass'.cur = {}
        BY <2>1, <3>1, <3>4, CallSteps DEF history
      <3> QED BY <2>1, <3>2, <3>4, <3>5 DEF DropsUser, history
    <2> QED BY <2>2, <2>3
  <1>3. CASE createUser(u) \/ updateUser(u)
    <2>1. Runs("users", u) \/ Runs("admin", u)
      BY <1>3 DEF createUser, updateUser
    <2>2. InUsers /\ InAcl /\ pass.at \in {"users", "admin"}
      BY <2>1 DEF Runs, InUsers, UserStages, InAcl, AclStages
    <2>3. u \in DOMAIN acl.users /\ (pass.at = "admin" => u = "admin")
      BY <2>1, <2>2, AclAdmitted DEF Sound, PassInv, Runs
    <2> DEFINE roles == acl.users[u].roles
    <2>4. /\ UserPassword(u) \in Passwords \cup {"unset"} /\ roles \subseteq KnownRoles
          /\ roles \in SUBSET (Role \cup PredefinedRoles)
      BY <1>0, <2>2, <2>3, PasswordTyped, RolesKnown, AclFields DEF UserSpecs
    <2> HIDE DEF roles
    <2>5. CASE Retry /\ server' = server /\ UNCHANGED <<frame, history>> /\ (pass.at = "admin" => failed)
      <3>1. Outer /\ Kept /\ Placed
        BY <2>5 DEF frame, history, outside, Outer, Kept, Placed
      <3> QED BY <2>2, <2>5, <3>1, RetryQuits
    <2>6. CASE createUser(u)
      <3>1. u \notin DOMAIN server.users /\ UNCHANGED <<frame, cause, rotated>>
        BY <2>6 DEF createUser
      <3>2. u # "admin"
        BY <1>0, <3>1
      <3>3. CASE failed \/ UserPassword(u) = "unset" \/ ~(acl.users[u].roles \subseteq KnownRoles)
        <4>1. Retry /\ server' = server /\ UNCHANGED <<frame, history>>
          BY <2>6, <3>1, <3>3 DEF createUser, history
        <4> QED BY <2>3, <2>5, <3>2, <4>1
      <3>4. CASE ~(failed \/ UserPassword(u) = "unset" \/ ~(acl.users[u].roles \subseteq KnownRoles))
        <4> DEFINE new == [password |-> UserPassword(u), roles |-> roles]
                   users == With(server.users, u, new)
        <4>1. /\ server' = [server EXCEPT !.users = users] /\ Done(u) /\ turned' = Turned(u)
              /\ unrecorded' = [unrecorded EXCEPT !.users = @ \cup ({u} \ DOMAIN status.acl.users)]
          BY <2>6, <3>4 DEF createUser, roles
        <4>2. new \in ServerUsers /\ new.password = UserPassword(u) /\ new.roles = roles
          BY <2>4, <3>4 DEF ServerUsers
        <4> HIDE DEF new
        <4>3. /\ users \in Maps(User, ServerUsers) /\ DOMAIN users = DOMAIN server.users \cup {u}
              /\ users[u] = new /\ \A x \in DOMAIN server.users \ {u} : users[x] = server.users[x]
          <5>1. /\ server.users \in [DOMAIN server.users -> ServerUsers]
                /\ DOMAIN server.users \cup {u} \in SUBSET User
            BY <1>0, MapsElim
          <5>2. users \in [DOMAIN server.users \cup {u} -> ServerUsers]
            BY <4>2, <5>1 DEF With
          <5>3. users \in Maps(User, ServerUsers)
            BY <5>1, <5>2, MapsIntro
          <5> QED BY <5>1, <5>2, <5>3 DEF With
        <4> HIDE DEF users
        <4>4. server' \in Servers /\ server'.users = users /\ server'.roles = server.roles
          BY <1>0, <1>1, <4>1, <4>3
        <4>5. (Calls("users", u) \/ Calls("admin", u)) /\ pass'.cur = {}
          BY <2>1, <3>1, <4>1, <4>4, CallSteps
        <4>6. /\ unrecorded' \in [users : SUBSET User, roles : SUBSET Role]
              /\ unrecorded'.roles = unrecorded.roles
              /\ unrecorded'.users = unrecorded.users
                    \cup ((DOMAIN server'.users \ DOMAIN server.users) \ DOMAIN status.acl.users)
          BY <1>0, <3>1, <4>1, <4>3, <4>4
        <4> QED BY <3>4, <4>1, <4>2, <4>3, <4>4, <4>5, <4>6 DEF SetsUser, roles
      <3> QED BY <3>3, <3>4
    <2>7. CASE updateUser(u)
      <3> DEFINE now == server.users[u]
                 then == UpdatedUser(now, UserPassword(u), roles)
      <3>1. u \in DOMAIN server.users /\ UNCHANGED <<frame, cause, rotated, unrecorded>>
        BY <2>7 DEF updateUser
      <3>2. now \in ServerUsers
        BY SMT, <1>0, <3>1, MapsElim
      <3> HIDE DEF now
      <3>3. /\ then \in ServerUsers
            /\ \/ then.password = now.password
               \/ UserPassword(u) # "unset" /\ then.password = UserPassword(u)
            /\ then.roles \in {now.roles, now.roles \cap roles, roles}
            /\ then = now => now.roles = roles /\ UserPassword(u) \in {"unset", now.password}
        BY <2>4, <3>2, UserUpdated
      <3>4. then.roles \subseteq now.roles \cup KnownRoles
        BY <2>4, <3>3
      <3>5. IF failed THEN Retry /\ UNCHANGED <<server, turned>>
            ELSE IF then = now THEN Done(u) /\ UNCHANGED <<server, turned>>
            ELSE server' = [server EXCEPT !.users[u] = then] /\ turned' = Turned(u) /\ Continue(u)
        BY <2>7, <3>4 DEF updateUser, now, roles
      <3> HIDE DEF then
      <3>6. CASE failed
        BY <2>5, <3>1, <3>5, <3>6 DEF history
      <3>7. CASE ~failed /\ then = now
        <4>1. (Calls("users", u) \/ Calls("admin", u))
          BY <1>0, <2>1, <3>1, <3>5, <3>7, CallSteps
        <4> QED BY <1>0, <3>1, <3>3, <3>5, <3>7, <4>1 DEF SetsUser, now, roles
      <3>8. CASE ~failed /\ then # now
        <4> DEFINE users == [server.users EXCEPT ![u] = then]
        <4>1. /\ users \in Maps(User, ServerUsers) /\ DOMAIN users = DOMAIN server.users /\ users[u] = then
              /\ \A x \in DOMAIN server.users \ {u} : users[x] = server.users[x]
          BY <1>0, <3>1, <3>3, MapsUpdate
        <4>2. server' = [server EXCEPT !.users = users] /\ Continue(u) /\ turned' = Turned(u)
          BY <3>5, <3>8
        <4> HIDE DEF users
        <4>3. server' \in Servers /\ server'.users = users /\ server'.roles = server.roles
          BY <1>0, <1>1, <4>1, <4>2
        <4>4. (Calls("users", u) \/ Calls("admin", u)) /\ pass'.cur = {u}
          BY <2>1, <3>1, <4>2, <4>3, CallSteps
        <4>5. DOMAIN server'.users \ DOMAIN server.users = {} /\ DOMAIN server'.users = DOMAIN server.users \cup {u}
          BY <3>1, <4>1, <4>3
        <4> QED BY <1>0, <3>1, <3>3, <4>1, <4>2, <4>3, <4>4, <4>5 DEF SetsUser, now, roles
      <3> QED BY <3>6, <3>7, <3>8
    <2> QED BY <1>3, <2>6, <2>7
  <1> QED BY <1>2, <1>3

\* Every step is of one of the kinds.
LEMMA NextSteps ==
    ASSUME Sound, [Next]_vars
    PROVE  Steps
  <1>1. ASSUME aclStep PROVE Steps
    BY <1>1, StageSteps, RoleSteps, UserSteps DEF aclStep, Steps
  <1>2. ASSUME reconcile PROVE Steps
    BY <1>1, <1>2, RackSteps DEF reconcile, Steps
  <1> QED BY <1>2 DEF Next, Steps

-----------------------------------------------------------------------------
(* Types *)

\* Every step keeps the types.
LEMMA NextType ==
    ASSUME Sound, Steps
    PROVE  TypeOK'
  <1>0. /\ spec \in Specs /\ status \in Specs /\ nodes \in [Node -> Configs]
        /\ failed \in BOOLEAN /\ queued \in BOOLEAN /\ server \in Servers /\ secrets \in Secrets
        /\ pass \in Passes /\ env \in Environments
        /\ cause \subseteq {"hasty", "cut", "torn"} /\ rotated \subseteq Secret
        /\ unrecorded \in [users : SUBSET User, roles : SUBSET Role] /\ turned \subseteq User
    BY DEF Sound, TypeOK
  <1>1. CASE Edit
    <2> DEFINE new == Head(env.edits)
    <2>1. env.edits \in Seq(Specs) /\ env.edits # <<>>
      BY <1>0, <1>1 DEF Edit, Environments
    <2>2. new \in Specs /\ Tail(env.edits) \in Seq(Specs)
      BY SMT, <2>1
    <2>3. env' \in Environments
      BY <1>0, <1>1, <2>2 DEF Edit, Environments
    <2>4. spec' \in {spec, new} /\ queued' \in {queued, TRUE} /\ cause' \in {cause, cause \cup {"hasty"}}
      BY <1>1 DEF Edit
    <2>5. UNCHANGED <<status, nodes, failed, server, secrets, pass, rotated, unrecorded, turned>>
      BY <1>1 DEF Edit
    <2> HIDE DEF new
    <2> QED BY <1>0, <2>2, <2>3, <2>4, <2>5 DEF TypeOK
  <1>2. CASE WriteSecret
    <2> DEFINE w == Head(env.writes)
    <2>1. env.writes \in Seq(Writes) /\ env.writes # <<>>
      BY <1>0, <1>2 DEF WriteSecret, Environments
    <2>2. w \in Writes /\ Tail(env.writes) \in Seq(Writes)
      BY SMT, <2>1
    <2>3. env' \in Environments
      BY <1>0, <1>2, <2>2 DEF WriteSecret, Environments
    <2>4. /\ secrets' = [secrets EXCEPT ![w.secret] = w.password]
          /\ rotated' \in {rotated, rotated \cup {w.secret}}
          /\ UNCHANGED <<spec, status, nodes, failed, server, pass, queued, cause, unrecorded, turned>>
      BY <1>2 DEF WriteSecret
    <2> HIDE DEF w
    <2>5. w.secret \in Secret /\ w.password \in Password \cup {Missing}
      BY <2>2 DEF Writes
    <2>6. secrets' \in Secrets /\ rotated' \subseteq Secret
      BY <1>0, <2>4, <2>5 DEF Secrets
    <2> QED BY <1>0, <2>3, <2>4, <2>6 DEF TypeOK
  <1>3. CASE PodsFail
    <2>1. env' \in Environments
      BY SMT, <1>0, <1>3 DEF PodsFail, Environments
    <2> QED BY <1>0, <1>3, <2>1 DEF PodsFail, TypeOK
  <1>4. CASE Interrupt
    <2>1. env' \in Environments
      BY SMT, <1>0, <1>4 DEF Interrupt, Environments
    <2>2. cause' \subseteq {"hasty", "cut", "torn"}
      BY <1>0, <1>4 DEF Interrupt
    <2>3. pass' = Idle /\ queued' = TRUE
          /\ UNCHANGED <<spec, status, nodes, failed, server, secrets, rotated, unrecorded, turned>>
      BY <1>4 DEF Interrupt, Retry
    <2> QED BY <1>0, <2>1, <2>2, <2>3, Initials DEF TypeOK
  <1>5. CASE Begin
    <2>1. pass' \in Passes
      <3>1. pass' = [Idle EXCEPT !.at = "start", !.spec = spec]
        BY <1>5 DEF Begin
      <3>2. "start" \in Stages /\ Idle \in Passes
        BY Initials DEF Stages
      <3> QED BY <1>0, <3>1, <3>2 DEF Passes
    <2> QED BY <1>0, <1>5, <2>1 DEF Begin, TypeOK, history, outside
  <1>6. CASE recoverFailedCreate
    <2>1. GoTo("clear") /\ "clear" \in Stages
      BY <1>6 DEF recoverFailedCreate, Stages
    <2>2. pass' \in Passes /\ queued' = queued
      BY <2>1, GoesTo DEF Sound, SamePass
    <2>3. NoNames \in [users : SUBSET User, roles : SUBSET Role]
      BY DEF NoNames
    <2>4. nodes' \in [Node -> Configs]
      BY <1>6, Initials DEF recoverFailedCreate
    <2> QED BY <1>0, <1>6, <2>2, <2>3, <2>4, Initials DEF recoverFailedCreate, TypeOK, outside
  <1>7. CASE clearAerospikeAccessControlStatus
    <2>1. status' \in Specs
      BY <1>0, <1>7, Initials DEF clearAerospikeAccessControlStatus, Specs
    <2> QED BY <1>0, <1>7, <2>1, Initials
            DEF clearAerospikeAccessControlStatus, Retry, TypeOK, history, outside
  <1>8. CASE Quits
    <2>1. nodes' \in [Node -> Configs]
      BY <1>0, <1>8, PassTyped DEF Quits, Sound
    <2> QED BY <1>0, <1>8, <2>1, Initials DEF Quits, Outer, Kept, TypeOK
  <1>9. CASE Walks
    <2>1. nodes' \in [Node -> Configs]
      BY <1>0, <1>9, PassTyped DEF Walks, Sound
    <2> QED BY <1>0, <1>9, <2>1 DEF Walks, SamePass, Outer, Kept, TypeOK
  <1>10. CASE Enters \/ Advances
    BY <1>0, <1>10 DEF Enters, Advances, Outer, Kept, Placed, TypeOK
  <1>11. CASE \E r \in Role : DropsRole(r) \/ SetsRole(r)
    <2>1. /\ Outer /\ Placed /\ status' = status /\ queued' = queued /\ turned' = turned
          /\ pass' \in Passes /\ server' \in Servers
          /\ unrecorded' = unrecorded \/ unrecorded' \in [users : SUBSET User, roles : SUBSET Role]
      BY <1>11 DEF DropsRole, SetsRole, Calls, SamePass
    <2> QED BY <1>0, <2>1 DEF Outer, Placed, TypeOK
  <1>12. CASE \E u \in User : DropsUser(u) \/ SetsUser(u)
    <2>1. PICK u \in User : DropsUser(u) \/ SetsUser(u)
      BY <1>12
    <2>2. /\ Outer /\ Placed /\ status' = status /\ queued' = queued /\ turned' \in {turned, Turned(u)}
          /\ pass' \in Passes /\ server' \in Servers
          /\ unrecorded' = unrecorded \/ unrecorded' \in [users : SUBSET User, roles : SUBSET Role]
      BY <2>1 DEF DropsUser, SetsUser, Calls, SamePass
    <2>3. Turned(u) \subseteq User
      BY <1>0 DEF Turned
    <2> QED BY <1>0, <2>2, <2>3 DEF Outer, Placed, TypeOK
  <1>13. CASE updateAccessControlStatus
    <2>1. status' \in Specs
      BY <1>0, <1>13, PassTyped DEF updateAccessControlStatus, Specs, Sound
    <2>2. InAcl
      BY <1>13 DEF updateAccessControlStatus, InAcl, AclStages
    <2>3. GoTo(pass.ret) /\ pass.ret \in Stages
      BY <1>13, <2>2 DEF updateAccessControlStatus, Sound, PassInv, Stages
    <2>4. pass' \in Passes /\ queued' = queued
      BY <2>3, GoesTo DEF Sound, SamePass
    <2>5. Unreported \in [users : SUBSET User, roles : SUBSET Role]
      BY <1>0 DEF Unreported
    <2> QED BY <1>0, <1>13, <2>1, <2>4, <2>5 DEF updateAccessControlStatus, TypeOK, outside
  <1>14. CASE updateStatus
    <2>1. Unreported \in [users : SUBSET User, roles : SUBSET Role]
      BY <1>0 DEF Unreported
    <2> QED BY <1>0, <1>14, <2>1, Initials, PassTyped DEF updateStatus, TypeOK, outside, Sound
  <1>15. CASE UNCHANGED vars
    BY <1>0, <1>15 DEF vars, TypeOK
  <1> QED BY <1>1, <1>2, <1>3, <1>4, <1>5, <1>6, <1>7, <1>8, <1>9, <1>10, <1>11, <1>12, <1>13, <1>14,
             <1>15 DEF Steps

-----------------------------------------------------------------------------
(* What the webhook admits *)

\* The image does not change.
LEMMA FederalFixed ==
    ASSUME TypeOK, Steps
    PROVE  env'.federal = env.federal
  <1>0. env \in Environments
    BY DEF TypeOK
  <1>1. CASE Edit \/ WriteSecret \/ PodsFail \/ Interrupt
    BY <1>0, <1>1 DEF Edit, WriteSecret, PodsFail, Interrupt, Environments
  <1>2. CASE ~(Edit \/ WriteSecret \/ PodsFail \/ Interrupt)
    <2>1. env' = env
      BY <1>2 DEF Steps, Begin, recoverFailedCreate, clearAerospikeAccessControlStatus, Quits, Walks, Enters,
                  Advances, DropsRole, SetsRole, DropsUser, SetsUser, Calls, Outer, updateAccessControlStatus,
                  updateStatus, outside, vars
    <2> QED BY <2>1
  <1> QED BY <1>1, <1>2

\* An edit the webhook admits leads on from the spec and is valid itself.
LEMMA Admitted ==
    ASSUME TypeOK, ValidInv, Edit, spec' # spec
    PROVE  /\ spec' = Head(env.edits) /\ spec' \in Specs /\ queued' = TRUE
           /\ ValidateUpdate(spec, spec', env.federal)
           /\ cause' = IF hasty(spec') THEN cause \cup {"hasty"} ELSE cause
           /\ ValidAcl(spec'.acl) /\ (spec'.security => spec'.acl # NoAcl) /\ validateClientCertSpec(spec')
           /\ spec'.net # {} /\ Leads(spec.acl, spec'.acl)
           /\ spec'.acl # spec.acl => spec'.security
  <1> DEFINE new == Head(env.edits)
  <1>1. new # spec /\ ValidateUpdate(spec, new, env.federal) /\ spec' = new /\ queued' = TRUE
        /\ cause' = IF hasty(new) THEN cause \cup {"hasty"} ELSE cause
    BY DEF Edit
  <1>2. new \in Specs
    BY SMT DEF TypeOK, Environments, Edit
  <1> HIDE DEF new
  <1>3. new.acl \in AccessControls /\ spec.acl \in AccessControls
    BY <1>2, PassTyped DEF Specs
  <1>4. new.net # {} /\ validateClientCertSpec(new) /\ IsAerospikeAccessControlValid(new, env.federal)
        /\ validateAccessControlUpdate(spec, new)
    BY <1>1 DEF ValidateUpdate
  <1>5. new.acl # spec.acl => /\ new.acl # NoAcl /\ new.security /\ isUserSpecValid(new.acl, env.federal)
                              /\ validateUsersAuthModeUpdate(spec, new)
    BY <1>4 DEF validateAccessControlUpdate, IsAerospikeAccessControlValid
  <1>6. ValidAcl(spec.acl)
    BY DEF ValidInv, ValidSpec
  <1>7. ValidAcl(new.acl) /\ (new.security => new.acl # NoAcl)
    BY <1>4, <1>5, <1>6 DEF ValidAcl, IsAerospikeAccessControlValid
  <1>8. Leads(spec.acl, new.acl)
    <2> SUFFICES ASSUME spec.acl # NoAcl, new.acl # spec.acl
                 PROVE  Leads(spec.acl, new.acl)
      BY DEF Leads
    <2>1. "admin" \in DOMAIN spec.acl.users \cap DOMAIN new.acl.users
      BY <1>5, <1>6 DEF ValidAcl, isUserSpecValid
    <2>2. new.acl.users["admin"].mode \in {"Internal", "PKIOnly"}
      BY <1>3, <2>1, AclFields DEF UserSpecs
    <2> QED BY <1>5, <2>1, <2>2 DEF Leads, validateUsersAuthModeUpdate
  <1>9. ValidateUpdate(spec, spec', env.federal) /\ (hasty(spec') = hasty(new)) /\ ValidAcl(spec'.acl)
    BY <1>1, <1>7 DEF ValidateUpdate, validateTLSAndPKIOnlyUpdate, hasty, ValidAcl
  <1> QED BY <1>1, <1>2, <1>4, <1>5, <1>7, <1>8, <1>9 DEF new

\* Every step keeps what the webhook admitted.
LEMMA NextValid ==
    ASSUME Sound, Steps
    PROVE  ValidInv'
  <1> USE DEF Active
  <1>0. env'.federal = env.federal /\ TypeOK /\ ValidInv
    BY FederalFixed DEF Sound
  <1>1. /\ ValidSpec(spec) /\ spec.net # {}
        /\ ValidSpec(pass.spec) /\ (Active => pass.spec.net # {})
        /\ ValidAcl(status.acl)
        /\ status.net = {} => ~status.security
        /\ Leads(status.acl, spec.acl) /\ Leads(pass.spec.acl, spec.acl)
        /\ status.security => spec.acl # NoAcl
        /\ ~queued => IF Active THEN pass.spec = spec ELSE status = spec
    BY <1>0 DEF ValidInv
  <1>a. \A s : ValidSpec(s) =
            (ValidAcl(s.acl) /\ (s.security => s.acl # NoAcl) /\ validateClientCertSpec(s))
    BY DEF ValidSpec
  <1>b. /\ Idle.at = "idle" /\ Idle.spec = NoStatus /\ NoStatus.acl = NoAcl
        /\ ValidSpec(NoStatus) /\ \A a : Leads(NoAcl, a)
    BY Initials DEF Idle, NoStatus, ValidSpec, ValidAcl, validateClientCertSpec, hasPKIOnlyUser, Leads
  <1>2. CASE Edit
    <2>1. UNCHANGED <<status, pass>>
      BY <1>2 DEF Edit
    <2>2. CASE spec' = spec
      BY <1>0, <1>1, <1>2, <2>1, <2>2 DEF Edit, ValidInv, ValidSpec, ValidAcl
    <2>3. CASE spec' # spec
      <3>1. /\ ValidAcl(spec'.acl) /\ (spec'.security => spec'.acl # NoAcl) /\ validateClientCertSpec(spec')
            /\ spec'.net # {} /\ Leads(spec.acl, spec'.acl) /\ queued' = TRUE
        BY <1>0, <1>2, <2>3, Admitted
      <3>2. Leads(status.acl, spec'.acl) /\ Leads(pass.spec.acl, spec'.acl)
            /\ (status.security => spec'.acl # NoAcl)
        BY <1>1, <3>1 DEF Leads
      <3> QED BY <1>0, <1>1, <2>1, <3>1, <3>2 DEF ValidInv, ValidSpec, ValidAcl
    <2> QED BY <2>2, <2>3
  <1>3. CASE UNCHANGED <<spec, status, queued>> /\ pass'.spec = pass.spec /\ pass'.at = pass.at
    BY <1>0, <1>1, <1>3 DEF ValidInv, ValidSpec, ValidAcl
  <1>4. CASE UNCHANGED <<spec, status>> /\ pass' = Idle /\ queued' = TRUE
    BY <1>0, <1>1, <1>4, <1>b DEF ValidInv, ValidSpec, ValidAcl
  <1>5. CASE UNCHANGED <<spec, status, queued>> /\ pass'.spec = pass.spec /\ pass.at # "idle" /\ pass'.at # "idle"
    BY <1>0, <1>1, <1>5 DEF ValidInv, ValidSpec, ValidAcl
  <1>6. CASE Begin
    <2>1. UNCHANGED <<spec, status>> /\ pass'.spec = spec /\ pass'.at = "start"
      BY <1>6 DEF Begin, outside, Idle
    <2> QED BY <1>0, <1>1, <2>1 DEF ValidInv, ValidSpec, ValidAcl, Leads
  <1>7. CASE clearAerospikeAccessControlStatus
    <2>1. /\ status'.acl = NoAcl /\ status'.net = status.net /\ status'.security = status.security
          /\ spec' = spec /\ pass' = Idle /\ queued' = TRUE
      BY <1>0, <1>7 DEF clearAerospikeAccessControlStatus, Retry, outside, TypeOK, Specs
    <2> QED BY <1>0, <1>1, <1>b, <2>1 DEF ValidInv, ValidSpec, ValidAcl
  <1>8. CASE updateAccessControlStatus
    <2>1. /\ status'.acl = pass.spec.acl /\ status'.net = status.net /\ status'.security = status.security
          /\ spec' = spec /\ pass.at = "record" /\ GoTo(pass.ret)
      BY <1>0, <1>8 DEF updateAccessControlStatus, acl, outside, TypeOK, Specs
    <2>2. pass.ret \in {"racks", "update"}
      BY <2>1 DEF Sound, PassInv, InAcl, AclStages
    <2>3. pass'.at # "idle" /\ pass'.spec = pass.spec /\ queued' = queued
      BY <1>0, <2>1, <2>2, GoesTo DEF SamePass, Stages
    <2> QED BY <1>0, <1>1, <2>1, <2>3 DEF ValidInv, ValidSpec, ValidAcl
  <1>9. CASE updateStatus
    <2>1. status' = pass.spec /\ spec' = spec /\ pass' = Idle /\ queued' = queued /\ pass.at = "update"
      BY <1>9 DEF updateStatus, outside
    <2> QED BY <1>0, <1>1, <1>b, <2>1 DEF ValidInv, ValidSpec, ValidAcl, Leads
  <1>10. CASE WriteSecret \/ PodsFail \/ UNCHANGED vars
    BY <1>3, <1>10 DEF WriteSecret, PodsFail, vars
  <1>11. CASE Interrupt \/ Quits
    BY <1>4, <1>11 DEF Interrupt, Retry, Quits, Outer, Kept
  <1>12. CASE recoverFailedCreate
    <2>1. GoTo("clear") /\ "clear" \in Stages /\ UNCHANGED <<spec, status>> /\ pass.at = "wipe"
      BY <1>12 DEF recoverFailedCreate, Stages, outside
    <2> QED BY <1>0, <1>5, <2>1, GoesTo DEF SamePass
  <1>13. CASE Walks \/ Enters \/ Advances
    BY <1>5, <1>13 DEF Walks, Enters, Advances, SamePass, Outer, Kept
  <1>14. CASE (\E r \in Role : DropsRole(r) \/ SetsRole(r)) \/ (\E u \in User : DropsUser(u) \/ SetsUser(u))
    BY <1>3, <1>14 DEF DropsRole, SetsRole, DropsUser, SetsUser, Calls, SamePass, Outer
  <1> QED BY <1>2, <1>6, <1>7, <1>8, <1>9, <1>10, <1>11, <1>12, <1>13, <1>14 DEF Steps


-----------------------------------------------------------------------------
(* The stages of a pass *)

\* What remains to be done is right after every step.
LEMMA NextPass ==
    ASSUME Sound, Steps
    PROVE  PassInv'
  <1> USE DEF InAcl, AclStages, Rolled, acl
  <1>0. /\ TypeOK /\ PassInv /\ pass \in Passes /\ status \in Specs
    BY DEF Sound, TypeOK
  <1>1. /\ InAcl => pass.spec.security /\ pass.ret \in {"racks", "update"}
        /\ pass.at \notin {"roles", "users", "admin"} => pass.cur = {}
        /\ pass.at \in {"wipe", "clear"} => status.net = {}
        /\ pass.at = "clear" => server = FreshServer /\ (\A n \in Node : nodes[n] = NoNode) /\ ~failed
        /\ Rolled => \A n \in Node : nodes[n] = ConfigOf(pass.spec)
    BY <1>0 DEF PassInv
  <1>b. Idle.at = "idle" /\ Idle.cur = {}
    BY DEF Idle
  <1>2. CASE pass' = Idle
    BY <1>2, <1>b DEF PassInv
  <1>3. CASE UNCHANGED <<pass, status, server, nodes>> /\ (failed' = failed \/ Created # {})
    <2>1. pass.at = "clear" => Created = {}
      BY SMT, <1>1 DEF Created, NoNode
    <2> QED BY SMT, <1>0, <1>3, <2>1 DEF PassInv
  <1>4. CASE Begin
    BY <1>4 DEF Begin, PassInv, Idle
  <1>5. CASE recoverFailedCreate
    <2>1. GoTo("clear") /\ "clear" \in Stages /\ status' = status /\ server' = FreshServer /\ failed' = FALSE
          /\ nodes' = [n \in Node |-> NoNode] /\ pass.at = "wipe"
      BY <1>5 DEF recoverFailedCreate, Stages
    <2>2. pass'.at = "clear" /\ pass'.cur = pass.cur
      BY <1>0, <2>1, GoesTo
    <2> QED BY <1>1, <2>1, <2>2 DEF PassInv
  <1>6. CASE Walks
    BY <1>1, <1>6 DEF Walks, PassInv, SamePass, Outer, Kept
  <1>7. CASE Enters
    <2>1. PredefinedRoles \cap DOMAIN acl.roles = {}
      BY PassTyped, AclFields, ConstantsAssumption DEF Sound, PredefinedRoles
    <2> QED BY <1>1, <1>7, <2>1 DEF Enters, PassInv, Outer, Kept, Placed
  <1>8. CASE Advances
    <2>1. /\ pass'.at = "roles" => pass'.todo = DOMAIN acl.roles
          /\ pass'.at = "dropUsers" => pass'.todo = DOMAIN status.acl.users \ DOMAIN acl.users
          /\ pass'.at = "users" => pass'.todo = DOMAIN acl.users \ {"admin"}
          /\ pass'.at = "admin" => pass'.todo = {"admin"}
      BY <1>8 DEF Advances, Commands
    <2>2. /\ pass'.at \in {"roles", "dropUsers", "users", "admin", "record"} /\ pass'.spec = pass.spec
          /\ pass'.ret = pass.ret /\ pass'.cur = {} /\ UNCHANGED <<status, server, nodes>> /\ InAcl
      BY <1>8 DEF Advances, Kept, Placed
    <2> QED BY <1>1, <2>1, <2>2 DEF PassInv
  <1>9. ASSUME NEW stage \in {"dropRoles", "roles", "dropUsers", "users", "admin"}, NEW x, Calls(stage, x),
               stage \in {"dropRoles", "dropUsers"} => pass'.cur = {}
        PROVE  PassInv'
    <2>1. /\ pass'.at = pass.at /\ pass.at = stage /\ pass'.spec = pass.spec /\ pass'.ret = pass.ret
          /\ pass'.todo \subseteq pass.todo /\ pass'.todo \cup pass'.cur \subseteq pass.todo \cup pass.cur
          /\ UNCHANGED <<status, nodes>>
      BY <1>9 DEF Calls, SamePass, Placed
    <2> QED BY <1>0, <1>1, <1>9, <2>1 DEF PassInv
  <1>10. CASE updateAccessControlStatus
    <2>1. /\ status'.net = status.net /\ UNCHANGED <<nodes, server, failed>> /\ pass.at = "record" /\ GoTo(pass.ret)
      BY <1>0, <1>10 DEF updateAccessControlStatus, Specs
    <2>2. pass.ret \in {"racks", "update"} /\ pass.ret \in Stages
      BY <1>1, <2>1 DEF Stages
    <2>3. pass'.at = pass.ret /\ pass'.spec = pass.spec /\ pass'.cur = {} /\ pass'.ret = pass.ret
      BY <1>0, <1>1, <2>1, <2>2, GoesTo DEF SamePass
    <2> QED BY <1>1, <2>1, <2>2, <2>3 DEF PassInv
  <1>11. CASE Edit \/ WriteSecret \/ PodsFail \/ UNCHANGED vars
    BY <1>3, <1>11 DEF Edit, WriteSecret, PodsFail, vars
  <1>12. CASE Interrupt \/ Quits \/ clearAerospikeAccessControlStatus \/ updateStatus
    BY <1>2, <1>12 DEF Interrupt, Retry, Quits, clearAerospikeAccessControlStatus, updateStatus
  <1>13. CASE (\E r \in Role : DropsRole(r) \/ SetsRole(r)) \/ (\E u \in User : DropsUser(u) \/ SetsUser(u))
    BY <1>9, <1>13 DEF DropsRole, SetsRole, DropsUser, SetsUser
  <1> QED BY <1>4, <1>5, <1>6, <1>7, <1>8, <1>10, <1>11, <1>12, <1>13 DEF Steps

\* The password a user is to be given depends on the status, the image and
\* what the pass works with.
LEMMA SamePasswords ==
    ASSUME status' = status, env'.federal = env.federal, pass'.spec = pass.spec, pass'.read = pass.read
    PROVE  \A u : UserPassword(u)' = UserPassword(u)
  BY DEF UserPassword, acl

\* The steps of the environment, which leave the pass, the status and the
\* servers alone; and those after which no command of the pass counts.
Aside == UNCHANGED <<pass, status, server>>
Uncounted == pass'.at \notin {"roles", "dropUsers", "users", "admin", "record", "update"}
             \/ (pass'.at = "update" /\ ~pass'.spec.security)

\* The steps by what they mean for the commands of the pass.
LEMMA CommandSteps ==
    ASSUME Sound, Steps
    PROVE  \/ Aside \/ Uncounted \/ Advances
           \/ \E r \in Role : SetsRole(r)
           \/ \E u \in User : DropsUser(u) \/ SetsUser(u)
           \/ /\ updateAccessControlStatus /\ pass.at = "record" /\ pass'.at = "update"
              /\ pass'.spec = pass.spec /\ pass'.read = pass.read /\ status'.acl = acl /\ server' = server
  <1>0. TypeOK /\ Idle.at = "idle"
    BY DEF Sound, Idle
  <1>1. CASE Edit \/ WriteSecret \/ PodsFail \/ UNCHANGED vars
    BY <1>1 DEF Edit, WriteSecret, PodsFail, vars, Aside
  <1>2. CASE Interrupt \/ Quits \/ clearAerospikeAccessControlStatus \/ updateStatus
    <2>1. pass' = Idle
      BY <1>2 DEF Interrupt, Retry, Quits, clearAerospikeAccessControlStatus, updateStatus
    <2> QED BY <1>0, <2>1 DEF Uncounted
  <1>3. CASE Begin
    BY <1>3 DEF Begin, Idle, Uncounted
  <1>4. CASE recoverFailedCreate
    <2>1. pass'.at = "clear"
      BY <1>0, <1>4, GoesTo DEF recoverFailedCreate, Stages
    <2> QED BY <2>1 DEF Uncounted
  <1>5. CASE Walks \/ Enters
    BY <1>5 DEF Walks, Enters, SamePass, Uncounted
  <1>6. CASE \E r \in Role : DropsRole(r)
    BY <1>6 DEF DropsRole, Calls, Uncounted
  <1>7. CASE updateAccessControlStatus
    <2>1. pass.at = "record" /\ GoTo(pass.ret) /\ server' = server
      BY <1>7 DEF updateAccessControlStatus
    <2>2. status'.acl = acl
      BY <1>0, <1>7 DEF updateAccessControlStatus, TypeOK, Specs
    <2>3. pass.ret \in {"racks", "update"} /\ pass.ret \in Stages
      BY <2>1 DEF Sound, PassInv, InAcl, AclStages, Stages
    <2>4. pass'.at = pass.ret /\ pass'.spec = pass.spec /\ pass'.read = pass.read
      BY <1>0, <2>1, <2>3, GoesTo DEF SamePass
    <2> QED BY <1>7, <2>1, <2>2, <2>3, <2>4 DEF Uncounted
  <1> QED BY <1>1, <1>2, <1>3, <1>4, <1>5, <1>6, <1>7 DEF Steps

\* What the commands have done stays true after every step.
LEMMA NextCommands ==
    ASSUME Sound, Steps
    PROVE  StageInv'
  <1> USE DEF InUsers, UserStages, Applied
  <1>0. TypeOK /\ PassInv /\ StageInv /\ env'.federal = env.federal
    BY FederalFixed DEF Sound
  <1>1. CASE Uncounted
    BY <1>1 DEF Uncounted, StageInv
  <1>2. CASE Aside
    <2>1. \A u : UserPassword(u)' = UserPassword(u)
      BY <1>0, <1>2, SamePasswords DEF Aside
    <2> QED BY <1>0, <1>2, <2>1 DEF Aside, StageInv, RoleDone, RolesGiven, UserDone, ToDrop, acl
  <1>3. CASE Advances
    <2>1. /\ UNCHANGED <<status, server>> /\ pass'.spec = pass.spec /\ pass'.cur = {}
          /\ pass.todo = {} /\ pass.cur = {} /\ acl' = acl
          /\ pass'.todo = Commands(pass'.at)
      BY <1>3 DEF Advances, Kept, acl
    <2>2. CASE pass'.at = "roles"
      <3>1. pass'.todo = DOMAIN acl.roles
        BY <2>1, <2>2 DEF Commands
      <3> QED BY <2>1, <2>2, <3>1 DEF StageInv
    <2>3. CASE pass'.at = "dropUsers"
      <3>1. pass'.todo = ToDrop /\ pass.at = "roles"
        BY <1>3, <2>1, <2>3 DEF Commands, ToDrop, Advances
      <3>2. \A r \in DOMAIN acl.roles : RoleDone(r)
        BY <1>0, <2>1, <3>1 DEF StageInv
      <3> QED BY <2>1, <2>3, <3>1, <3>2 DEF StageInv, RoleDone, ToDrop
    <2>4. CASE pass'.at = "users"
      <3>1. pass'.todo = DOMAIN acl.users \ {"admin"} /\ pass.at = "dropUsers"
        BY <1>3, <2>1, <2>4 DEF Commands, Advances
      <3>2. (\A r \in DOMAIN acl.roles : RoleDone(r)) /\ ToDrop \cap DOMAIN server.users = {}
        BY <1>0, <2>1, <3>1 DEF StageInv
      <3> QED BY <2>1, <2>4, <3>1, <3>2 DEF StageInv, RoleDone, ToDrop
    <2>5. CASE pass'.at \in {"admin", "record"}
      <3>1. /\ pass.at \in {"users", "admin"} /\ pass'.read = pass.read
            /\ pass'.at = "admin" => pass'.todo = {"admin"} /\ pass.at = "users"
            /\ pass'.at = "record" => pass.at = "admin"
        BY <1>3, <2>1, <2>5 DEF Commands, Advances
      <3>2. /\ (\A r \in DOMAIN acl.roles : RoleDone(r)) /\ ToDrop \cap DOMAIN server.users = {}
            /\ \A u \in DOMAIN acl.users \ {"admin"} : UserDone(u)
            /\ pass'.at = "record" => UserDone("admin")
        BY <1>0, <2>1, <2>5, <3>1 DEF StageInv
      <3>3. \A u : UserPassword(u)' = UserPassword(u)
        BY <1>0, <2>1, <3>1, SamePasswords
      <3> QED BY <2>1, <2>5, <3>1, <3>2, <3>3 DEF StageInv, RoleDone, RolesGiven, UserDone, ToDrop
    <2> QED BY <1>3, <2>2, <2>3, <2>4, <2>5 DEF Advances
  <1>4. ASSUME NEW r \in Role, SetsRole(r)
        PROVE  StageInv'
    <2>1. /\ pass.at = "roles" /\ pass'.at = "roles" /\ acl' = acl
          /\ pass'.todo = pass.todo \ {r} /\ pass.cur \in {{}, {r}} /\ pass'.cur \in {{}, {r}}
          /\ r \in DOMAIN server'.roles /\ DOMAIN server.roles \subseteq DOMAIN server'.roles
          /\ \A x \in DOMAIN server.roles \ {r} : server'.roles[x] = server.roles[x]
          /\ pass'.cur = {} => server'.roles[r] = acl.roles[r]
      BY <1>4 DEF SetsRole, Calls, SamePass, acl
    <2>2. ASSUME NEW x \in DOMAIN acl.roles, x \notin pass'.todo \cup pass'.cur
          PROVE  x \in DOMAIN server'.roles /\ server'.roles[x] = acl.roles[x]
      <3>1. CASE x = r
        BY <2>1, <2>2, <3>1
      <3>2. CASE x # r
        <4>1. RoleDone(x)
          BY <1>0, <2>1, <2>2, <3>2 DEF StageInv
        <4> QED BY <2>1, <3>2, <4>1 DEF RoleDone
      <3> QED BY <3>1, <3>2
    <2> QED BY <2>1, <2>2 DEF StageInv, RoleDone
  <1>5. ASSUME NEW u \in User, DropsUser(u)
        PROVE  StageInv'
    <2>1. /\ pass.at = "dropUsers" /\ pass'.at = "dropUsers" /\ acl' = acl /\ status' = status
          /\ pass'.todo = pass.todo \ {u} /\ server'.roles = server.roles
          /\ DOMAIN server'.users = DOMAIN server.users \ {u}
      BY <1>5 DEF DropsUser, Calls, SamePass, acl
    <2>2. (\A r \in DOMAIN acl.roles : RoleDone(r)) /\ ToDrop \cap DOMAIN server.users \subseteq pass.todo
      BY <1>0, <2>1 DEF StageInv
    <2> QED BY <2>1, <2>2 DEF StageInv, RoleDone, ToDrop
  <1>6. ASSUME NEW u \in User, SetsUser(u)
        PROVE  StageInv'
    <2>1. /\ pass.at \in {"users", "admin"} /\ pass'.at = pass.at /\ acl' = acl /\ status' = status
          /\ pass'.spec = pass.spec /\ pass'.read = pass.read
          /\ u \in pass.todo \cup pass.cur
          /\ pass'.todo = pass.todo \ {u} /\ pass.cur \in {{}, {u}} /\ pass'.cur \in {{}, {u}}
          /\ server'.roles = server.roles /\ DOMAIN server'.users = DOMAIN server.users \cup {u}
          /\ \A x \in DOMAIN server.users \ {u} : server'.users[x] = server.users[x]
          /\ pass'.cur = {} => /\ server'.users[u].roles = acl.users[u].roles
                               /\ UserPassword(u) \in {"unset", server'.users[u].password}
      BY <1>6 DEF SetsUser, Calls, SamePass, acl
    <2>2. u \in DOMAIN acl.users /\ (pass.at = "admin" => u = "admin") /\ (pass.at = "users" => u # "admin")
      BY <1>0, <2>1, AclAdmitted DEF PassInv, Sound, InAcl, AclStages
    <2>3. (\A r \in DOMAIN acl.roles : RoleDone(r)) /\ ToDrop \cap DOMAIN server.users = {}
      BY <1>0, <2>1 DEF StageInv
    <2>4. \A x : UserPassword(x)' = UserPassword(x)
      BY <1>0, <2>1, SamePasswords
    <2>5. ASSUME NEW x \in DOMAIN acl.users, x # u, UserDone(x)
          PROVE  UserDone(x)'
      BY <2>1, <2>4, <2>5 DEF UserDone, RolesGiven
    <2>6. pass'.cur = {} => UserDone(u)'
      BY <2>1, <2>4 DEF UserDone, RolesGiven
    <2>7. CASE pass.at = "users"
      <3>1. ASSUME NEW x \in DOMAIN acl.users, x \notin {"admin"} \cup pass'.todo \cup pass'.cur
            PROVE  UserDone(x)'
        <4>1. CASE x = u
          BY <2>1, <2>6, <3>1, <4>1
        <4>2. CASE x # u
          <5>1. UserDone(x)
            BY <1>0, <2>1, <2>7, <3>1, <4>2 DEF StageInv
          <5> QED BY <2>5, <4>2, <5>1
        <4> QED BY <4>1, <4>2
      <3> QED BY <2>1, <2>2, <2>3, <2>7, <3>1 DEF StageInv, RoleDone, ToDrop
    <2>8. CASE pass.at = "admin"
      <3>1. \A x \in DOMAIN acl.users \ {"admin"} : UserDone(x)'
        BY <1>0, <2>2, <2>5, <2>8 DEF StageInv
      <3> QED BY <2>1, <2>2, <2>3, <2>6, <2>8, <3>1 DEF StageInv, RoleDone, ToDrop
    <2> QED BY <2>1, <2>7, <2>8
  <1>7. CASE /\ pass.at = "record" /\ pass'.at = "update" /\ pass'.spec = pass.spec
             /\ status'.acl = acl /\ server' = server
    <2>1. /\ \A r \in DOMAIN acl.roles : RoleDone(r)
          /\ \A u \in DOMAIN acl.users : RolesGiven(u)
      BY <1>0, <1>7 DEF StageInv, UserDone
    <2> QED BY <1>7, <2>1 DEF StageInv, RoleDone, RolesGiven, acl
  <1> QED BY <1>1, <1>2, <1>3, <1>4, <1>5, <1>6, <1>7, CommandSteps

\* What a user or a pass has of a secret stays what the secret holds, unless
\* the password in the secret is replaced.
LEMMA StillHeld ==
    ASSUME TypeOK, Steps, NEW x \in Secret, NEW p, p # Missing, p = secrets[x] \/ x \in rotated
    PROVE  p = secrets'[x] \/ x \in rotated'
  <1>1. CASE WriteSecret
    BY <1>1 DEF WriteSecret, TypeOK, Secrets
  <1>2. CASE ~WriteSecret
    <2>1. UNCHANGED <<secrets, rotated>>
      BY <1>2 DEF Steps, Edit, PodsFail, Interrupt, Begin, recoverFailedCreate,
                  clearAerospikeAccessControlStatus, Quits, Walks, Enters, Advances, DropsRole, SetsRole,
                  DropsUser, SetsUser, Calls, Outer, updateAccessControlStatus, updateStatus, history,
                  outside, vars
    <2> QED BY <2>1
  <1> QED BY <1>1, <1>2

\* No user has the mark of a missing secret for a password.
LEMMA NeverMissing ==
    ASSUME NEW s \in Servers, NEW u \in DOMAIN s.users
    PROVE  s.users[u].password # Missing
  <1>1. s.users[u].password \in Passwords
    BY ServerFields DEF ServerUsers
  <1>2. Missing \notin Password
    BY MarkersAssumption
  <1>3. Missing # DefaultPassword /\ Missing # "nopassword"
    BY DEF Missing, DefaultPassword
  <1>4. Missing # EmptyPassword
    BY DEF Missing, EmptyPassword
  <1> QED BY <1>1, <1>2, <1>3, <1>4 DEF Passwords

\* The passwords of the pass are right after every step.
LEMMA NextRead ==
    ASSUME Sound, Steps
    PROVE  ReadInv'
  <1> USE DEF InUsers, UserStages, Applied
  <1>0. TypeOK /\ PassInv /\ StageInv /\ ReadInv /\ ValidInv
    BY DEF Sound
  <1>a. ASSUME pass'.spec = pass.spec, pass'.read = pass.read, InUsers \/ Applied
        PROVE  \A u \in DOMAIN acl'.users : acl'.users[u].mode = "Internal" =>
                    LET read == pass'.read[acl'.users[u].secret]
                    IN  read # Missing /\ (read = secrets'[acl'.users[u].secret] \/ acl'.users[u].secret \in rotated')
    <2>1. acl' = acl
      BY <1>a DEF acl
    <2>2. SUFFICES ASSUME NEW u \in DOMAIN acl.users, acl.users[u].mode = "Internal"
                   PROVE  LET read == pass.read[acl.users[u].secret]
                          IN  read # Missing /\ (read = secrets'[acl.users[u].secret] \/ acl.users[u].secret \in rotated')
      BY <1>a, <2>1
    <2>3. acl.users[u].secret \in Secret
      BY <1>0, <1>a, <2>2, AclAdmitted DEF InAcl, AclStages
    <2>4. /\ pass.read[acl.users[u].secret] # Missing
          /\ pass.read[acl.users[u].secret] = secrets[acl.users[u].secret] \/ acl.users[u].secret \in rotated
      BY <1>0, <1>a, <2>2 DEF ReadInv
    <2> QED BY <1>0, <2>3, <2>4, StillHeld
  <1>1. CASE Uncounted
    BY <1>1 DEF Uncounted, ReadInv
  <1>2. CASE Aside
    BY <1>0, <1>2, <1>a DEF Aside, ReadInv, acl
  <1>3. CASE Advances
    <2>1. CASE pass'.at = "dropUsers"
      <3>1. /\ pass.at = "roles" /\ pass'.read = secrets /\ secrets' = secrets /\ acl' = acl /\ PasswordsReadable
        BY <1>3, <2>1 DEF Advances, Outer, acl
      <3>2. \A u \in DOMAIN acl.users : acl.users[u].mode = "Internal" => secrets[acl.users[u].secret] # Missing
        BY <1>0, <3>1, AclAdmitted DEF PasswordsReadable, SecretPassword, InAcl, AclStages
      <3> QED BY <2>1, <3>1, <3>2 DEF ReadInv
    <2>2. CASE pass'.at # "dropUsers" /\ pass.at # "dropRoles"
      BY <1>3, <1>a, <2>2 DEF Advances, ReadInv
    <2>3. CASE pass.at = "dropRoles"
      BY <1>3, <2>3 DEF Advances, ReadInv
    <2> QED BY <2>1, <2>2, <2>3
  <1>4. CASE \E r \in Role : SetsRole(r)
    BY <1>4 DEF SetsRole, Calls, ReadInv
  <1>5. CASE \E u \in User : DropsUser(u) \/ SetsUser(u)
    BY <1>5, <1>a DEF DropsUser, SetsUser, Calls, SamePass, ReadInv
  <1>6. CASE /\ pass.at = "record" /\ pass'.at = "update" /\ pass'.spec = pass.spec
             /\ pass'.read = pass.read /\ server' = server
    <2>1. acl' = acl
      BY <1>6 DEF acl
    <2>2. \A u \in DOMAIN acl.users : UserDone(u)
      BY <1>0, <1>6 DEF StageInv
    <2>3. \A u \in DOMAIN acl.users : acl.users[u].mode = "Internal" =>
             server.users[u].password = pass.read[acl.users[u].secret]
      BY <1>0, <1>6, <2>2, PasswordTyped DEF UserDone
    <2> QED BY <1>6, <1>a, <2>1, <2>3 DEF ReadInv
  <1> QED BY <1>1, <1>2, <1>3, <1>4, <1>5, <1>6, CommandSteps

\* Every step keeps the invariant.
LEMMA NextSound ==
    ASSUME Sound, [Next]_vars
    PROVE  Sound'
  BY NextSteps, NextType, NextValid, NextPass, NextCommands, NextRead DEF Sound

\* The invariant holds when the cluster is created.
LEMMA InitSound ==
    ASSUME Init
    PROVE  Sound
  <1>1. PICK s \in Scenarios :
           /\ env = [federal |-> s.federal, edits |-> s.edits, writes |-> s.writes,
                     interrupts |-> s.interrupts, fails |-> s.fails]
           /\ ValidateCreate(s.spec, s.federal)
           /\ spec = s.spec
           /\ secrets = s.secrets
    BY DEF Init
  <1>2. /\ status = NoStatus /\ nodes = [n \in Node |-> NoNode] /\ failed = FALSE /\ server = FreshServer
        /\ pass = Idle /\ queued = TRUE /\ cause = {} /\ rotated = {} /\ unrecorded = NoNames /\ turned = {}
    BY DEF Init
  <1>3. /\ s.federal \in BOOLEAN /\ s.spec \in Specs /\ s.secrets \in Secrets /\ s.edits \in Seq(Specs)
        /\ s.writes \in Seq(Writes) /\ s.interrupts \in Nat /\ s.fails \in Nat
    BY ScenariosAssumption
  <1>4. TypeOK
    <2>1. env \in Environments
      BY <1>1, <1>3 DEF Environments
    <2>2. NoNames \in [users : SUBSET User, roles : SUBSET Role]
      BY DEF NoNames
    <2> QED BY <1>1, <1>2, <1>3, <2>1, <2>2, Initials DEF TypeOK
  <1>5. /\ Idle.at = "idle" /\ Idle.cur = {} /\ Idle.spec = NoStatus /\ NoStatus.acl = NoAcl /\ NoStatus.net = {}
        /\ NoStatus.security = FALSE
    BY DEF Idle, NoStatus
  <1>6. ValidInv
    <2>1. env.federal = s.federal
      BY <1>1
    <2>2. ValidSpec(spec) /\ spec.net # {}
      BY <1>1, <2>1 DEF ValidateCreate, IsAerospikeAccessControlValid, validateAccessControlCreate, ValidSpec, ValidAcl
    <2>3. ValidSpec(NoStatus) /\ ValidAcl(NoAcl) /\ Leads(NoAcl, spec.acl)
      BY <1>5, Initials DEF ValidSpec, ValidAcl, validateClientCertSpec, hasPKIOnlyUser, Leads
    <2> QED BY <1>2, <1>5, <2>2, <2>3 DEF ValidInv, Active
  <1>7. PassInv /\ StageInv /\ ReadInv
    BY <1>2, <1>5 DEF PassInv, StageInv, ReadInv, InAcl, AclStages, InUsers, UserStages, Applied, Rolled
  <1> QED BY <1>4, <1>6, <1>7 DEF Sound

\* The invariant holds in every state.
LEMMA SoundAlways == Spec => []Sound
  <1>1. Init => Sound
    BY InitSound
  <1>2. Sound /\ [Next]_vars => Sound'
    BY NextSound
  <1> QED BY <1>1, <1>2, PTL DEF Spec

\* Every state of every behaviour is well formed: no command of a pass gives a
\* server a user, a role or a password it cannot have, and no pass works with
\* anything but the names of its spec.
THEOREM TypeCorrect == Spec => []TypeOK
  BY SoundAlways, PTL DEF Sound

-----------------------------------------------------------------------------
(* The admin user *)

\* admin is changed by a recreation and by the last command of a pass only.
LEMMA AdminSteps ==
    ASSUME Sound, Steps
    PROVE  \/ server'.users["admin"] = server.users["admin"]
           \/ recoverFailedCreate
           \/ SetsUser("admin") /\ pass.at = "admin"
  <1>0. TypeOK /\ PassInv /\ ValidInv /\ "admin" \in DOMAIN server.users
    BY ServerFields DEF Sound, TypeOK
  <1>1. ASSUME NEW u \in User, DropsUser(u)
        PROVE  server'.users["admin"] = server.users["admin"]
    <2>1. pass.at = "dropUsers" /\ u \in pass.todo \cup pass.cur
          /\ \A x \in DOMAIN server.users \ {u} : server'.users[x] = server.users[x]
      BY <1>1 DEF DropsUser, Calls
    <2>2. u \notin DOMAIN acl.users
      BY <1>0, <2>1 DEF PassInv
    <2>3. "admin" \in DOMAIN acl.users
      BY <1>0, <2>1, AclAdmitted DEF InAcl, AclStages
    <2> QED BY <1>0, <2>1, <2>2, <2>3
  <1>2. ASSUME NEW u \in User, SetsUser(u)
        PROVE  server'.users["admin"] = server.users["admin"] \/ (u = "admin" /\ pass.at = "admin")
    <2>1. /\ pass.at \in {"users", "admin"} /\ u \in pass.todo \cup pass.cur
          /\ \A x \in DOMAIN server.users \ {u} : server'.users[x] = server.users[x]
      BY <1>2 DEF SetsUser, Calls
    <2> QED BY <1>0, <2>1 DEF PassInv
  <1>3. CASE \E r \in Role : DropsRole(r) \/ SetsRole(r)
    BY <1>3 DEF DropsRole, SetsRole
  <1>4. CASE server' = server
    BY <1>4
  <1>5. CASE \/ Edit \/ WriteSecret \/ PodsFail \/ Interrupt \/ Begin \/ clearAerospikeAccessControlStatus
             \/ Quits \/ Walks \/ Enters \/ Advances \/ updateAccessControlStatus \/ updateStatus \/ UNCHANGED vars
    BY <1>4, <1>5 DEF Edit, WriteSecret, PodsFail, Interrupt, Begin, clearAerospikeAccessControlStatus,
            Quits, Walks, Enters, Advances, Kept, updateAccessControlStatus, updateStatus, vars
  <1> QED BY <1>1, <1>2, <1>3, <1>5 DEF Steps

\* The status is changed by three patches only.
LEMMA StatusSteps ==
    ASSUME TypeOK, Steps
    PROVE  \/ status' = status
           \/ /\ clearAerospikeAccessControlStatus
              /\ status'.acl = NoAcl /\ status'.net = status.net /\ status'.security = status.security
           \/ /\ updateAccessControlStatus
              /\ status'.acl = acl /\ status'.net = status.net /\ status'.security = status.security
           \/ updateStatus /\ status' = pass.spec
  <1>1. CASE clearAerospikeAccessControlStatus
    BY <1>1 DEF clearAerospikeAccessControlStatus, TypeOK, Specs
  <1>2. CASE updateAccessControlStatus
    BY <1>2 DEF updateAccessControlStatus, TypeOK, Specs
  <1>3. CASE updateStatus
    BY <1>3 DEF updateStatus
  <1>4. CASE ~(clearAerospikeAccessControlStatus \/ updateAccessControlStatus \/ updateStatus)
    BY <1>4 DEF Steps, Edit, WriteSecret, PodsFail, Interrupt, Begin, recoverFailedCreate, Quits, Walks,
                Enters, Advances, Kept, DropsRole, SetsRole, DropsUser, SetsUser, Calls, vars
  <1> QED BY <1>1, <1>2, <1>3, <1>4

AdminRolesInv == status.security => requiredRoles \subseteq server.users["admin"].roles

\* admin keeps its roles through every step.
LEMMA NextAdminRoles ==
    ASSUME Sound, Steps, AdminRolesInv
    PROVE  AdminRolesInv'
  <1>0. TypeOK /\ PassInv /\ ValidInv /\ StageInv
    BY DEF Sound
  <1>1. CASE recoverFailedCreate
    <2>1. pass.at = "wipe" /\ status' = status
      BY <1>1 DEF recoverFailedCreate
    <2>2. ~status.security
      BY <1>0, <2>1 DEF PassInv, ValidInv
    <2> QED BY <2>1, <2>2 DEF AdminRolesInv
  <1>2. CASE updateStatus
    <2>1. pass.at = "update" /\ status' = pass.spec /\ server' = server
      BY <1>2 DEF updateStatus
    <2>2. pass.spec.security => /\ server.users["admin"].roles = acl.users["admin"].roles
                                /\ requiredRoles \subseteq acl.users["admin"].roles
      BY <1>0, <2>1, AclAdmitted DEF StageInv, Applied, RolesGiven
    <2> QED BY <2>1, <2>2 DEF AdminRolesInv
  <1>3. CASE SetsUser("admin") /\ pass.at = "admin"
    <2>1. requiredRoles \subseteq acl.users["admin"].roles
      BY <1>0, <1>3, AclAdmitted DEF InAcl, AclStages
    <2>2. /\ status' = status
          /\ \/ server'.users["admin"].roles = acl.users["admin"].roles
             \/ server'.users["admin"].roles = server.users["admin"].roles
             \/ server'.users["admin"].roles = server.users["admin"].roles \cap acl.users["admin"].roles
      BY <1>3 DEF SetsUser, Calls
    <2> QED BY <2>1, <2>2 DEF AdminRolesInv
  <1>4. CASE server'.users["admin"] = server.users["admin"] /\ ~updateStatus
    <2>1. status'.security = status.security
      BY <1>0, <1>4, StatusSteps
    <2> QED BY <1>4, <2>1 DEF AdminRolesInv
  <1> QED BY <1>1, <1>2, <1>3, <1>4, AdminSteps

\* Once an access control with security has been reported, admin has the roles
\* the operator needs on the servers in every state, wherever the passes stop:
\* updateUser never revokes a required role, since the webhook wants them in
\* every spec, and a recreation starts from an empty status.
THEOREM AdminRolesKept == Spec => []AdminKeepsRoles
  <1>1. Init => AdminRolesInv
    BY SMT DEF Init, AdminRolesInv, NoStatus
  <1>2. Sound /\ AdminRolesInv /\ [Next]_vars => AdminRolesInv'
    BY NextSteps, NextAdminRoles
  <1>3. AdminRolesInv => AdminKeepsRoles
    BY DEF AdminRolesInv, AdminKeepsRoles
  <1> QED BY <1>1, <1>2, <1>3, SoundAlways, PTL DEF Spec

\* reconcileUsers changes admin's password only when the roles and the other
\* users are as the pass wants them: every command before it has succeeded, and
\* none can be undone by another pass in between.
THEOREM AdminChangedLast == Spec => AdminLast
  <1> DEFINE Last == (server'.users["admin"].password # server.users["admin"].password /\ pass.at # "wipe") =>
          /\ \A r \in DOMAIN acl.roles : r \in DOMAIN server.roles /\ server.roles[r] = acl.roles[r]
          /\ \A u \in DOMAIN acl.users \ {"admin"} :
                u \in DOMAIN server.users /\ server.users[u].roles = acl.users[u].roles
          /\ (DOMAIN status.acl.users \ DOMAIN acl.users) \cap DOMAIN server.users = {}
  <1>1. ASSUME Sound, [Next]_vars
        PROVE  Last
    <2>1. CASE pass.at = "admin"
      BY <1>1, <2>1 DEF Sound, StageInv, InUsers, UserStages, RoleDone, UserDone, RolesGiven, ToDrop
    <2>2. CASE pass.at # "admin"
      <3>1. server'.users["admin"] = server.users["admin"] \/ pass.at = "wipe"
        BY <1>1, <2>2, NextSteps, AdminSteps DEF recoverFailedCreate
      <3> QED BY <3>1
    <2> QED BY <2>1, <2>2
  <1> HIDE DEF Last
  <1>2. Sound /\ [Next]_vars => [Last]_vars
    BY <1>1
  <1>3. Spec => [][Last]_vars
    BY <1>2, SoundAlways, PTL DEF Spec
  <1> QED BY <1>3 DEF AdminLast, Last

-----------------------------------------------------------------------------
(* Configurations *)

NodesNew == (\A n \in Node : nodes[n] = NoNode) \/ (\A n \in Node : nodes[n] = ConfigOf(spec))

\* Unless ports or security are edited twice in a row, the spec is at most one
\* configuration ahead of the status, the pods run one of the two, and an
\* access control that security does not apply is the one reported.
ConfigInv ==
    cause = {} =>
        /\ Active /\ ConfigOf(pass.spec) # ConfigOf(spec) => status = pass.spec
        /\ status.net = {} =>
              /\ NodesNew
              /\ Active => ConfigOf(pass.spec) = ConfigOf(spec)
              /\ ~spec.security => spec.acl = NoAcl
        /\ status.net # {} =>
              /\ \A n \in Node : nodes[n] \in {ConfigOf(status), ConfigOf(spec)}
              /\ validateNetworkPortUpdate(status, spec)
              /\ hasPKIOnlyUser(spec) => "tls" \in status.net
        /\ ~spec.security => spec.acl = status.acl
        /\ Active /\ ~pass.spec.security => pass.spec.acl = status.acl

\* What has cut the operator's access is not forgotten.
LEMMA CauseKept ==
    ASSUME Steps
    PROVE  cause \subseteq cause'
  BY DEF Steps, Edit, WriteSecret, PodsFail, Interrupt, Begin, recoverFailedCreate,
         clearAerospikeAccessControlStatus, Quits, Walks, Enters, Advances, DropsRole, SetsRole, DropsUser,
         SetsUser, Calls, Outer, updateAccessControlStatus, updateStatus, history, vars

\* Configurations are equal when ports and security are.
LEMMA SameConfig ==
    ASSUME NEW s, NEW t
    PROVE  ConfigOf(s) = ConfigOf(t) <=> s.net = t.net /\ s.security = t.security
  BY DEF ConfigOf

\* An edit goes one configuration ahead of a status that has caught up.
LEMMA EditConfig ==
    ASSUME Sound, Edit, ConfigInv, cause' = {}, cause = {}, spec' # spec
    PROVE  ConfigInv'
  <1> USE DEF Active
  <1>0. TypeOK /\ ValidInv /\ UNCHANGED <<status, pass, nodes>>
    BY DEF Sound, Edit
  <1>1. /\ ValidateUpdate(spec, spec', env.federal) /\ ~hasty(spec')
        /\ validateClientCertSpec(spec') /\ (spec'.acl # spec.acl => spec'.security)
    BY <1>0, Admitted
  <1>2. /\ validateNetworkPortUpdate(spec, spec')
        /\ hasPKIOnlyUser(spec') => "tls" \in spec'.net /\ (status.net = {} \/ "tls" \in status.net)
    BY <1>1 DEF ValidateUpdate, validateClientCertSpec, validateTLSAndPKIOnlyUpdate
  <1>3. /\ Active /\ ConfigOf(pass.spec) # ConfigOf(spec) => status = pass.spec
        /\ status.net = {} => /\ NodesNew /\ (Active => ConfigOf(pass.spec) = ConfigOf(spec))
                              /\ (~spec.security => spec.acl = NoAcl)
        /\ status.net # {} => /\ \A n \in Node : nodes[n] \in {ConfigOf(status), ConfigOf(spec)}
                              /\ validateNetworkPortUpdate(status, spec)
        /\ ~spec.security => spec.acl = status.acl
        /\ Active /\ ~pass.spec.security => pass.spec.acl = status.acl
    BY DEF ConfigInv
  <1>4. CASE ConfigOf(spec') = ConfigOf(spec)
    <2>1. spec'.net = spec.net /\ spec'.security = spec.security
      BY <1>4, SameConfig
    <2>2. validateNetworkPortUpdate(status, spec) => validateNetworkPortUpdate(status, spec')
      BY <2>1 DEF validateNetworkPortUpdate
    <2> QED BY <1>0, <1>1, <1>2, <1>3, <1>4, <2>1, <2>2 DEF ConfigInv, NodesNew
  <1>5. CASE ConfigOf(spec') # ConfigOf(spec)
    <2>1. spec'.net # spec.net \/ spec'.security # spec.security
      BY <1>5, SameConfig
    <2>2. status = spec /\ (Active => pass.spec = spec)
      BY <1>1, <2>1 DEF hasty
    <2>3. status.net # {}
      BY <1>0, <2>2 DEF ValidInv
    <2> QED BY <1>0, <1>1, <1>2, <1>3, <2>2, <2>3 DEF ConfigInv
  <1> QED BY <1>4, <1>5

\* Every step keeps the configurations.
LEMMA NextConfig ==
    ASSUME Sound, Steps, ConfigInv
    PROVE  ConfigInv'
  <1> SUFFICES ASSUME cause' = {}
               PROVE  ConfigInv'
    BY DEF ConfigInv
  <1> USE DEF Active
  <1>0. TypeOK /\ ValidInv /\ PassInv /\ cause = {}
    BY CauseKept DEF Sound
  <1>1. /\ Active /\ ConfigOf(pass.spec) # ConfigOf(spec) => status = pass.spec
        /\ status.net = {} => /\ NodesNew /\ (Active => ConfigOf(pass.spec) = ConfigOf(spec))
                              /\ (~spec.security => spec.acl = NoAcl)
        /\ status.net # {} => /\ \A n \in Node : nodes[n] \in {ConfigOf(status), ConfigOf(spec)}
                              /\ validateNetworkPortUpdate(status, spec)
                              /\ (hasPKIOnlyUser(spec) => "tls" \in status.net)
        /\ ~spec.security => spec.acl = status.acl
        /\ Active /\ ~pass.spec.security => pass.spec.acl = status.acl
    BY <1>0 DEF ConfigInv
  <1>b. Idle.at = "idle"
    BY DEF Idle
  <1>2. CASE UNCHANGED <<spec, status, nodes>> /\ pass'.spec = pass.spec /\ (pass'.at # "idle" => pass.at # "idle")
    BY <1>1, <1>2 DEF ConfigInv, NodesNew
  <1>3. CASE UNCHANGED <<spec, status, nodes>> /\ pass'.at = "idle"
    BY <1>1, <1>3 DEF ConfigInv, NodesNew
  <1>4. CASE Edit
    BY <1>0, <1>2, <1>4, EditConfig DEF Edit
  <1>5. CASE Begin
    <2>1. UNCHANGED <<spec, status, nodes>> /\ pass'.spec = spec
      BY <1>5 DEF Begin, outside, Idle
    <2> QED BY <1>1, <2>1 DEF ConfigInv, NodesNew
  <1>6. CASE Quits /\ nodes' # nodes
    <2>1. /\ UNCHANGED <<spec, status>> /\ pass'.at = "idle" /\ Active /\ Created # {}
          /\ \E n \in Node : nodes' = [nodes EXCEPT ![n] = ConfigOf(pass.spec)]
      BY <1>6, <1>b DEF Quits, Outer, Kept
    <2>2. \A n \in Node : nodes'[n] \in {nodes[n], ConfigOf(pass.spec)}
      BY <1>0, <2>1 DEF TypeOK
    <2>3. ~ \A n \in Node : nodes[n] = NoNode
      BY SMT, <2>1 DEF Created, NoNode
    <2> QED BY <1>1, <2>1, <2>2, <2>3 DEF ConfigInv, NodesNew
  <1>7. CASE Walks /\ pass.at = "racks"
    <2>1. /\ UNCHANGED <<spec, status>> /\ pass'.spec = pass.spec /\ Active
          /\ \A n \in Node : nodes'[n] = ConfigOf(pass.spec)
      BY <1>7 DEF Walks, SamePass, Outer, Kept
    <2> QED BY <1>1, <2>1 DEF ConfigInv, NodesNew
  <1>8. CASE recoverFailedCreate
    <2>1. /\ UNCHANGED <<spec, status>> /\ pass.at = "wipe" /\ (\A n \in Node : nodes'[n] = NoNode) /\ GoTo("clear")
      BY <1>8 DEF recoverFailedCreate, outside
    <2>2. pass'.spec = pass.spec /\ status.net = {} /\ Active
      BY <1>0, <2>1, GoesTo DEF SamePass, Stages, PassInv
    <2> QED BY <1>1, <2>1, <2>2 DEF ConfigInv, NodesNew
  <1>9. CASE clearAerospikeAccessControlStatus
    <2>1. UNCHANGED <<spec, nodes>> /\ pass'.at = "idle" /\ pass.at = "clear"
          /\ status'.acl = NoAcl /\ status'.net = status.net
      BY <1>0, <1>9, <1>b DEF clearAerospikeAccessControlStatus, Retry, outside, TypeOK, Specs
    <2>2. status.net = {}
      BY <1>0, <2>1 DEF PassInv
    <2> QED BY <1>1, <2>1, <2>2 DEF ConfigInv, NodesNew
  <1>10. CASE updateAccessControlStatus
    <2>1. /\ UNCHANGED <<spec, nodes>> /\ pass.at = "record" /\ GoTo(pass.ret) /\ status' = [status EXCEPT !.acl = acl]
          /\ status'.acl = acl /\ status'.net = status.net /\ status'.security = status.security
      BY <1>0, <1>10 DEF updateAccessControlStatus, outside, TypeOK, Specs
    <2>2. pass.spec.security /\ pass.ret \in {"racks", "update"} /\ Active
      BY <1>0, <2>1 DEF PassInv, InAcl, AclStages
    <2>3. pass'.spec = pass.spec
      BY <1>0, <2>1, <2>2, GoesTo DEF SamePass, Stages
    <2>4. status = pass.spec => status' = status
      BY <1>0, <2>1 DEF TypeOK, Specs, acl
    <2>5. ~spec.security => status = pass.spec
      BY <1>1, <2>2, SameConfig
    <2>6. ConfigOf(status') = ConfigOf(status)
      BY <2>1, SameConfig
    <2>7. validateNetworkPortUpdate(status, spec) => validateNetworkPortUpdate(status', spec)
      BY <2>1 DEF validateNetworkPortUpdate
    <2> QED BY <1>1, <2>1, <2>2, <2>3, <2>4, <2>5, <2>6, <2>7 DEF ConfigInv, NodesNew
  <1>11. CASE updateStatus
    <2>1. /\ UNCHANGED <<spec, nodes>> /\ pass.at = "update" /\ pass'.at = "idle" /\ status' = pass.spec
      BY <1>11, <1>b DEF updateStatus, outside
    <2>2. (\A n \in Node : nodes[n] = ConfigOf(pass.spec)) /\ pass.spec.net # {} /\ validateClientCertSpec(spec)
      BY <1>0, <2>1 DEF PassInv, Rolled, ValidInv, ValidSpec
    <2>3. CASE ConfigOf(pass.spec) = ConfigOf(spec)
      <3>1. pass.spec.net = spec.net /\ pass.spec.security = spec.security
        BY <2>3, SameConfig
      <3> QED BY <1>1, <2>1, <2>2, <2>3, <3>1 DEF ConfigInv, validateNetworkPortUpdate, validateClientCertSpec
    <2>4. CASE ConfigOf(pass.spec) # ConfigOf(spec)
      BY <1>1, <2>1, <2>2, <2>4 DEF ConfigInv
    <2> QED BY <2>3, <2>4
  <1>12. CASE WriteSecret \/ PodsFail \/ UNCHANGED vars
    BY <1>2, <1>12 DEF WriteSecret, PodsFail, vars
  <1>13. CASE Interrupt \/ (Quits /\ nodes' = nodes)
    BY <1>3, <1>13, <1>b DEF Interrupt, Retry, Quits, Outer, Kept
  <1>14. CASE (Walks /\ pass.at # "racks") \/ Enters \/ Advances
    BY <1>2, <1>14 DEF Walks, Enters, Advances, SamePass, Outer, Kept, Placed
  <1>15. CASE (\E r \in Role : DropsRole(r) \/ SetsRole(r)) \/ (\E u \in User : DropsUser(u) \/ SetsUser(u))
    BY <1>2, <1>15 DEF DropsRole, SetsRole, DropsUser, SetsUser, Calls, SamePass, Outer, Placed
  <1> QED BY <1>4, <1>5, <1>6, <1>7, <1>8, <1>9, <1>10, <1>11, <1>12, <1>13, <1>14, <1>15 DEF Steps

-----------------------------------------------------------------------------
(* Federal images *)

\* A federal image is reported with TLS only, for a pass can neither log in nor
\* end without it; its users other than admin have an empty password.
FederalInv ==
    env.federal =>
        /\ pass.at = "update" \/ (InAcl /\ pass.ret = "update") => "tls" \in pass.spec.net
        /\ status.net # {} => "tls" \in status.net
        /\ \A u \in DOMAIN server.users \ {"admin"} : server.users[u].password = EmptyPassword

\* A pass that has reached every pod of a federal image has TLS.
LEMMA FederalLogin ==
    ASSUME Sound, env.federal, pass.at = "final", Connects(pass.spec)
    PROVE  "tls" \in pass.spec.net
  <1>1. /\ \A n \in Node : nodes[n] = ConfigOf(pass.spec)
        /\ pass.spec.net # {} /\ ValidAcl(status.acl)
    BY DEF Sound, PassInv, Rolled, ValidInv, Active
  <1>2. 1 \in Created
    BY SMT, <1>1, ConstantsAssumption DEF Created, Node, ConfigOf
  <1>3. AuthMode(env.federal) = "PKIOnly"
    BY <1>1 DEF AuthMode, ValidAcl, isUserSpecValid
  <1>4. getServicePort(pass.spec) = "tls"
    BY <1>2, <1>3 DEF Connects, Accepts
  <1> QED BY <1>4 DEF getServicePort

\* Every step keeps a federal image on TLS and its users without passwords.
LEMMA NextFederal ==
    ASSUME Sound, Steps, FederalInv
    PROVE  FederalInv'
  <1> SUFFICES ASSUME env.federal
               PROVE  /\ pass'.at = "update" \/ (pass'.at \in AclStages /\ pass'.ret = "update")
                            => "tls" \in pass'.spec.net
                      /\ status'.net # {} => "tls" \in status'.net
                      /\ \A u \in DOMAIN server'.users \ {"admin"} : server'.users[u].password = EmptyPassword
    BY FederalFixed DEF FederalInv, InAcl, Sound
  <1>0. TypeOK /\ PassInv /\ ValidInv /\ pass.at \in Stages
    BY PassTyped DEF Sound
  <1>1. /\ pass.at = "update" \/ (InAcl /\ pass.ret = "update") => "tls" \in pass.spec.net
        /\ status.net # {} => "tls" \in status.net
        /\ \A u \in DOMAIN server.users \ {"admin"} : server.users[u].password = EmptyPassword
    BY DEF FederalInv
  <1>b. Idle.at = "idle"
    BY DEF Idle
  <1>2. status'.net # {} => "tls" \in status'.net
    BY <1>0, <1>1, StatusSteps DEF updateStatus
  <1>3. pass'.at = "update" \/ (pass'.at \in AclStages /\ pass'.ret = "update") => "tls" \in pass'.spec.net
    <2>1. CASE UNCHANGED pass \/ pass'.at \in {"idle", "start", "racks", "wipe", "clear", "final"}
      BY <1>1, <2>1 DEF InAcl, AclStages
    <2>2. CASE Edit \/ WriteSecret \/ PodsFail \/ UNCHANGED vars
      BY <2>1, <2>2 DEF Edit, WriteSecret, PodsFail, vars
    <2>3. CASE Interrupt \/ Quits \/ clearAerospikeAccessControlStatus \/ updateStatus
      BY <1>b, <2>1, <2>3 DEF Interrupt, Retry, Quits, clearAerospikeAccessControlStatus, updateStatus
    <2>4. CASE Begin
      BY <2>1, <2>4 DEF Begin, Idle
    <2>5. CASE recoverFailedCreate
      BY <1>0, <2>1, <2>5, GoesTo DEF recoverFailedCreate, Stages
    <2>6. CASE Walks \/ Enters
      <3>1. pass.at = "final" /\ pass'.spec = pass.spec /\ Connects(pass.spec) => "tls" \in pass'.spec.net
        BY FederalLogin
      <3> QED BY <2>1, <2>6, <3>1 DEF Walks, Enters, SamePass, AclStages
    <2>7. CASE Advances
      BY <1>1, <2>7 DEF Advances, InAcl, AclStages
    <2>8. CASE (\E r \in Role : DropsRole(r) \/ SetsRole(r)) \/ (\E u \in User : DropsUser(u) \/ SetsUser(u))
      BY <1>1, <2>8 DEF DropsRole, SetsRole, DropsUser, SetsUser, Calls, SamePass, InAcl
    <2>9. CASE updateAccessControlStatus
      <3>1. pass.at = "record" /\ GoTo(pass.ret)
        BY <2>9 DEF updateAccessControlStatus
      <3>2. InAcl /\ pass.ret \in {"racks", "update"} /\ pass.ret \in Stages
        BY <1>0, <3>1 DEF PassInv, InAcl, AclStages, Stages
      <3>3. pass'.at = pass.ret /\ pass'.spec = pass.spec
        BY <1>0, <3>1, <3>2, GoesTo DEF SamePass
      <3> QED BY <1>1, <3>2, <3>3 DEF AclStages
    <2> QED BY <2>2, <2>3, <2>4, <2>5, <2>6, <2>7, <2>8, <2>9 DEF Steps
  <1>4. \A u \in DOMAIN server'.users \ {"admin"} : server'.users[u].password = EmptyPassword
    <2>1. CASE server'.users = server.users
      BY <1>1, <2>1
    <2>2. CASE recoverFailedCreate
      BY <2>2, Initials DEF recoverFailedCreate
    <2>3. ASSUME NEW u \in User, DropsUser(u)
          PROVE  \A x \in DOMAIN server'.users \ {"admin"} : server'.users[x].password = EmptyPassword
      BY <1>1, <2>3 DEF DropsUser
    <2>4. ASSUME NEW u \in User, SetsUser(u)
          PROVE  \A x \in DOMAIN server'.users \ {"admin"} : server'.users[x].password = EmptyPassword
      <3>1. /\ DOMAIN server'.users = DOMAIN server.users \cup {u}
            /\ \A x \in DOMAIN server.users \ {u} : server'.users[x] = server.users[x]
            /\ \/ u \in DOMAIN server.users /\ server'.users[u].password = server.users[u].password
               \/ UserPassword(u) # "unset" /\ server'.users[u].password = UserPassword(u)
        BY <2>4 DEF SetsUser
      <3>2. UserPassword(u) \in {"unset", EmptyPassword}
        BY DEF UserPassword
      <3> QED BY <1>1, <3>1, <3>2
    <2>5. CASE \/ Edit \/ WriteSecret \/ PodsFail \/ Interrupt \/ Begin \/ clearAerospikeAccessControlStatus
               \/ Quits \/ Walks \/ Enters \/ Advances \/ updateAccessControlStatus \/ updateStatus
               \/ UNCHANGED vars \/ \E r \in Role : DropsRole(r) \/ SetsRole(r)
      BY <2>1, <2>5 DEF Edit, WriteSecret, PodsFail, Interrupt, Begin, clearAerospikeAccessControlStatus,
              Quits, Walks, Enters, Advances, Kept, updateAccessControlStatus, updateStatus, vars, DropsRole,
              SetsRole
    <2> QED BY <2>2, <2>3, <2>4, <2>5 DEF Steps
  <1> QED BY <1>2, <1>3, <1>4

-----------------------------------------------------------------------------
(* What is recorded *)

\* The roles and users on the servers are those the status reports and those
\* that passes created without reporting them; the roles to be dropped are on
\* the list of the pass.
RecordInv ==
    /\ unrecorded.roles \cap DOMAIN status.acl.roles = {}
    /\ unrecorded.users \cap DOMAIN status.acl.users = {}
    /\ cause = {} =>
        /\ DOMAIN server.roles \subseteq DOMAIN status.acl.roles \cup unrecorded.roles
        /\ DOMAIN server.users \subseteq DOMAIN status.acl.users \cup unrecorded.users \cup {"admin"}
        /\ pass.at = "dropRoles" => DOMAIN server.roles \subseteq DOMAIN acl.roles \cup unrecorded.roles \cup pass.todo
        /\ InAcl /\ pass.at # "dropRoles" => DOMAIN server.roles \subseteq DOMAIN acl.roles \cup unrecorded.roles

\* The patch of the whole status leaves the reported access control as it is.
LEMMA SameReported ==
    ASSUME Sound, ConfigInv, cause = {}, pass.at = "update"
    PROVE  pass.spec.acl = status.acl
  BY DEF Sound, StageInv, Applied, ConfigInv, Active, acl

\* Every step keeps the record.
LEMMA NextRecord ==
    ASSUME Sound, Steps, ConfigInv, RecordInv
    PROVE  RecordInv'
  <1> USE DEF InAcl, AclStages
  <1>0. TypeOK /\ PassInv /\ StageInv /\ (cause' = {} => cause = {})
        /\ unrecorded \in [users : SUBSET User, roles : SUBSET Role]
    BY CauseKept DEF Sound, TypeOK
  <1>1. /\ unrecorded.roles \cap DOMAIN status.acl.roles = {}
        /\ unrecorded.users \cap DOMAIN status.acl.users = {}
        /\ cause = {} =>
            /\ DOMAIN server.roles \subseteq DOMAIN status.acl.roles \cup unrecorded.roles
            /\ DOMAIN server.users \subseteq DOMAIN status.acl.users \cup unrecorded.users \cup {"admin"}
            /\ pass.at = "dropRoles" => DOMAIN server.roles \subseteq DOMAIN acl.roles \cup unrecorded.roles \cup pass.todo
            /\ InAcl /\ pass.at # "dropRoles" => DOMAIN server.roles \subseteq DOMAIN acl.roles \cup unrecorded.roles
    BY DEF RecordInv
  <1>b. Idle.at = "idle"
    BY DEF Idle
  <1>2. CASE UNCHANGED <<status, server, unrecorded>> /\ (pass' = pass \/ pass'.at \notin AclStages)
    BY <1>0, <1>1, <1>2 DEF RecordInv, acl
  <1>3. CASE recoverFailedCreate
    <2>1. UNCHANGED status /\ server' = FreshServer /\ unrecorded' = NoNames /\ pass'.at = "clear"
      BY <1>0, <1>3, GoesTo DEF recoverFailedCreate, Stages
    <2> QED BY <2>1, Initials DEF RecordInv, NoNames
  <1>4. CASE clearAerospikeAccessControlStatus
    <2>1. UNCHANGED <<server, unrecorded>> /\ status'.acl = NoAcl /\ pass' = Idle /\ pass.at = "clear"
      BY <1>0, <1>4 DEF clearAerospikeAccessControlStatus, Retry, history, TypeOK, Specs
    <2>2. server = FreshServer
      BY <1>0, <2>1 DEF PassInv
    <2> QED BY <1>b, <2>1, <2>2, Initials DEF RecordInv
  <1>5. CASE Enters
    <2>1. UNCHANGED <<server, status, unrecorded>> /\ pass'.at = "dropRoles" /\ acl' = acl
          /\ pass'.todo = (DOMAIN status.acl.roles \ DOMAIN acl.roles) \ PredefinedRoles
      BY <1>5 DEF Enters, Kept, acl
    <2>2. PredefinedRoles \cap DOMAIN server.roles = {}
      BY <1>0, ServerFields, ConstantsAssumption DEF TypeOK, PredefinedRoles
    <2> QED BY <1>0, <1>1, <2>1, <2>2 DEF RecordInv
  <1>6. CASE Advances
    <2>1. UNCHANGED <<server, status, unrecorded>> /\ pass'.at # "dropRoles" /\ acl' = acl /\ InAcl /\ pass.todo = {}
      BY <1>6 DEF Advances, Kept, acl
    <2> QED BY <1>0, <1>1, <2>1 DEF RecordInv
  <1>7. ASSUME NEW r \in Role, DropsRole(r)
        PROVE  RecordInv'
    <2>1. /\ UNCHANGED <<status, unrecorded>> /\ acl' = acl /\ pass.at = "dropRoles" /\ pass'.at = "dropRoles"
          /\ server'.users = server.users /\ DOMAIN server'.roles = DOMAIN server.roles \ {r}
          /\ pass'.todo = pass.todo \ {r}
      BY <1>7 DEF DropsRole, Calls, SamePass, acl
    <2> QED BY <1>0, <1>1, <2>1 DEF RecordInv
  <1>8. ASSUME NEW r \in Role, SetsRole(r)
        PROVE  RecordInv'
    <2>1. /\ UNCHANGED status /\ acl' = acl /\ pass.at = "roles" /\ pass'.at = "roles"
          /\ r \in pass.todo \cup pass.cur
          /\ server'.users = server.users /\ DOMAIN server'.roles = DOMAIN server.roles \cup {r}
          /\ unrecorded'.users = unrecorded.users
          /\ unrecorded'.roles = unrecorded.roles
                                   \cup ((DOMAIN server'.roles \ DOMAIN server.roles) \ DOMAIN status.acl.roles)
      BY <1>8 DEF SetsRole, Calls, SamePass, acl
    <2>2. r \in DOMAIN acl.roles
      BY <1>0, <2>1 DEF PassInv
    <2> QED BY <1>0, <1>1, <2>1, <2>2 DEF RecordInv
  <1>9. ASSUME NEW u \in User, DropsUser(u) \/ SetsUser(u)
        PROVE  RecordInv'
    <2>1. /\ UNCHANGED status /\ acl' = acl /\ pass.at \in {"dropUsers", "users", "admin"} /\ pass'.at = pass.at
          /\ server'.roles = server.roles /\ unrecorded'.roles = unrecorded.roles
          /\ DOMAIN server'.users \subseteq DOMAIN server.users \cup {u}
          /\ unrecorded'.users = unrecorded.users
                                   \cup ((DOMAIN server'.users \ DOMAIN server.users) \ DOMAIN status.acl.users)
      BY <1>9 DEF DropsUser, SetsUser, Calls, SamePass, acl
    <2> QED BY <1>0, <1>1, <2>1 DEF RecordInv
  <1>10. CASE updateAccessControlStatus
    <2>1. /\ UNCHANGED server /\ status'.acl = acl /\ unrecorded' = Unreported /\ pass.at = "record" /\ GoTo(pass.ret)
      BY <1>0, <1>10 DEF updateAccessControlStatus, TypeOK, Specs
    <2>2. pass.ret \in {"racks", "update"} /\ ToDrop \cap DOMAIN server.users = {}
      BY <1>0, <2>1 DEF PassInv, StageInv
    <2>3. pass'.at \notin AclStages
      BY <1>0, <2>1, <2>2, GoesTo DEF Stages
    <2> QED BY <1>0, <1>1, <2>1, <2>2, <2>3 DEF RecordInv, Unreported, ToDrop
  <1>11. CASE updateStatus
    <2>1. /\ UNCHANGED server /\ status' = pass.spec /\ unrecorded' = Unreported /\ pass.at = "update" /\ pass' = Idle
      BY <1>11 DEF updateStatus
    <2>2. cause = {} => acl = status.acl
      BY <2>1, SameReported DEF acl
    <2>3. status'.acl = acl
      BY <2>1 DEF acl
    <2> QED BY <1>0, <1>1, <1>b, <2>1, <2>2, <2>3 DEF RecordInv, Unreported
  <1>12. CASE Edit \/ WriteSecret \/ PodsFail \/ UNCHANGED vars \/ Walks
    BY <1>2, <1>12 DEF Edit, WriteSecret, PodsFail, vars, Walks, Kept
  <1>13. CASE Interrupt \/ Quits \/ Begin
    BY <1>2, <1>b, <1>13 DEF Interrupt, Retry, Quits, Begin, Kept, history, Idle
  <1> QED BY <1>3, <1>4, <1>5, <1>6, <1>7, <1>8, <1>9, <1>10, <1>11, <1>12, <1>13 DEF Steps

-----------------------------------------------------------------------------
(* Logins *)

\* A user reported as a PKI user has no password, or was given one by a pass
\* that did not report it.
PKIInv ==
    cause = {} /\ pass.at # "clear" /\ ~env.federal =>
        \A u \in DOMAIN server.users \cap DOMAIN status.acl.users :
            status.acl.users[u].mode = "PKIOnly" => u \in turned \/ server.users[u].password = "nopassword"

\* admin's password is the one the operator takes from the status.
AdminLogin ==
    IF status.acl = NoAcl THEN server.users["admin"].password = DefaultPassword
    ELSE status.acl.users["admin"].mode = "Internal" /\ status.acl.users["admin"].secret \notin rotated
           => server.users["admin"].password = secrets[status.acl.users["admin"].secret]

LoginInv == cause = {} /\ ~failed /\ pass.at # "clear" /\ ~env.federal /\ ~AdminInFlight => AdminLogin

\* A recreation that stops before its patch is remembered unless there was
\* nothing to clear.
LEMMA TornRemembered ==
    ASSUME Sound, Steps, cause' = {}, pass.at = "clear"
    PROVE  \/ pass' = pass
           \/ server' = FreshServer /\ status'.acl = NoAcl
  <1>0. TypeOK /\ server = FreshServer
    BY DEF Sound, PassInv
  <1>1. CASE Interrupt
    BY <1>0, <1>1 DEF Interrupt
  <1>2. CASE clearAerospikeAccessControlStatus
    BY <1>0, <1>2 DEF clearAerospikeAccessControlStatus, TypeOK, Specs
  <1>3. CASE Edit \/ WriteSecret \/ PodsFail \/ UNCHANGED vars
    BY <1>3 DEF Edit, WriteSecret, PodsFail, vars
  <1> QED BY <1>1, <1>2, <1>3 DEF Steps, Begin, recoverFailedCreate, Quits, Walks, Enters, Advances,
             DropsRole, SetsRole, DropsUser, SetsUser, Calls, updateAccessControlStatus, updateStatus

\* Every step keeps PKI users without passwords.
LEMMA NextPKI ==
    ASSUME Sound, Steps, ConfigInv, PKIInv
    PROVE  PKIInv'
  <1> SUFFICES ASSUME cause' = {}, pass'.at # "clear", ~env.federal,
                      NEW x \in DOMAIN server'.users \cap DOMAIN status'.acl.users,
                      status'.acl.users[x].mode = "PKIOnly"
               PROVE  x \in turned' \/ server'.users[x].password = "nopassword"
    BY FederalFixed DEF PKIInv, Sound
  <1>0. TypeOK /\ PassInv /\ StageInv /\ ValidInv /\ cause = {}
    BY CauseKept DEF Sound
  <1>1. CASE pass.at = "clear"
    BY <1>0, <1>1, TornRemembered, Initials
  <1>2. ASSUME pass.at # "clear", x \in DOMAIN server.users, x \in DOMAIN status.acl.users,
               status.acl.users[x].mode = "PKIOnly"
        PROVE  x \in turned \/ server.users[x].password = "nopassword"
    BY <1>0, <1>2 DEF PKIInv
  <1>3. CASE pass.at # "clear" /\ UNCHANGED <<status, server, turned>>
    BY <1>2, <1>3
  <1>4. CASE recoverFailedCreate
    BY <1>0, <1>4, GoesTo DEF recoverFailedCreate, Stages
  <1>5. ASSUME NEW r \in Role, DropsRole(r) \/ SetsRole(r)
        PROVE  x \in turned' \/ server'.users[x].password = "nopassword"
    <2>1. UNCHANGED <<status, turned>> /\ server'.users = server.users /\ pass.at # "clear"
      BY <1>5 DEF DropsRole, SetsRole, Calls
    <2> QED BY <1>2, <2>1
  <1>6. ASSUME NEW u \in User, DropsUser(u)
        PROVE  x \in turned' \/ server'.users[x].password = "nopassword"
    <2>1. /\ UNCHANGED <<status, turned>> /\ pass.at # "clear" /\ DOMAIN server'.users = DOMAIN server.users \ {u}
          /\ \A y \in DOMAIN server.users \ {u} : server'.users[y] = server.users[y]
      BY <1>6 DEF DropsUser, Calls
    <2> QED BY <1>2, <2>1
  <1>7. ASSUME NEW u \in User, SetsUser(u)
        PROVE  x \in turned' \/ server'.users[x].password = "nopassword"
    <2>1. /\ status' = status /\ pass.at \in {"users", "admin"} /\ turned \subseteq turned'
          /\ DOMAIN server'.users = DOMAIN server.users \cup {u}
          /\ \A y \in DOMAIN server.users \ {u} : server'.users[y] = server.users[y]
          /\ \/ u \in DOMAIN server.users /\ server'.users[u].password = server.users[u].password
             \/ UserPassword(u) # "unset" /\ server'.users[u].password = UserPassword(u) /\ turned' = Turned(u)
      BY <1>7 DEF SetsUser, Calls, Turned
    <2>2. CASE x \in DOMAIN server.users /\ server'.users[x].password = server.users[x].password
      BY <1>2, <2>1, <2>2
    <2>3. CASE x = u /\ UserPassword(u) # "unset" /\ turned' = Turned(u)
      <3>1. u \in DOMAIN acl.users
        BY <1>0, <1>7, <2>1, AclAdmitted DEF PassInv, SetsUser, Calls, InAcl, AclStages
      <3>2. acl.users[u].mode \in {"Internal", "PKIOnly"}
        BY <1>0, <3>1, PassTyped, AclFields DEF UserSpecs
      <3>3. acl.users[u].mode # "PKIOnly"
        BY <2>1, <2>3 DEF UserPassword
      <3> QED BY <2>1, <2>3, <3>2, <3>3 DEF Turned
    <2> QED BY <2>1, <2>2, <2>3
  <1>8. CASE updateAccessControlStatus
    <2>1. /\ server' = server /\ status'.acl = acl /\ pass.at = "record"
          /\ turned' = {u \in turned \cap DOMAIN acl.users : acl.users[u].mode = "PKIOnly"}
      BY <1>0, <1>8 DEF updateAccessControlStatus, TypeOK, Specs
    <2>2. UserDone(x)
      BY <1>0, <2>1 DEF StageInv
    <2>3. UserPassword(x) = "unset" => x \in DOMAIN status.acl.users /\ status.acl.users[x].mode # "Internal"
      BY <2>1 DEF UserPassword
    <2>4. UserPassword(x) = "unset" => status.acl.users[x].mode = "PKIOnly"
      BY <1>0, <2>3, PassTyped, AclFields DEF UserSpecs
    <2>5. UserPassword(x) \in {"unset", "nopassword"}
      BY <2>1 DEF UserPassword
    <2> QED BY <1>2, <2>1, <2>2, <2>3, <2>4, <2>5 DEF UserDone
  <1>9. CASE updateStatus
    <2>1. server' = server /\ turned' = turned /\ pass.at = "update" /\ status' = pass.spec
      BY <1>9 DEF updateStatus
    <2>2. status'.acl = status.acl
      BY <1>0, <2>1, SameReported
    <2> QED BY <1>2, <2>1, <2>2
  <1>10. CASE /\ pass.at # "clear"
              /\ \/ Edit \/ WriteSecret \/ PodsFail \/ Interrupt \/ Begin \/ Quits \/ Walks \/ Enters
                 \/ Advances \/ UNCHANGED vars
    BY <1>3, <1>10 DEF Edit, WriteSecret, PodsFail, Interrupt, Begin, Quits, Walks, Enters, Advances, Kept,
            history, vars
  <1>11. CASE clearAerospikeAccessControlStatus
    BY <1>1, <1>11 DEF clearAerospikeAccessControlStatus
  <1> QED BY <1>1, <1>4, <1>5, <1>6, <1>7, <1>8, <1>9, <1>10, <1>11 DEF Steps

\* admin's secret, if it has one, is a secret's name.
LEMMA AdminSecret ==
    ASSUME Sound, status.acl # NoAcl, status.acl.users["admin"].mode = "Internal"
    PROVE  status.acl.users["admin"].secret \in Secret
  <1>1. "admin" \in DOMAIN status.acl.users /\ status.acl.users["admin"].secret # NoSecret
    BY DEF Sound, ValidInv, ValidAcl, isUserSpecValid
  <1> QED BY <1>1, PassTyped, AclFields DEF Sound, UserSpecs

\* Every step keeps admin's password where the operator looks for it.
LEMMA NextLogin ==
    ASSUME Sound, Steps, ConfigInv, LoginInv
    PROVE  LoginInv'
  <1> SUFFICES ASSUME cause' = {}, ~failed', pass'.at # "clear", ~env.federal, ~AdminInFlight'
               PROVE  AdminLogin'
    BY FederalFixed DEF LoginInv, Sound
  <1>0. /\ TypeOK /\ PassInv /\ StageInv /\ ValidInv /\ ReadInv /\ cause = {}
        /\ server \in Servers /\ "admin" \in DOMAIN server.users
    BY CauseKept, ServerFields DEF Sound, TypeOK
  <1>1. CASE pass.at = "clear" /\ pass' # pass
    BY <1>0, <1>1, TornRemembered, Initials DEF AdminLogin
  <1>2. CASE recoverFailedCreate
    BY <1>0, <1>2, GoesTo DEF recoverFailedCreate, Stages
  <1>3. ASSUME AdminLogin, status'.acl = status.acl,
               server'.users["admin"].password = server.users["admin"].password
        PROVE  AdminLogin'
    <2>1. CASE status.acl = NoAcl
      BY <1>3, <2>1 DEF AdminLogin
    <2>2. CASE status.acl # NoAcl /\ status.acl.users["admin"].mode # "Internal"
      BY <1>3, <2>2 DEF AdminLogin
    <2>3. CASE status.acl # NoAcl /\ status.acl.users["admin"].mode = "Internal"
      <3> DEFINE x == status.acl.users["admin"].secret
      <3>1. x \in Secret
        BY <2>3, AdminSecret
      <3>2. server.users["admin"].password # Missing
        BY <1>0, NeverMissing
      <3>3. server.users["admin"].password = secrets[x] \/ x \in rotated
        BY <1>3, <2>3 DEF AdminLogin
      <3>4. server.users["admin"].password = secrets'[x] \/ x \in rotated'
        BY <1>0, <3>1, <3>2, <3>3, StillHeld
      <3> QED BY <1>3, <2>3, <3>4 DEF AdminLogin
    <2> QED BY <2>1, <2>2, <2>3
  <1>4. CASE SetsUser("admin") /\ pass.at = "admin"
    <2>1. /\ UNCHANGED <<status, failed, secrets, rotated>> /\ pass'.spec = pass.spec /\ pass'.at = "admin"
          /\ \/ server'.users["admin"].password = server.users["admin"].password
             \/ UserPassword("admin") # "unset" /\ server'.users["admin"].password = UserPassword("admin")
      BY <1>4 DEF SetsUser, Calls, SamePass, Outer, Placed
    <2>2. /\ acl # NoAcl /\ status.acl # NoAcl
          /\ acl.users["admin"].mode = status.acl.users["admin"].mode
          /\ acl.users["admin"].secret = status.acl.users["admin"].secret
      BY <1>0, <1>4, <2>1 DEF AdminInFlight, acl, PassInv, InAcl, AclStages, ValidInv, ValidSpec
    <2>3. AdminLogin
      BY <1>0, <1>4, <2>1, <2>2 DEF LoginInv, AdminInFlight, acl
    <2>4. acl.users["admin"].mode = "Internal" /\ acl.users["admin"].secret \notin rotated =>
             UserPassword("admin") = secrets[acl.users["admin"].secret]
      BY <1>0, <1>4, AclAdmitted, PasswordTyped DEF ReadInv, InAcl, AclStages, InUsers, UserStages
    <2> QED BY <2>1, <2>2, <2>3, <2>4 DEF AdminLogin
  <1>5. CASE updateAccessControlStatus
    <2>1. /\ UNCHANGED <<server, secrets, rotated>> /\ status'.acl = acl /\ pass.at = "record"
      BY <1>0, <1>5 DEF updateAccessControlStatus, outside, TypeOK, Specs
    <2>2. acl # NoAcl /\ "admin" \in DOMAIN acl.users /\ UserDone("admin")
      BY <1>0, <2>1, AclAdmitted DEF PassInv, InAcl, AclStages, ValidInv, ValidSpec, StageInv, acl
    <2>3. acl.users["admin"].mode = "Internal" /\ acl.users["admin"].secret \notin rotated =>
             server.users["admin"].password = secrets[acl.users["admin"].secret]
      BY <1>0, <2>1, <2>2, PasswordTyped DEF ReadInv, InUsers, UserStages, UserDone
    <2> QED BY <2>1, <2>2, <2>3 DEF AdminLogin
  <1>6. CASE updateStatus
    <2>1. UNCHANGED <<server, failed>> /\ pass.at = "update" /\ status' = pass.spec
      BY <1>6 DEF updateStatus
    <2>2. status'.acl = status.acl /\ AdminLogin
      BY <1>0, <2>1, SameReported DEF LoginInv, AdminInFlight
    <2> QED BY <1>3, <2>1, <2>2
  <1>7. CASE /\ status' = status /\ server'.users["admin"] = server.users["admin"] /\ ~recoverFailedCreate
             /\ pass.at # "clear" \/ pass' = pass
    <2>1. ~failed
      BY <1>7 DEF Steps, Edit, WriteSecret, PodsFail, Interrupt, Begin, clearAerospikeAccessControlStatus,
                  Quits, Walks, Enters, Advances, Placed, DropsRole, SetsRole, DropsUser, SetsUser, Calls,
                  updateAccessControlStatus, updateStatus, vars
    <2>2. AdminInFlight => pass' = pass \/ (pass'.at \in {"admin", "record"} /\ pass'.spec = pass.spec)
      <3> SUFFICES ASSUME AdminInFlight
                   PROVE  pass' = pass \/ (pass'.at \in {"admin", "record"} /\ pass'.spec = pass.spec)
        OBVIOUS
      <3>1. pass.at \in {"admin", "record"}
        BY DEF AdminInFlight
      <3>2. ~Interrupt
        BY <1>0 DEF Interrupt
      <3>3. ~Quits
        BY <2>1, <3>1 DEF Quits
      <3>4. ~updateAccessControlStatus \/ pass.spec.acl = status.acl
        BY <1>0, <1>7 DEF updateAccessControlStatus, TypeOK, Specs, acl
      <3>5. pass.spec.acl # status.acl
        BY DEF AdminInFlight
      <3> QED BY <3>1, <3>2, <3>3, <3>4, <3>5 DEF Steps, Edit, WriteSecret, PodsFail, Begin, recoverFailedCreate,
                 clearAerospikeAccessControlStatus, Walks, Enters, Advances, DropsRole, SetsRole, DropsUser,
                 SetsUser, Calls, SamePass, updateStatus, vars
    <2>3. ~AdminInFlight
      BY <1>7, <2>2 DEF AdminInFlight
    <2>4. AdminLogin
      BY <1>0, <1>7, <2>1, <2>3 DEF LoginInv
    <2> QED BY <1>3, <1>7, <2>4
  <1>8. CASE pass.at # "clear" \/ pass' = pass
    <2>1. status' = status \/ updateAccessControlStatus \/ updateStatus \/ clearAerospikeAccessControlStatus
      BY <1>0, StatusSteps
    <2>2. ~clearAerospikeAccessControlStatus
      BY <1>8 DEF clearAerospikeAccessControlStatus, Retry, Idle
    <2> QED BY <1>2, <1>4, <1>5, <1>6, <1>7, <1>8, <2>1, <2>2, AdminSteps
  <1> QED BY <1>1, <1>8

-----------------------------------------------------------------------------
(* Rest *)

\* At rest the servers hold the roles and users of the spec.
RestInv ==
    AtRest /\ spec.security =>
        /\ \A r \in DOMAIN spec.acl.roles : r \in DOMAIN server.roles /\ server.roles[r] = spec.acl.roles[r]
        /\ \A u \in DOMAIN spec.acl.users :
              /\ u \in DOMAIN server.users /\ server.users[u].roles = spec.acl.users[u].roles
              /\ spec.acl.users[u].mode = "Internal" =>
                    \/ spec.acl.users[u].secret \in rotated
                    \/ server.users[u].password = secrets[spec.acl.users[u].secret]

\* The operator comes to rest by reporting the spec, and stays at rest while
\* nothing but the secrets change.
LEMMA RestSteps ==
    ASSUME Sound, Steps, AtRest'
    PROVE  \/ AtRest /\ UNCHANGED <<spec, server>>
           \/ updateStatus /\ ~queued /\ pass.spec = spec /\ UNCHANGED <<spec, server, secrets, rotated>>
  <1>1. CASE updateStatus
    BY <1>1 DEF updateStatus, AtRest, Sound, ValidInv, Active, outside
  <1>2. CASE Edit
    BY <1>2 DEF Edit, AtRest
  <1>3. CASE WriteSecret \/ PodsFail \/ UNCHANGED vars
    BY <1>3 DEF WriteSecret, PodsFail, AtRest, vars
  <1>4. CASE recoverFailedCreate
    BY <1>4, GoesTo DEF recoverFailedCreate, AtRest, Sound, Stages
  <1>5. CASE updateAccessControlStatus
    <2>1. pass.at = "record" /\ GoTo(pass.ret)
      BY <1>5 DEF updateAccessControlStatus
    <2>2. pass.ret \in {"racks", "update"} /\ pass.ret \in Stages
      BY <2>1 DEF Sound, PassInv, InAcl, AclStages, Stages
    <2> QED BY <2>1, <2>2, GoesTo DEF AtRest, Sound
  <1>6. CASE \/ Interrupt \/ clearAerospikeAccessControlStatus \/ Quits \/ Begin \/ Walks \/ Enters \/ Advances
    BY <1>6 DEF Interrupt, clearAerospikeAccessControlStatus, Retry, Quits, Begin, Idle, Walks, Enters,
            Advances, AtRest
  <1>7. CASE (\E r \in Role : DropsRole(r) \/ SetsRole(r)) \/ (\E u \in User : DropsUser(u) \/ SetsUser(u))
    BY <1>7 DEF DropsRole, SetsRole, DropsUser, SetsUser, Calls, AtRest
  <1> QED BY <1>1, <1>2, <1>3, <1>4, <1>5, <1>6, <1>7 DEF Steps

\* Every step keeps what the servers hold at rest.
LEMMA NextRest ==
    ASSUME Sound, Steps, RestInv
    PROVE  RestInv'
  <1> SUFFICES ASSUME AtRest', spec'.security
               PROVE  RestInv'
    BY DEF RestInv
  <1>0. TypeOK /\ PassInv /\ StageInv /\ ValidInv /\ ReadInv /\ server \in Servers
    BY DEF Sound, TypeOK
  <1>1. CASE AtRest /\ UNCHANGED <<spec, server>>
    <2>1. ASSUME NEW u \in DOMAIN spec.acl.users, spec.acl.users[u].mode = "Internal"
          PROVE  \/ spec.acl.users[u].secret \in rotated'
                 \/ server.users[u].password = secrets'[spec.acl.users[u].secret]
      <3>1. /\ u \in DOMAIN server.users
            /\ spec.acl.users[u].secret \in rotated \/ server.users[u].password = secrets[spec.acl.users[u].secret]
        BY <1>1, <2>1 DEF RestInv
      <3>2. server.users[u].password # Missing
        BY <1>0, <3>1, NeverMissing
      <3>3. spec.acl.users[u].secret # NoSecret
        BY <1>0, <1>1, <2>1 DEF ValidInv, ValidSpec, ValidAcl, isUserSpecValid
      <3>4. spec.acl.users[u].secret \in Secret
        BY <1>0, <2>1, <3>3, PassTyped, AclFields DEF UserSpecs
      <3> QED BY <1>0, <3>1, <3>2, <3>4, StillHeld
    <2>2. AtRest /\ spec.security
      BY <1>1
    <2> QED BY <1>1, <2>1, <2>2 DEF RestInv
  <1>2. CASE updateStatus /\ pass.spec = spec /\ UNCHANGED <<spec, server, secrets, rotated>>
    <2>1. Applied /\ acl = spec.acl
      BY <1>2 DEF updateStatus, Applied, acl
    <2>2. /\ \A r \in DOMAIN acl.roles : RoleDone(r)
          /\ \A u \in DOMAIN acl.users : RolesGiven(u)
          /\ \A u \in DOMAIN acl.users : acl.users[u].mode = "Internal" =>
                acl.users[u].secret \in rotated \/ server.users[u].password = secrets[acl.users[u].secret]
      BY <1>0, <2>1 DEF StageInv, ReadInv
    <2> QED BY <1>2, <2>1, <2>2 DEF RestInv, RoleDone, RolesGiven
  <1> QED BY <1>1, <1>2, RestSteps

-----------------------------------------------------------------------------
(* The theorems *)

Whole == ConfigInv /\ FederalInv /\ RecordInv /\ PKIInv /\ LoginInv /\ RestInv

\* The invariant holds when the cluster is created.
LEMMA InitWhole ==
    ASSUME Init
    PROVE  Whole
  <1>1. /\ status = NoStatus /\ nodes = [n \in Node |-> NoNode] /\ server = FreshServer /\ pass = Idle
        /\ queued = TRUE /\ cause = {} /\ unrecorded = NoNames /\ turned = {}
        /\ \E s \in Scenarios : validateAccessControlCreate(s.spec) /\ spec = s.spec
    BY DEF Init, ValidateCreate
  <1>2. Idle.at = "idle" /\ NoStatus.acl = NoAcl /\ NoStatus.net = {} /\ NoNames.users = {} /\ NoNames.roles = {}
    BY DEF Idle, NoStatus, NoNames
  <1>3. ConfigInv
    BY <1>1, <1>2 DEF ConfigInv, NodesNew, Active, validateAccessControlCreate
  <1>4. FederalInv /\ RecordInv /\ PKIInv
    BY <1>1, <1>2, Initials DEF FederalInv, RecordInv, PKIInv, InAcl, AclStages
  <1>5. LoginInv /\ RestInv
    BY <1>1, <1>2, Initials DEF LoginInv, AdminLogin, RestInv, AtRest
  <1> QED BY <1>3, <1>4, <1>5 DEF Whole

\* The invariant holds in every state.
LEMMA WholeAlways == Spec => [](Sound /\ Whole)
  <1>1. Init => Whole
    BY InitWhole
  <1>2. Sound /\ Whole /\ [Next]_vars => Whole'
    BY NextSteps, NextConfig, NextFederal, NextRecord, NextPKI, NextLogin, NextRest DEF Whole
  <1> QED BY <1>1, <1>2, SoundAlways, PTL DEF Spec

\* The invariant says what the servers hold at rest.
LEMMA WholeApplied ==
    ASSUME Sound, Whole
    PROVE  RestMeansApplied
  <1> SUFFICES ASSUME AtRest, spec.security, cause = {}
               PROVE  RestMeansApplied
    BY DEF RestMeansApplied
  <1>0. RestInv /\ RecordInv /\ PKIInv /\ FederalInv /\ ValidInv /\ TypeOK
    BY DEF Whole, Sound
  <1>1. status = spec
    BY <1>0 DEF AtRest, ValidInv, Active
  <1>2. "admin" \in DOMAIN spec.acl.users
    BY <1>0 DEF ValidInv, ValidSpec, ValidAcl, isUserSpecValid
  <1>3. /\ \A r \in DOMAIN spec.acl.roles : r \in DOMAIN server.roles /\ server.roles[r] = spec.acl.roles[r]
        /\ \A u \in DOMAIN spec.acl.users :
              /\ u \in DOMAIN server.users /\ server.users[u].roles = spec.acl.users[u].roles
              /\ spec.acl.users[u].mode = "Internal" =>
                    \/ spec.acl.users[u].secret \in rotated
                    \/ server.users[u].password = secrets[spec.acl.users[u].secret]
    BY <1>0 DEF RestInv
  <1>4. DOMAIN server.roles \ unrecorded.roles = DOMAIN spec.acl.roles
    BY <1>0, <1>1, <1>3 DEF RecordInv
  <1>5. DOMAIN server.users \ unrecorded.users = DOMAIN spec.acl.users
    BY <1>0, <1>1, <1>2, <1>3 DEF RecordInv
  <1>6. \A u \in DOMAIN spec.acl.users : spec.acl.users[u].mode = "PKIOnly" =>
           IF env.federal THEN u = "admin" \/ server.users[u].password = EmptyPassword
           ELSE u \in turned \/ server.users[u].password = "nopassword"
    BY <1>0, <1>1, <1>3 DEF PKIInv, FederalInv, AtRest
  <1> QED BY <1>1, <1>3, <1>4, <1>5, <1>6 DEF RestMeansApplied

\* The invariant lets the operator log in between two passes.
LEMMA WholeAccess ==
    ASSUME Sound, Whole
    PROVE  OperatorKeepsAccess
  <1> SUFFICES ASSUME pass.at = "idle", ~failed, cause = {}, env.federal => "tls" \in spec.net,
                      status.acl # NoAcl => status.acl.users["admin"].secret \notin rotated,
                      NEW n \in Created
               PROVE  Accepts(n, spec)
    BY DEF OperatorKeepsAccess, Connects
  <1>0. ConfigInv /\ FederalInv /\ LoginInv /\ ValidInv /\ TypeOK /\ n \in Node /\ nodes[n].net # {}
    BY DEF Whole, Sound, Created
  <1>1. /\ ValidSpec(spec) /\ spec.net # {} /\ ValidAcl(status.acl) /\ Leads(status.acl, spec.acl)
        /\ status.net = {} => ~status.security
        /\ status.security => spec.acl # NoAcl
    BY <1>0 DEF ValidInv
  <1>2. nodes[n] = ConfigOf(spec) \/ (status.net # {} /\ nodes[n] = ConfigOf(status))
    BY SMT, <1>0 DEF ConfigInv, NodesNew, NoNode
  <1>3. status.net # {} => (status.net \subseteq spec.net \/ status.net = Ports)
                           /\ (hasPKIOnlyUser(spec) => "tls" \in status.net)
    BY <1>0 DEF ConfigInv, validateNetworkPortUpdate
  <1>4. spec.net \subseteq {"plain", "tls"} /\ status.net \subseteq {"plain", "tls"}
    BY <1>0 DEF TypeOK, Specs, Ports
  <1>5. nodes[n].net = spec.net \/ (status.net # {} /\ nodes[n].net = status.net)
    BY SMT, <1>2 DEF ConfigOf
  <1>6. getServicePort(spec) \in nodes[n].net
    BY <1>1, <1>3, <1>4, <1>5 DEF getServicePort, Ports
  <1>7. CASE AuthMode(env.federal) = "PKIOnly"
    <2>1. "tls" \in spec.net /\ (status.net # {} => "tls" \in status.net)
      <3>1. CASE status.acl # NoAcl
        <4>1. spec.acl # NoAcl /\ spec.acl.users["admin"].mode = "PKIOnly"
          BY <1>1, <1>7, <3>1 DEF AuthMode, Leads
        <4>2. hasPKIOnlyUser(spec)
          BY <1>1, <4>1 DEF ValidSpec, ValidAcl, isUserSpecValid, hasPKIOnlyUser
        <4> QED BY <1>1, <1>3, <4>2 DEF ValidSpec, validateClientCertSpec
      <3>2. CASE status.acl = NoAcl
        BY <1>0, <1>7, <3>2 DEF AuthMode, FederalInv
      <3> QED BY <3>1, <3>2
    <2>2. getServicePort(spec) = "tls"
      BY <1>4, <2>1 DEF getServicePort
    <2> QED BY <1>6, <1>7, <2>2 DEF Accepts
  <1>8. CASE AuthMode(env.federal) # "PKIOnly"
    <2>1. ~env.federal
      BY <1>1, <1>8 DEF AuthMode, ValidAcl, isUserSpecValid
    <2>2. AdminLogin
      BY <1>0, <2>1 DEF LoginInv, AdminInFlight
    <2>3. nodes[n].security => spec.acl # NoAcl
      BY SMT, <1>1, <1>2 DEF ConfigOf, ValidSpec
    <2>4. CASE status.acl = NoAcl
      <3>1. spec.acl # NoAcl => AerospikeAdminCredentials(spec) = DefaultPassword
        BY <2>1, <2>4 DEF AerospikeAdminCredentials
      <3> QED BY <1>6, <1>8, <2>2, <2>3, <2>4, <3>1 DEF Accepts, AdminLogin
    <2>5. CASE status.acl # NoAcl
      <3>1. status.acl.users["admin"].mode # "PKIOnly" /\ status.acl.users["admin"].mode = "Internal"
        <4>1. "admin" \in DOMAIN status.acl.users
          BY <1>1, <2>5 DEF ValidAcl, isUserSpecValid
        <4>2. status.acl.users["admin"].mode \in {"Internal", "PKIOnly"}
          BY <1>0, <4>1, PassTyped, AclFields DEF UserSpecs
        <4> QED BY <1>8, <2>5, <4>2 DEF AuthMode
      <3>2. spec.acl # NoAcl => AerospikeAdminCredentials(spec) = SecretPassword(status.acl, "admin")
        BY <2>1, <2>5, <3>1 DEF AerospikeAdminCredentials
      <3> QED BY <1>6, <1>8, <2>2, <2>3, <2>5, <3>1, <3>2 DEF Accepts, AdminLogin, SecretPassword
    <2> QED BY <2>4, <2>5
  <1> QED BY <1>7, <1>8

\* When the operator has nothing left to do and nothing has cut its access, the
\* servers hold exactly the roles and users of the spec, with their roles and
\* passwords, save what the history variables name: reconcileRoles and
\* reconcileUsers drop what the status reports and create what the spec has.
THEOREM RestApplied == Spec => []RestMeansApplied
  <1>1. Sound /\ Whole => RestMeansApplied
    BY WholeApplied
  <1> QED BY <1>1, WholeAlways, PTL

\* Whenever a pass is about to start, the port, the user and the password the
\* operator takes from spec and status are accepted by every server, unless one
\* of the events OperatorKeepsAccess names has happened: getServicePort picks a
\* port both configurations have, and the admin user of the status logs in.
THEOREM AccessKept == Spec => []OperatorKeepsAccess
  <1>1. Sound /\ Whole => OperatorKeepsAccess
    BY WholeAccess
  <1> QED BY <1>1, WholeAlways, PTL
=============================================================================

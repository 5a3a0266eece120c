---------------------------- MODULE AdminGateway ----------------------------
(***************************************************************************)
(* backend/services/admin: the accounts of the operators, their tokens,    *)
(* and the gateway that lets them through to the other services according  *)
(* to a permission matrix.  No code changes the role of an account or      *)
(* disables one; that is done in the database, at any moment, while tokens *)
(* that carry the old role are out and requests are on their way.          *)
(*                                                                         *)
(* The routes of the services are registered inside /admin under names     *)
(* that begin with /admin again, so the gateway answers                    *)
(* /admin/admin/kyc/..., for which the matrix, looked up by the whole      *)
(* path, has no rule and the proxy strips no prefix.                       *)
(*                                                                         *)
(* Abstracted: passwords, the signature of tokens, the content and the     *)
(* answers of the services, and what an API key is for: nothing reads one. *)
(***************************************************************************)
EXTENDS Faults

CONSTANTS
    Operators,        \* e-mail addresses of admin.users
    GatewayRequests,
    MaxChanges        \* bound on changes in the database, for model checking only

ASSUME AdminAssumption == MaxChanges \in Nat

VARIABLES
    admins,      \* admin.users: operator -> [role, active]
    adminTokens, \* tokens not expired, as [user, role]
    gateway,     \* request -> [stage, user, path, safe, role], role as the claims have it
    checkedAs,   \* history: request -> the role its user had then, none if disabled
    apiKeys,     \* admin.api_keys, as the request that made each
    changes      \* roles changed and accounts disabled so far

adminVars == <<admins, adminTokens, gateway, checkedAs, apiKeys, changes>>

Roles == {"super_admin", "ops", "compliance_viewer", "viewer"}
NoAdmin == [role |-> "none", active |-> FALSE]
Idling == [stage |-> "idle", user |-> "none", path |-> <<>>, safe |-> FALSE, role |-> "none"]

\* Two of the eight route groups; each of the others has the rule of one of these.
permissionMap ==
    [kyc    |-> [write |-> {"super_admin"}, read |-> {"compliance_viewer", "viewer"}],
     orders |-> [write |-> {"super_admin", "ops"}, read |-> {"viewer"}]]

\* A path, as how often it begins with /admin, and the route group that follows.
Paths == {1, 2} \X (DOMAIN permissionMap)
KeysPath == <<1, "api-keys">>

\* A disabled account has no role.
RoleOf(u) == IF admins[u].active THEN admins[u].role ELSE "none"

Permits(rule, role, safe) == role \in rule.write \/ (safe /\ role \in rule.read)

-----------------------------------------------------------------------------
\* POST /admin/bootstrap, for whoever has the master secret; the address is unique.
bootstrap ==
    /\ \E u \in Operators, role \in Roles :
          /\ admins[u] = NoAdmin
          /\ admins' = [admins EXCEPT ![u] = [role |-> role, active |-> TRUE]]
    /\ UNCHANGED <<adminTokens, gateway, checkedAs, apiKeys, changes, faults>>

\* POST /admin/login with the right password.
loginAdmin ==
    /\ \E u \in Operators :
          /\ admins[u].active
          /\ adminTokens' = adminTokens \cup {[user |-> u, role |-> admins[u].role]}
    /\ UNCHANGED <<admins, gateway, checkedAs, apiKeys, changes, faults>>

\* Eight hours after it was issued.
TokenExpires ==
    /\ \E t \in adminTokens : adminTokens' = adminTokens \ {t}
    /\ UNCHANGED <<admins, gateway, checkedAs, apiKeys, changes, faults>>

\* External: UPDATE admin.users.
AdminChanges ==
    /\ changes < MaxChanges /\ changes' = changes + 1
    /\ \E u \in Operators, role \in Roles, active \in BOOLEAN :
          /\ admins[u] # NoAdmin
          /\ admins' = [admins EXCEPT ![u] = [role |-> role, active |-> active]]
    /\ UNCHANGED <<adminTokens, gateway, checkedAs, apiKeys, faults>>

-----------------------------------------------------------------------------
(* A request through the gateway *)

\* Slip, for the mutation runs: the claims keep the role the token was issued with.
requireAdminJWTOfToken(g) ==
    /\ gateway[g].stage = "idle"
    /\ \E t \in adminTokens, path \in Paths \cup {KeysPath}, safe \in BOOLEAN :
          /\ path = KeysPath \/ path[1] = 2
          /\ admins[t.user].active
          /\ gateway' = [gateway EXCEPT ![g] =
                [stage |-> "claims", user |-> t.user, path |-> path, safe |-> safe, role |-> t.role]]
          /\ checkedAs' = [checkedAs EXCEPT ![g] = RoleOf(t.user)]
    /\ UNCHANGED <<admins, adminTokens, apiKeys, changes, faults>>

\* The account is read again, and the claims get the role it has now.  A path that has
\* no route, and one that begins with /admin once has none, is not found, whoever asks.
requireAdminJWT(g) ==
    /\ gateway[g].stage = "idle"
    /\ \E t \in adminTokens, path \in Paths \cup {KeysPath}, safe \in BOOLEAN :
          /\ path = KeysPath \/ path[1] = 2
          /\ admins[t.user].active
          /\ gateway' = [gateway EXCEPT ![g] =
                [stage |-> "claims", user |-> t.user, path |-> path, safe |-> safe,
                 role |-> admins[t.user].role]]
          /\ checkedAs' = [checkedAs EXCEPT ![g] = RoleOf(t.user)]
    /\ UNCHANGED <<admins, adminTokens, apiKeys, changes, faults>>

\* Rules are named by a path that begins with /admin once.
matchRouteRule(path) ==
    IF path[1] = 1 THEN permissionMap[path[2]] ELSE [write |-> {}, read |-> {}]

rbacMiddleware(g) ==
    /\ gateway[g].stage = "claims" /\ gateway[g].path \in Paths
    /\ gateway' = [gateway EXCEPT ![g].stage =
          IF \/ gateway[g].role = "super_admin"
             \/ Permits(matchRouteRule(gateway[g].path), gateway[g].role, gateway[g].safe)
          THEN "forwarded" ELSE "forbidden"]
    /\ UNCHANGED <<admins, adminTokens, checkedAs, apiKeys, changes, faults>>

\* POST and GET /admin/api-keys, for super_admin only.
createAPIKey(g) ==
    /\ gateway[g].stage = "claims" /\ gateway[g].path = KeysPath
    /\ IF gateway[g].role # "super_admin"
       THEN gateway' = [gateway EXCEPT ![g].stage = "forbidden"] /\ UNCHANGED <<apiKeys, faults>>
       ELSE /\ gateway' = [gateway EXCEPT ![g].stage = "answered"]
            /\ \/ gateway[g].safe /\ UNCHANGED <<apiKeys, faults>>
               \/ ~gateway[g].safe /\ apiKeys' = apiKeys \cup {g} /\ UNCHANGED faults
               \/ ~gateway[g].safe /\ Fault /\ UNCHANGED apiKeys
    /\ UNCHANGED <<admins, adminTokens, checkedAs, changes>>

\* The service answers, or is unavailable.
proxied(g) ==
    /\ gateway[g].stage = "forwarded"
    /\ gateway' = [gateway EXCEPT ![g].stage = "answered"]
    /\ UNCHANGED <<admins, adminTokens, checkedAs, apiKeys, changes, faults>>

AdminInit ==
    /\ admins = [u \in Operators |-> NoAdmin]
    /\ adminTokens = {} /\ apiKeys = {} /\ changes = 0
    /\ gateway = [g \in GatewayRequests |-> Idling]
    /\ checkedAs = [g \in GatewayRequests |-> "none"]

AdminNext ==
    \/ bootstrap \/ loginAdmin \/ TokenExpires \/ AdminChanges
    \/ \E g \in GatewayRequests :
          requireAdminJWT(g) \/ rbacMiddleware(g) \/ createAPIKey(g) \/ proxied(g)

AdminSpec == AdminInit /\ faults = 0 /\ [][AdminNext]_<<adminVars, faults>>

-----------------------------------------------------------------------------
(* Properties *)

AdminTypeOK ==
    /\ admins \in [Operators -> [role : Roles, active : BOOLEAN] \cup {NoAdmin}]
    /\ adminTokens \subseteq [user : Operators, role : Roles]
    /\ gateway \in [GatewayRequests ->
          [stage : {"claims", "forwarded", "forbidden", "answered"}, user : Operators,
           path : Paths \cup {KeysPath}, safe : BOOLEAN, role : Roles] \cup {Idling}]
    /\ checkedAs \in [GatewayRequests -> Roles \cup {"none"}]
    /\ apiKeys \subseteq GatewayRequests
    /\ changes \in 0..MaxChanges /\ faults \in Nat

\* Whatever roles are given and taken, and accounts disabled, while tokens that say
\* otherwise are out: what the gateway lets through, and each API key, is permitted by the
\* matrix to the role its user had in the database when the request came in, not to the
\* role in the token; a user disabled by then had none.
GatewayFollowsTheDatabase ==
    /\ \A g \in GatewayRequests :
          /\ gateway[g].stage \in {"forwarded", "answered"}
          /\ gateway[g].path # KeysPath
          => Permits(permissionMap[gateway[g].path[2]], checkedAs[g], gateway[g].safe)
    /\ \A g \in apiKeys : checkedAs[g] = "super_admin"
=============================================================================

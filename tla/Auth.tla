-------------------------------- MODULE Auth --------------------------------
(***************************************************************************)
(* backend/services/auth: accounts, and the token pairs it signs for them; *)
(* and backend/pkg/jwtverify, with which the other services read an access *)
(* token.  Outside local development both load their keys from files, each *)
(* when its process starts, and an operator may rotate the files between.  *)
(*                                                                         *)
(* The repository has two schemas of auth.users, and the unique index      *)
(* differs: the one docker-compose and staging mount compares the address  *)
(* as it is written, the migration its lower case.                         *)
(*                                                                         *)
(* Abstracted: passwords and their hashes (a login gives the right one, or *)
(* is refused and changes nothing), the other claims of a token, and local *)
(* development, where keys are ephemeral and the services verify nothing.  *)
(***************************************************************************)
EXTENDS Faults, FiniteSets

CONSTANTS
    Registrations, \* POST /auth/register requests, each with the id of its account
    People,        \* each has an address, which can be written in two ways
    AccessTTL, RefreshTTL,
    MaxClock, MaxKeys  \* bounds on the clock and on the key pairs, for model checking only

ASSUME AuthAssumption ==
    /\ AccessTTL \in Nat /\ RefreshTTL \in Nat /\ MaxClock \in Nat /\ MaxKeys \in Nat \ {0}
    /\ "none" \notin People

VARIABLES
    accounts,     \* auth.users: id -> address
    registration, \* registration -> [stage, address]
    userEvents,   \* accounts announced as gold.user.registered
    pairs,        \* token pairs signed, as [user, iat, key]
    keyFiles,     \* [private, public]: the key pair each PEM file is of
    manager,      \* [private, public]: what authd has loaded
    signingSince, \* history: when authd began to sign with the key it has
    verifier,     \* the public key another service has loaded
    authClock,
    emailIndex    \* what the unique index of the schema that is deployed compares

keyVars == <<keyFiles, manager, signingSince, verifier>>
authVars == <<accounts, registration, userEvents, pairs, keyVars, authClock, emailIndex>>

Addresses == [person : People, spelling : {"lower", "mixed"}]
NoAddress == [person |-> "none", spelling |-> "none"]
NoRegistration == [stage |-> "idle", address |-> NoAddress]

Holders == {a \in Registrations : accounts[a] # NoAddress}

\* UNIQUE (email) of docker/postgres, or UNIQUE (lower(email)) of the migration.
SameToIndex(x, y) == x = y \/ (emailIndex = "lower" /\ x.person = y.person)

-----------------------------------------------------------------------------
(* Tokens *)

issuePair(user) == pairs' = pairs \cup {[user |-> user, iat |-> authClock, key |-> manager.private]}

TTL == [access |-> AccessTTL, refresh |-> RefreshTTL]

\* Slip, for the mutation runs: authd alone honours the key before as well.
verifyPreviousToo(p, type, expected, key) ==
    p.key \in {key, key - 1} /\ authClock < p.iat + TTL[type] /\ type = expected

\* The signature is by the key's private half, the token has not expired, and is of
\* the type expected.
verify(p, type, expected, key) ==
    p.key = key /\ authClock < p.iat + TTL[type] /\ type = expected

\* GET /auth/me with a token of the pair: requireAuth, then the account.
me(p, type) ==
    verify(p, type, "access", manager.public) /\ accounts[p.user] # NoAddress

\* What every other service makes of it; it does not know the accounts.
VerifyAccess(p, type) ==
    p.key = verifier /\ authClock < p.iat + TTL[type] /\ type = "access"

-----------------------------------------------------------------------------
(* Requests *)

register(r) ==
    /\ registration[r].stage = "idle"
    /\ \E address \in Addresses :
          registration' = [registration EXCEPT ![r] = [stage |-> "create", address |-> address]]
    /\ UNCHANGED <<accounts, userEvents, pairs, keyVars, authClock, faults>>

\* Slip, for the mutation runs: the spelling decides, whatever the index compares.
InsertUserBySpelling(r) ==
    /\ registration[r].stage = "create"
    /\ IF \A a \in Holders : accounts[a] # registration[r].address
       THEN /\ accounts' = [accounts EXCEPT ![r] = registration[r].address]
            /\ registration' = [registration EXCEPT ![r].stage = "publish"]
       ELSE /\ registration' = [registration EXCEPT ![r].stage = "done"]
            /\ UNCHANGED accounts
    /\ UNCHANGED <<userEvents, pairs, keyVars, authClock, faults>>

\* Only the unique index decides; its violation is answered with email_taken.
InsertUser(r) ==
    /\ registration[r].stage = "create"
    /\ IF \A a \in Holders : ~SameToIndex(accounts[a], registration[r].address)
       THEN /\ accounts' = [accounts EXCEPT ![r] = registration[r].address]
            /\ registration' = [registration EXCEPT ![r].stage = "publish"]
       ELSE /\ registration' = [registration EXCEPT ![r].stage = "done"]
            /\ UNCHANGED accounts
    /\ UNCHANGED <<userEvents, pairs, keyVars, authClock, faults>>

\* An error of the publication is only logged.
publishUserRegistered(r) ==
    /\ registration[r].stage = "publish"
    /\ \/ userEvents' = userEvents \cup {r} /\ UNCHANGED faults
       \/ UNCHANGED userEvents /\ Fault
    /\ registration' = [registration EXCEPT ![r].stage = "issue"]
    /\ UNCHANGED <<accounts, pairs, keyVars, authClock>>

registered(r) ==
    /\ registration[r].stage = "issue"
    /\ issuePair(r)
    /\ registration' = [registration EXCEPT ![r].stage = "done"]
    /\ UNCHANGED <<accounts, userEvents, keyVars, authClock, faults>>

\* A statement fails, or the process dies, in the middle of a registration.
RegistrationFails(r) ==
    /\ registration[r].stage \in {"create", "publish", "issue"}
    /\ Fault
    /\ registration' = [registration EXCEPT ![r].stage = "done"]
    /\ UNCHANGED <<accounts, userEvents, pairs, keyVars, authClock>>

\* SELECT ... WHERE email = $1: only the spelling that was registered logs in.
login ==
    /\ \E address \in Addresses, a \in Registrations : accounts[a] = address /\ issuePair(a)
    /\ UNCHANGED <<accounts, registration, userEvents, keyVars, authClock, faults>>

\* The refresh token is not used up.
refresh ==
    /\ \E p \in pairs, type \in {"access", "refresh"} :
          /\ verify(p, type, "refresh", manager.public)
          /\ accounts[p.user] # NoAddress
          /\ issuePair(p.user)
    /\ UNCHANGED <<accounts, registration, userEvents, keyVars, authClock, faults>>

-----------------------------------------------------------------------------
(* Operation *)

\* External: an operator replaces the key files by the next pair, one at a time, in
\* either order.
Rotate ==
    /\ \E half \in {"private", "public"} :
          /\ keyFiles[half] <= keyFiles.private /\ keyFiles[half] <= keyFiles.public
          /\ keyFiles[half] < MaxKeys
          /\ keyFiles' = [keyFiles EXCEPT ![half] = @ + 1]
    /\ UNCHANGED <<accounts, registration, userEvents, pairs, manager, signingSince, verifier, authClock, faults>>

\* authd, or the other service, restarts and reads the files as they are.  What a
\* replacement between authd's two reads gives, a start between the two gives as well.
NewManager ==
    /\ manager # keyFiles
    /\ manager' = keyFiles
    /\ signingSince' = IF manager.private = keyFiles.private THEN signingSince ELSE authClock
    /\ UNCHANGED <<accounts, registration, userEvents, pairs, keyFiles, verifier, authClock, faults>>

NewVerifier ==
    /\ verifier # keyFiles.public
    /\ verifier' = keyFiles.public
    /\ UNCHANGED <<accounts, registration, userEvents, pairs, keyFiles, manager, signingSince, authClock, faults>>

AuthTick ==
    /\ authClock < MaxClock
    /\ authClock' = authClock + 1
    /\ UNCHANGED <<accounts, registration, userEvents, pairs, keyVars, faults>>

AuthInit ==
    /\ accounts = [r \in Registrations |-> NoAddress]
    /\ registration = [r \in Registrations |-> NoRegistration]
    /\ userEvents = {} /\ pairs = {} /\ authClock = 0
    /\ keyFiles = [private |-> 1, public |-> 1]
    /\ manager = keyFiles /\ verifier = keyFiles.public /\ signingSince = 0
    /\ emailIndex \in {"spelling", "lower"}

AuthStep ==
    \/ \E r \in Registrations :
          \/ register(r) \/ InsertUser(r) \/ publishUserRegistered(r) \/ registered(r)
          \/ RegistrationFails(r)
    \/ login \/ refresh
    \/ Rotate \/ NewManager \/ NewVerifier \/ AuthTick

AuthNext == AuthStep /\ UNCHANGED emailIndex

AuthSpec == AuthInit /\ faults = 0 /\ [][AuthNext]_<<authVars, faults>>

-----------------------------------------------------------------------------
(* Properties *)

AuthTypeOK ==
    LET keys == 1..MaxKeys
    IN  /\ accounts \in [Registrations -> Addresses \cup {NoAddress}]
        /\ registration \in
              [Registrations -> [stage : {"create", "publish", "issue", "done"}, address : Addresses]
                                \cup {NoRegistration}]
        /\ userEvents \subseteq Registrations
        /\ pairs \subseteq [user : Registrations, iat : 0..MaxClock, key : keys]
        /\ keyFiles \in [private : keys, public : keys]
        /\ manager \in [private : keys, public : keys]
        /\ verifier \in keys /\ authClock \in 0..MaxClock /\ faults \in Nat
        /\ signingSince \in 0..authClock /\ emailIndex \in {"spelling", "lower"}

\* However registrations and logins race and fail: an address as it is spelled has one
\* account, so that a login means one user, and the person who writes it has one under
\* the migration's index, and only there; tokens are signed for accounts only; and an
\* account is announced unless its registration is still at it or a failure cost it that.
AccountsFollowTheIndex ==
    /\ \A a, b \in Holders : accounts[a] = accounts[b] => a = b
    /\ emailIndex = "lower" =>
          \A a, b \in Holders : accounts[a].person = accounts[b].person => a = b
    /\ \A p \in pairs : p.user \in Holders
    /\ userEvents \subseteq Holders
    /\ Cardinality({a \in Holders \ userEvents : registration[a].stage # "publish"}) <= faults

\* Whatever files are replaced and whichever processes restart, halfway through a
\* rotation too: a token of a key that authd no longer signs with opens authd and every
\* other service, restarted or not, for at most the life of an access token after authd
\* changed its key, and a new pair for at most the life of a refresh token.  A service
\* that has the key authd verifies with accepts exactly the tokens authd accepts.
SupersededKeysFade ==
    \A p \in pairs, type \in {"access", "refresh"} :
        /\ p.key # manager.private =>
              /\ VerifyAccess(p, type) \/ me(p, type) => authClock < signingSince + AccessTTL
              /\ verify(p, type, "refresh", manager.public) => authClock < signingSince + RefreshTTL
        /\ verifier = manager.public => VerifyAccess(p, type) = me(p, type)
=============================================================================

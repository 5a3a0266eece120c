------------------------------ MODULE Wallets ------------------------------
(***************************************************************************)
(* backend/services/wallet, what Bookkeeping leaves out: which address a   *)
(* user gets from POST /wallet/address, and in whose log a mint to an      *)
(* address, or a burn from it, is recorded.                                *)
(*                                                                         *)
(* Abstracted: a request generates its own key, so that an address is the  *)
(* request that made it; balances; paging.  Payments stand for the         *)
(* messages of both durables, whose handlers differ in the field they read.*)
(***************************************************************************)
EXTENDS Faults

CONSTANTS
    Owners,
    AddressCalls,   \* POST /wallet/address requests
    Payments        \* mint.executed and burn.executed messages

ASSUME WalletAssumption ==
    "none" \notin Owners \cup AddressCalls /\ "elsewhere" \notin AddressCalls

VARIABLES
    wallets,        \* wallet.wallets: owner -> address, or "none"
    addressCall,    \* request -> [stage, owner, answer]
    payment,        \* message -> [stage, to, spelling, owner]
    transactions    \* wallet.transaction_log, as [payment, owner]

walletVars == <<wallets, addressCall, payment, transactions>>

NoAddressCall == [stage |-> "idle", owner |-> "none", answer |-> "none"]
NoPayment == [stage |-> "idle", to |-> "none", spelling |-> "checksum", owner |-> "none"]

Answer(c, address) ==
    addressCall' = [addressCall EXCEPT ![c].stage = "answered", ![c].answer = address]

CallFails(c) == addressCall' = [addressCall EXCEPT ![c].stage = "failed"] /\ Fault

PaymentIs(m, stage) == payment' = [payment EXCEPT ![m].stage = stage]

\* lower(address) = lower($1): how it is spelled does not matter.
ByAddress(to, spelling) == {u \in Owners : wallets[u] # "none" /\ wallets[u] = to}

-----------------------------------------------------------------------------
(* POST /wallet/address *)

\* The address the user has, or a new key.
createAddress(c) ==
    /\ addressCall[c] = NoAddressCall
    /\ \E u \in Owners :
          addressCall' = [addressCall EXCEPT ![c] =
             IF wallets[u] # "none" THEN [stage |-> "answered", owner |-> u, answer |-> wallets[u]]
                                    ELSE [stage |-> "create", owner |-> u, answer |-> "none"]]
    /\ UNCHANGED <<faults, wallets, payment, transactions>>

\* UNIQUE (user_id): another request may have been first.
InsertWallet(c) ==
    /\ addressCall[c].stage = "create"
    /\ LET u == addressCall[c].owner
       IN  \/ /\ wallets[u] = "none"
              /\ wallets' = [wallets EXCEPT ![u] = c]
              /\ (Answer(c, c) /\ UNCHANGED faults) \/ CallFails(c)
           \/ /\ wallets[u] # "none"
              /\ addressCall' = [addressCall EXCEPT ![c].stage = "refetch"]
              /\ UNCHANGED <<wallets, faults>>
           \/ CallFails(c) /\ UNCHANGED wallets
    /\ UNCHANGED <<payment, transactions>>

\* The other request's address; an error of this query is ignored, and the answer empty.
refetch(c) ==
    /\ addressCall[c].stage = "refetch"
    /\ \/ Answer(c, wallets[addressCall[c].owner]) /\ UNCHANGED faults
       \/ Answer(c, "none") /\ Fault
    /\ UNCHANGED <<wallets, payment, transactions>>

-----------------------------------------------------------------------------
(* mint.executed and burn.executed *)

\* External: a mint goes to an address the service has given out, or, like the sender
\* of a burn, to one it does not know.
GivenOut ==
    ({wallets[u] : u \in Owners} \cup {addressCall[c].answer : c \in AddressCalls}) \ {"none"}

Pay(m) ==
    /\ payment[m] = NoPayment
    /\ \E to \in GivenOut \cup {"elsewhere"}, spelling \in {"checksum", "lower"} :
          payment' = [payment EXCEPT ![m] =
                        [stage |-> "lookup", to |-> to, spelling |-> spelling, owner |-> "none"]]
    /\ UNCHANGED <<faults, wallets, addressCall, transactions>>

\* No wallet, or an error of the query for it: the message is acknowledged.
lookupWallet(m) ==
    /\ payment[m].stage = "lookup"
    /\ LET found == ByAddress(payment[m].to, payment[m].spelling)
       IN  \/ \E u \in found : payment' = [payment EXCEPT ![m].stage = "record", ![m].owner = u]
              /\ UNCHANGED faults
           \/ found = {} /\ PaymentIs(m, "skipped") /\ UNCHANGED faults
           \/ PaymentIs(m, "skipped") /\ Fault
    /\ UNCHANGED <<wallets, addressCall, transactions>>

\* ON CONFLICT (tx_hash, event_type) DO NOTHING.  A message whose handler fails before
\* or after it comes again.
InsertTransaction(m) ==
    /\ payment[m].stage = "record"
    /\ \/ /\ transactions' = IF \E t \in transactions : t.payment = m THEN transactions
                             ELSE transactions \cup {[payment |-> m, owner |-> payment[m].owner]}
          /\ (PaymentIs(m, "recorded") /\ UNCHANGED faults) \/ (PaymentIs(m, "lookup") /\ Fault)
       \/ UNCHANGED transactions /\ PaymentIs(m, "lookup") /\ Fault
    /\ UNCHANGED <<wallets, addressCall>>

-----------------------------------------------------------------------------
WalletInit ==
    /\ wallets = [u \in Owners |-> "none"]
    /\ addressCall = [c \in AddressCalls |-> NoAddressCall]
    /\ payment = [m \in Payments |-> NoPayment]
    /\ transactions = {}

WalletNext ==
    \/ \E c \in AddressCalls : createAddress(c) \/ InsertWallet(c) \/ refetch(c)
    \/ \E m \in Payments : Pay(m) \/ lookupWallet(m) \/ InsertTransaction(m)

WalletSpec == WalletInit /\ faults = 0 /\ [][WalletNext]_<<faults, walletVars>>

-----------------------------------------------------------------------------
(* Properties *)

\* The state is well typed.
WalletTypeOK ==
    /\ wallets \in [Owners -> AddressCalls \cup {"none"}]
    /\ addressCall \in [AddressCalls ->
         [stage : {"idle", "create", "refetch", "answered", "failed"},
          owner : Owners \cup {"none"}, answer : AddressCalls \cup {"none"}]]
    /\ payment \in [Payments ->
         [stage : {"idle", "lookup", "record", "recorded", "skipped"},
          to : AddressCalls \cup {"none", "elsewhere"}, spelling : {"checksum", "lower"},
          owner : Owners \cup {"none"}]]
    /\ transactions \subseteq [payment : Payments, owner : Owners]
    /\ faults \in Nat

ListByUserID(u) == {t \in transactions : t.owner = u}

\* GET /wallet/transactions.
listTransactions(u) == {t.payment : t \in ListByUserID(u)}

\* However requests for an address race, all that are answered for a user name the one
\* it keeps, nobody else's; and a payment to an address that was given out is, once its
\* message is done with, in its owner's list and in no other's.  Only a failure
\* leaves an answer empty or a payment out.
PaymentsReachTheirOwner ==
    /\ \A c \in AddressCalls : addressCall[c].stage = "answered" =>
          \/ addressCall[c].answer = wallets[addressCall[c].owner] /\ addressCall[c].answer # "none"
          \/ addressCall[c].answer = "none" /\ faults > 0
    /\ \A u, v \in Owners : wallets[u] = wallets[v] /\ wallets[u] # "none" => u = v
    /\ \A m \in Payments, u \in Owners : m \in listTransactions(u) => payment[m].to = wallets[u]
    /\ \A m \in Payments :
          /\ payment[m].stage = "recorded" => \E u \in Owners : m \in listTransactions(u)
          /\ payment[m].stage = "skipped" => payment[m].to = "elsewhere" \/ faults > 0
=============================================================================

----------------------------- MODULE VendorGrants -----------------------------
(***************************************************************************)
(* A person connects their own account at a vendor, and Bots call the      *)
(* vendor's tools with it: server/src/plugins/store.ts. The vault holds a  *)
(* refresh token per connection; every call, on any replica, spends it for *)
(* an access token, and a rotating vendor kills the token it was shown and *)
(* takes a second showing for a theft. Meanwhile people connect again, an  *)
(* administrator removes them, and the vendor forgets the client this      *)
(* deployment registered for itself. One vendor.                           *)
(***************************************************************************)
EXTENDS Integers

CONSTANTS
  People,
  Consents, Asker,   \* the times somebody goes off to consent, and who
  Calls, Caller,     \* the tool calls, and who each is made for
  None,
  MaxRotations,      \* bound on how often the vendor rotates one grant
  MaxClients         \* bound on the clients registered

ASSUME GrantsAssumption ==
  /\ Asker \in [Consents -> People] /\ Caller \in [Calls -> People]
  /\ None \notin People \union Consents \union Calls
  /\ MaxRotations \in Nat /\ MaxClients \in Nat

VARIABLES
  consent,       \* per consent: how far it got
  named,         \* per consent: the client its consent screen named
  vault, secret, \* per consent: the credential it was stored as, and the token in it
  held,          \* per person: the credential their connection names (mcp_user_credentials)
  client,        \* the client the deployment holds; they are numbered as they are registered
  young,         \* those stored less than the backoff ago
  lock,          \* per credential: the call whose transaction has the row
  call,          \* per call: how far it got
  using,         \* per call: the client it read
  row, token,    \* per call: the credential it is about, and the token it read there
  denied,        \* the people removed
  retiring,      \* per person: how far the retirement of what they granted got
  owned,         \* per person: the credentials it still has to revoke
  family,        \* at the vendor, per consent: none, good, or revoked for a theft
  current, boundTo,   \* the one token it takes, and the client it was issued to
  registered,    \* how many clients it has registered
  honoured,      \* those it still knows
  slipped,       \* consents of which an exchange was sent and its outcome not kept (history)
  underway       \* consents let in and not yet stored when their person's were listed (history)

deployment == <<consent, named, vault, secret, held>>
clients    == <<client, young, registered, honoured>>
calls      == <<call, using, row, token>>
removal    == <<denied, retiring, owned>>
vendor     == <<family, current, boundTo>>
history    == <<slipped, underway>>
vars       == <<deployment, clients, lock, calls, removal, vendor, history>>

Live(p) == { f \in Consents : vault[f] = "live" /\ Asker[f] = p }

Init ==
  /\ consent = [f \in Consents |-> "none"] /\ named = [f \in Consents |-> 0]
  /\ vault = [f \in Consents |-> "absent"] /\ secret = [f \in Consents |-> 0]
  /\ held = [p \in People |-> None]
  /\ client = 0 /\ young = {} /\ registered = 0 /\ honoured = {}
  /\ lock = [f \in Consents |-> None]
  /\ call = [c \in Calls |-> "none"] /\ using = [c \in Calls |-> 0]
  /\ row = [c \in Calls |-> None] /\ token = [c \in Calls |-> 0]
  /\ denied = {} /\ retiring = [p \in People |-> "no"] /\ owned = [p \in People |-> {}]
  /\ family = [f \in Consents |-> "none"] /\ current = [f \in Consents |-> 0]
  /\ boundTo = [f \in Consents |-> 0]
  /\ slipped = {} /\ underway = {}

-----------------------------------------------------------------------------
(* Connecting.                                                             *)
(* ensureOAuthClient: the lock is held across the registration, so that    *)
(* asking whether there is a client and storing one is one step.           *)
Connect(f) ==
  /\ consent[f] = "none" /\ Asker[f] \notin denied
  /\ consent' = [consent EXCEPT ![f] = "away"]
  /\ \/ /\ client # 0
        /\ named' = [named EXCEPT ![f] = client]
        /\ UNCHANGED clients
     \/ /\ client = 0 /\ registered < MaxClients
        /\ registered' = registered + 1 /\ honoured' = honoured \union {registered'}
        /\ client' = registered' /\ young' = young \union {registered'}
        /\ named' = [named EXCEPT ![f] = registered']
  /\ UNCHANGED <<vault, secret, held, lock, calls, removal, vendor, history>>

\* Mutant: nobody asks whether the person is still here.
HasAccessAlways(p) == TRUE

\* personHasAccess.
HasAccess(p) == p \notin denied

\* The callback lets in whoever still has access.
ComeBack(f) ==
  /\ consent[f] = "away"
  /\ consent' = [consent EXCEPT ![f] = IF HasAccess(Asker[f]) THEN "checked" ELSE "refused"]
  /\ UNCHANGED <<named, vault, secret, held, clients, lock, calls, removal, vendor, history>>

(* Redeemed with the client the deployment holds now; a code is good for   *)
(* the client it was issued to.                                            *)
Redeem(f) ==
  /\ consent[f] = "checked"
  /\ \/ /\ named[f] = client /\ client \in honoured
        /\ consent' = [consent EXCEPT ![f] = "granted"]
        /\ family' = [family EXCEPT ![f] = "good"] /\ boundTo' = [boundTo EXCEPT ![f] = client]
     \/ consent' = [consent EXCEPT ![f] = "refused"] /\ UNCHANGED <<family, boundTo>>
  /\ UNCHANGED <<named, vault, secret, held, clients, lock, calls, removal, current, history>>

\* Mutant: the grant the new one replaces stays.
SwappedBeside(f) == [vault EXCEPT ![f] = "live"]

\* The live credential under the same key is revoked as the new one is stored.
Swapped(f) ==
  [g \in Consents |-> IF g = f THEN "live" ELSE IF g \in Live(Asker[f]) THEN "revoked" ELSE vault[g]]

(* swapUserCredential: it waits for whoever has the row it revokes.        *)
Record(f) ==
  /\ consent[f] = "granted" /\ \A g \in Live(Asker[f]) : lock[g] = None
  /\ consent' = [consent EXCEPT ![f] = "stored"]
  /\ vault' = Swapped(f) /\ secret' = [secret EXCEPT ![f] = 0]
  /\ held' = [held EXCEPT ![Asker[f]] = f]
  /\ UNCHANGED <<named, clients, lock, calls, removal, vendor, history>>

\* It finds the row revoked that it read as live, or the database does not take it.
RecordFails(f) ==
  /\ consent[f] = "granted" /\ consent' = [consent EXCEPT ![f] = "refused"]
  /\ UNCHANGED <<named, vault, secret, held, clients, lock, calls, removal, vendor, history>>

-----------------------------------------------------------------------------
(* A call: connectionTokenFor.                                             *)
Goto(c, stage) == call' = [call EXCEPT ![c] = stage]

Begin(c) ==
  /\ call[c] = "none" /\ held[Caller[c]] # None /\ client # 0
  /\ Goto(c, "begun") /\ using' = [using EXCEPT ![c] = client]
  /\ UNCHANGED <<deployment, clients, lock, row, token, removal, vendor, history>>

\* The transaction reads which credential the connection names, and asks for its row.
Look(c) ==
  /\ call[c] = "begun"
  /\ \/ held[Caller[c]] = None /\ Goto(c, "over") /\ UNCHANGED row
     \/ /\ held[Caller[c]] # None /\ Goto(c, "waiting")
        /\ row' = [row EXCEPT ![c] = held[Caller[c]]]
  /\ UNCHANGED <<deployment, clients, lock, using, token, removal, vendor, history>>

\* Mutant: the row is read without locking it.
FreeAlways(f) == TRUE

Free(f) == lock[f] = None

\* What is spent is read with the row locked, never before.
Lock(c) ==
  /\ call[c] = "waiting" /\ Free(row[c])
  /\ IF vault[row[c]] # "live"
     THEN Goto(c, "over") /\ UNCHANGED <<lock, token>>
     ELSE /\ Goto(c, "spending") /\ lock' = [lock EXCEPT ![row[c]] = c]
          /\ token' = [token EXCEPT ![c] = secret[row[c]]]
  /\ UNCHANGED <<deployment, clients, using, row, removal, vendor, history>>

Unlocked(c) == lock' = [lock EXCEPT ![row[c]] = None]

Slip(f) == slipped' = slipped \union {f}

(* What the vendor makes of a token: its current one, from a client it     *)
(* knows and issued it to, it takes. One it has rotated away is a theft.   *)
Known(c)  == using[c] \in honoured /\ boundTo[row[c]] = using[c]
Taken(c)  == Known(c) /\ family[row[c]] = "good" /\ token[c] = current[row[c]]
Stolen(c) == Known(c) /\ token[c] # current[row[c]]

Rotate(c) ==
  /\ current[row[c]] < MaxRotations
  /\ current' = [current EXCEPT ![row[c]] = @ + 1]

\* It takes the token, and rotates it or does not.
Exchange(c) ==
  /\ call[c] = "spending" /\ Taken(c)
  /\ \/ Goto(c, "over") /\ Unlocked(c) /\ UNCHANGED <<token, current>>
     \/ Rotate(c) /\ Goto(c, "minted") /\ token' = [token EXCEPT ![c] = current'[row[c]]] /\ UNCHANGED lock
  /\ UNCHANGED <<deployment, clients, using, row, removal, family, boundTo, history>>

\* invalid_grant.
Refuse(c) ==
  /\ call[c] = "spending" /\ using[c] \in honoured /\ ~Taken(c)
  /\ Goto(c, "over") /\ Unlocked(c)
  /\ family' = IF Stolen(c) THEN [family EXCEPT ![row[c]] = "revoked"] ELSE family
  /\ UNCHANGED <<deployment, clients, using, row, token, removal, current, boundTo, history>>

(* The exchange times out, or the replica dies: the row is free, and the   *)
(* request is still on its way.                                            *)
GiveUp(c) ==
  /\ call[c] = "spending" /\ Goto(c, "late") /\ Unlocked(c) /\ Slip(row[c])
  /\ UNCHANGED <<deployment, clients, using, row, token, removal, vendor, underway>>

ArriveLate(c) ==
  /\ call[c] = "late" /\ Goto(c, "over")
  /\ \/ Taken(c) /\ Rotate(c) /\ UNCHANGED family
     \/ ~Stolen(c) /\ UNCHANGED <<family, current>>
     \/ Stolen(c) /\ family' = [family EXCEPT ![row[c]] = "revoked"] /\ UNCHANGED current
  /\ UNCHANGED <<deployment, clients, lock, using, row, token, removal, boundTo, history>>

\* A client it does not know; one that is down answers everybody so.
Disown(c) ==
  /\ call[c] = "spending" /\ Goto(c, "disowned") /\ Unlocked(c)
  /\ UNCHANGED <<deployment, clients, using, row, token, removal, vendor, history>>

\* rotateConnectionToken, and the commit; or the transaction is lost.
Keep(c) ==
  /\ call[c] = "minted" /\ Goto(c, "over") /\ Unlocked(c)
  /\ \/ secret' = [secret EXCEPT ![row[c]] = token[c]] /\ UNCHANGED slipped
     \/ Slip(row[c]) /\ UNCHANGED secret
  /\ UNCHANGED <<consent, named, vault, held, clients, using, row, token, removal, vendor, underway>>

(* refuseAndReplaceEvictedClient: a client stored a while ago is replaced  *)
(* by one registered afresh. One younger is left alone.                    *)
Register(c) ==
  /\ call[c] = "disowned"
  /\ \/ Goto(c, "over") /\ UNCHANGED <<using, registered, honoured>>
     \/ /\ using[c] \notin young /\ registered < MaxClients
        /\ registered' = registered + 1 /\ honoured' = honoured \union {registered'}
        /\ using' = [using EXCEPT ![c] = registered'] /\ Goto(c, "registered")
  /\ UNCHANGED <<deployment, client, young, lock, row, token, removal, vendor, history>>

\* persistOAuthClient. The call is refused all the same.
Persist(c) ==
  /\ call[c] = "registered" /\ Goto(c, "over")
  /\ client' = using[c] /\ young' = young \union {using[c]}
  /\ UNCHANGED <<deployment, registered, honoured, lock, using, row, token, removal, vendor, history>>

\* The replica dies with no exchange on its way.
Die(c) ==
  /\ call[c] \in {"begun", "waiting", "disowned", "registered"} /\ Goto(c, "over")
  /\ UNCHANGED <<deployment, clients, lock, using, row, token, removal, vendor, history>>

-----------------------------------------------------------------------------
(* Removing somebody: they are denied, then what they granted is retired.  *)
(* Doing it again retires again, and is how one that failed is made good.  *)
Deny(p) ==
  /\ retiring[p] \in {"no", "failed", "done"}
  /\ denied' = denied \union {p} /\ retiring' = [retiring EXCEPT ![p] = "denied"]
  /\ UNCHANGED <<deployment, clients, lock, calls, owned, vendor, history>>

\* retireConnectionsFor.
List(p) ==
  /\ retiring[p] = "denied" /\ owned' = [owned EXCEPT ![p] = Live(p)]
  /\ retiring' = [retiring EXCEPT ![p] = "listed"]
  /\ underway' = { f \in Consents : IF Asker[f] = p THEN consent[f] \in {"checked", "granted"}
                                                    ELSE f \in underway }
  /\ UNCHANGED <<deployment, clients, lock, calls, denied, vendor, slipped>>

\* One at a time, each waiting for whoever has its row; one revoked meanwhile throws.
Retire(p) ==
  /\ retiring[p] = "listed"
  /\ \E f \in owned[p] :
       /\ lock[f] = None /\ owned' = [owned EXCEPT ![p] = @ \ {f}]
       /\ IF vault[f] = "live"
          THEN vault' = [vault EXCEPT ![f] = "revoked"] /\ UNCHANGED retiring
          ELSE retiring' = [retiring EXCEPT ![p] = "failed"] /\ UNCHANGED vault
  /\ UNCHANGED <<consent, named, secret, held, clients, lock, calls, denied, vendor, history>>

Forget(p) ==
  /\ retiring[p] = "listed" /\ owned[p] = {}
  /\ held' = [held EXCEPT ![p] = None] /\ retiring' = [retiring EXCEPT ![p] = "done"]
  /\ UNCHANGED <<consent, named, vault, secret, clients, lock, calls, denied, owned, vendor, history>>

\* The audit row is refused, or the replica dies: what is left stands.
GiveIn(p) ==
  /\ retiring[p] \in {"denied", "listed"} /\ retiring' = [retiring EXCEPT ![p] = "failed"]
  /\ UNCHANGED <<deployment, clients, lock, calls, denied, owned, vendor, history>>

-----------------------------------------------------------------------------
\* The vendor forgets the client; the backoff passes.
Evict ==
  /\ client \in honoured /\ honoured' = honoured \ {client}
  /\ UNCHANGED <<deployment, client, young, registered, lock, calls, removal, vendor, history>>

Age ==
  /\ young # {} /\ young' = {}
  /\ UNCHANGED <<deployment, client, registered, honoured, lock, calls, removal, vendor, history>>

Next ==
  \/ \E f \in Consents : Connect(f) \/ ComeBack(f) \/ Redeem(f) \/ Record(f) \/ RecordFails(f)
  \/ \E c \in Calls : \/ Begin(c) \/ Look(c) \/ Lock(c) \/ Exchange(c) \/ Refuse(c) \/ GiveUp(c)
                      \/ ArriveLate(c) \/ Disown(c) \/ Keep(c) \/ Register(c) \/ Persist(c) \/ Die(c)
  \/ \E p \in People : Deny(p) \/ List(p) \/ Retire(p) \/ Forget(p) \/ GiveIn(p)
  \/ Evict \/ Age

Spec == Init /\ [][Next]_vars

-----------------------------------------------------------------------------
DeploymentType ==
  /\ consent \in [Consents -> {"none", "away", "checked", "granted", "stored", "refused"}]
  /\ named \in [Consents -> 0..MaxClients]
  /\ vault \in [Consents -> {"absent", "live", "revoked"}] /\ secret \in [Consents -> Nat]
  /\ held \in [People -> Consents \union {None}]

ClientsType ==
  /\ client \in 0..MaxClients /\ young \subseteq 0..MaxClients
  /\ registered \in 0..MaxClients /\ honoured \subseteq 0..MaxClients

CallsType ==
  /\ lock \in [Consents -> Calls \union {None}]
  /\ call \in [Calls -> {"none", "begun", "waiting", "spending", "late", "minted",
                     "disowned", "registered", "over"}]
  /\ using \in [Calls -> 0..MaxClients] /\ row \in [Calls -> Consents \union {None}]
  /\ token \in [Calls -> Nat]

RemovalType ==
  /\ denied \subseteq People /\ owned \in [People -> SUBSET Consents]
  /\ retiring \in [People -> {"no", "denied", "listed", "done", "failed"}]

VendorType ==
  /\ family \in [Consents -> {"none", "good", "revoked"}] /\ current \in [Consents -> Nat]
  /\ boundTo \in [Consents -> 0..MaxClients]
  /\ slipped \subseteq Consents /\ underway \subseteq Consents

\* Every variable keeps its type.
TypeOK == DeploymentType /\ ClientsType /\ CallsType /\ RemovalType /\ VendorType

(* No grant is lost to the deployment's own hurry: the vendor is shown a   *)
(* token it has rotated away only where an exchange was sent and what came *)
(* of it never kept, because it timed out or a replica died. However many  *)
(* replicas call at once, and whoever reconnects or is removed meanwhile.  *)
SpentOnce == \A f \in Consents : family[f] = "revoked" => f \in slipped

(* What the vault holds live is what somebody's connection names, and the  *)
(* other way round, but for the people being removed: no live grant is out *)
(* of everybody's reach, and no connection names one that was withdrawn.   *)
LiveIsHeld ==
  \A p \in People \ denied : Live(p) = { f \in Consents : held[p] = f }

(* A retirement that ended left a removed person nothing live, but what a  *)
(* consent brings that was let in before the removal and not yet stored    *)
(* when the retirement listed what there was.                              *)
RemovedIsOut == \A p \in People : retiring[p] = "done" => Live(p) \subseteq underway

(* A removed person has nothing live left.                                 *)
RemovedHasNothing == \A p \in People : retiring[p] = "done" => Live(p) = {}
=============================================================================

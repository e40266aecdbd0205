-------------------------- MODULE VendorGrantsProofs --------------------------
(***************************************************************************)
(* What holds of the grants for every number of people, consents and       *)
(* calls, and however often the vendor rotates: no token is shown to the   *)
(* vendor twice by a call that kept its place, the vault and the           *)
(* connections agree, and a retirement leaves nothing it could have seen.  *)
(***************************************************************************)
EXTENDS VendorGrants, TLAPS

USE GrantsAssumption
USE DEF vars, deployment, clients, calls, removal, vendor, history

Holding == {"spending", "minted"}
Sent    == {"waiting", "late"} \union Holding

\* What is not stored is not in the vault, and nobody ever used it.
UnstoredIsUnused ==
  /\ \A f \in Consents : consent[f] # "stored" => vault[f] = "absent"
  /\ \A f \in Consents : vault[f] = "absent" => current[f] = 0 /\ family[f] # "revoked"
  /\ \A p \in People : held[p] # None => vault[held[p]] # "absent"
  /\ \A c \in Calls : call[c] \in Sent => row[c] \in Consents /\ vault[row[c]] # "absent"

\* A call that spends a token, or has the one it was rotated to, has the row.
HolderHasRow == \A c \in Calls : call[c] \in Holding => lock[row[c]] = c

\* A request given up on is on record.
LateIsSlipped == \A c \in Calls : call[c] = "late" => row[c] \in slipped

Minting(f) == lock[f] \in Calls /\ call[lock[f]] = "minted" /\ row[lock[f]] = f

\* Where nothing slipped, the vault has the vendor's token or the holder of the row has.
KeptUp ==
  /\ \A f \in Consents : f \notin slipped /\ vault[f] # "absent" /\ ~Minting(f) => secret[f] = current[f]
  /\ \A c \in Calls : call[c] = "minted" /\ row[c] \notin slipped => token[c] = current[row[c]]
  /\ \A c \in Calls : call[c] = "spending" => token[c] = secret[row[c]]

SpendInv == TypeOK /\ UnstoredIsUnused /\ HolderHasRow /\ LateIsSlipped /\ KeptUp /\ SpentOnce

\* Only a person removed is retired, of credentials that are theirs.
RetirementIsTheirs ==
  \A p \in People : /\ retiring[p] # "no" => p \in denied
                    /\ \A f \in owned[p] : Asker[f] = p

\* What is live of somebody being retired is on the list, or was on its way.
ListedOrUnderway ==
  \A p \in People :
    /\ retiring[p] \in {"listed", "done"} =>
         \A f \in Consents : Asker[f] = p =>
           /\ vault[f] = "live" => f \in owned[p] \union underway
           /\ consent[f] \in {"checked", "granted"} => f \in underway
    /\ retiring[p] = "done" => owned[p] = {}

OutInv == RetirementIsTheirs /\ LiveIsHeld /\ ListedOrUnderway

-----------------------------------------------------------------------------
(* The types.                                                              *)

LEMMA TypesAtFirst == Init => TypeOK
  BY DEF Init, TypeOK, DeploymentType, ClientsType, CallsType, RemovalType, VendorType

ConsentStep == \E f \in Consents : Connect(f) \/ ComeBack(f) \/ Redeem(f) \/ Record(f) \/ RecordFails(f)
CallStep(c) == \/ Begin(c) \/ Look(c) \/ Lock(c) \/ Exchange(c) \/ Refuse(c) \/ GiveUp(c) \/ ArriveLate(c)
               \/ Disown(c) \/ Keep(c) \/ Register(c) \/ Persist(c) \/ Die(c)
RemovalStep == \E p \in People : Deny(p) \/ List(p) \/ Retire(p) \/ Forget(p) \/ GiveIn(p)

LEMMA Steps ==
  ASSUME Next
  PROVE  ConsentStep \/ (\E c \in Calls : CallStep(c)) \/ RemovalStep \/ Evict \/ Age
  BY DEF Next, ConsentStep, CallStep, RemovalStep

\* Whose steps write what.
LEMMA CallsKeepDeployment ==
  ASSUME NEW c \in Calls, CallStep(c)
  PROVE  Keep(c) \/ UNCHANGED deployment
  BY DEF CallStep, Begin, Look, Lock, Exchange, Refuse, GiveUp, ArriveLate, Disown, Register, Persist, Die

LEMMA CallsKeepClients ==
  ASSUME NEW c \in Calls, CallStep(c)
  PROVE  Register(c) \/ Persist(c) \/ UNCHANGED clients
  BY DEF CallStep, Begin, Look, Lock, Exchange, Refuse, GiveUp, ArriveLate, Disown, Keep, Die

LEMMA CallsKeepVendor ==
  ASSUME NEW c \in Calls, CallStep(c)
  PROVE  Exchange(c) \/ Refuse(c) \/ GiveUp(c) \/ ArriveLate(c) \/ Keep(c) \/ UNCHANGED <<vendor, history>>
  BY DEF CallStep, Begin, Look, Lock, Disown, Register, Persist, Die

LEMMA CallsKeepRemoval ==
  ASSUME NEW c \in Calls, CallStep(c)
  PROVE  UNCHANGED removal
  BY DEF CallStep, Begin, Look, Lock, Exchange, Refuse, GiveUp, ArriveLate, Disown, Keep, Register, Persist, Die

LEMMA OthersKeepCalls ==
  ASSUME ConsentStep \/ RemovalStep \/ Evict \/ Age
  PROVE  UNCHANGED <<lock, calls>>
  BY DEF ConsentStep, Connect, ComeBack, Redeem, Record, RecordFails,
         RemovalStep, Deny, List, Retire, Forget, GiveIn, Evict, Age

LEMMA DeploymentTypeKept ==
  ASSUME TypeOK, UnstoredIsUnused, Next
  PROVE  DeploymentType'
<1> USE DEF DeploymentType
<1>0. DeploymentType /\ ClientsType
  BY DEF TypeOK
<1>1. CASE UNCHANGED deployment
  BY <1>0, <1>1
<1>2. ASSUME NEW f \in Consents, Connect(f)  PROVE DeploymentType'
  <2>1. named' = [named EXCEPT ![f] = client] \/ named' = [named EXCEPT ![f] = registered + 1]
    BY <1>2 DEF Connect
  <2>2. client \in 0..MaxClients /\ (registered < MaxClients => registered + 1 \in 0..MaxClients)
    BY <1>0 DEF ClientsType
  <2>3. QED
    BY <1>0, <1>2, <2>1, <2>2 DEF Connect
<1>3. ASSUME NEW f \in Consents, ComeBack(f) \/ Redeem(f) \/ RecordFails(f)  PROVE DeploymentType'
  BY <1>0, <1>3 DEF ComeBack, Redeem, RecordFails
<1>4. ASSUME NEW f \in Consents, Record(f)  PROVE DeploymentType'
  BY <1>0, <1>4 DEF Record, Swapped
<1>5. ASSUME NEW c \in Calls, Keep(c)  PROVE DeploymentType'
  BY <1>0, <1>5 DEF Keep, TypeOK, CallsType
<1>6. ASSUME NEW p \in People, Retire(p) \/ Forget(p)  PROVE DeploymentType'
  BY <1>0, <1>6 DEF Retire, Forget
<1>7. ASSUME NEW p \in People, Deny(p) \/ List(p) \/ GiveIn(p)  PROVE UNCHANGED deployment
  BY <1>7 DEF Deny, List, GiveIn
<1>8. Evict \/ Age => UNCHANGED deployment
  BY DEF Evict, Age
<1>9. QED
  BY <1>1, <1>2, <1>3, <1>4, <1>5, <1>6, <1>7, <1>8, Steps, CallsKeepDeployment DEF ConsentStep, RemovalStep

LEMMA ClientsTypeKept ==
  ASSUME TypeOK, Next
  PROVE  ClientsType'
<1> USE DEF ClientsType
<1>0. ClientsType /\ CallsType /\ (registered < MaxClients => registered + 1 \in 0..MaxClients)
  BY DEF TypeOK
<1>1. CASE UNCHANGED clients
  BY <1>0, <1>1
<1>2. ASSUME NEW f \in Consents, Connect(f)  PROVE ClientsType'
  BY <1>0, <1>2 DEF Connect
<1>3. ASSUME NEW f \in Consents, ComeBack(f) \/ Redeem(f) \/ Record(f) \/ RecordFails(f)
      PROVE  UNCHANGED clients
  BY <1>3 DEF ComeBack, Redeem, Record, RecordFails
<1>4. ASSUME NEW c \in Calls, Register(c)  PROVE ClientsType'
  BY <1>0, <1>4 DEF Register
<1>5. ASSUME NEW c \in Calls, Persist(c)  PROVE ClientsType'
  <2>1. using[c] \in 0..MaxClients
    BY <1>0 DEF CallsType
  <2>2. QED
    BY <1>0, <1>5, <2>1 DEF Persist
<1>6. RemovalStep => UNCHANGED clients
  BY DEF RemovalStep, Deny, List, Retire, Forget, GiveIn
<1>7. Evict \/ Age => ClientsType'
  BY <1>0 DEF Evict, Age
<1>8. QED
  BY <1>1, <1>2, <1>3, <1>4, <1>5, <1>6, <1>7, Steps, CallsKeepClients DEF ConsentStep

LEMMA CallsTypeKept ==
  ASSUME TypeOK, UnstoredIsUnused, Next
  PROVE  CallsType'
<1> USE DEF CallsType
<1>0. CallsType /\ DeploymentType /\ ClientsType /\ VendorType
  BY DEF TypeOK
<1>1. CASE UNCHANGED <<lock, calls>>
  BY <1>0, <1>1
<1>2. ASSUME NEW c \in Calls, CallStep(c)  PROVE CallsType'
  <2> USE <1>0 DEF Goto, Unlocked
  <2>0. call[c] \in Sent => row[c] \in Consents
    BY DEF UnstoredIsUnused
  <2>1. ASSUME Begin(c)  PROVE CallsType'
    BY <2>1 DEF Begin, ClientsType
  <2>2. ASSUME Look(c)  PROVE CallsType'
    <3>1. Caller[c] \in People
      OBVIOUS
    <3>2. QED
      BY <2>2, <3>1 DEF Look, DeploymentType
  <2>3. ASSUME Lock(c)  PROVE CallsType'
    <3>1. row[c] \in Consents /\ secret[row[c]] \in Nat
      BY <2>0, <2>3 DEF Lock, Sent, DeploymentType
    <3>2. QED
      BY <2>3, <3>1 DEF Lock
  <2>4. ASSUME Exchange(c)  PROVE CallsType'
    <3>1. row[c] \in Consents /\ current[row[c]] + 1 \in Nat
      BY <2>0, <2>4 DEF Exchange, Sent, Holding, VendorType
    <3>2. \/ lock' = [lock EXCEPT ![row[c]] = None] /\ token' = token
          \/ lock' = lock /\ token' = [token EXCEPT ![c] = current[row[c]] + 1]
      BY <2>4, <3>1 DEF Exchange, Rotate, VendorType
    <3>3. QED
      BY <2>4, <3>1, <3>2 DEF Exchange
  <2>5. ASSUME Refuse(c) \/ GiveUp(c) \/ Disown(c) \/ Keep(c)  PROVE CallsType'
    BY <2>5 DEF Refuse, GiveUp, Disown, Keep
  <2>6. ASSUME ArriveLate(c) \/ Persist(c) \/ Die(c)  PROVE CallsType'
    BY <2>6 DEF ArriveLate, Persist, Die
  <2>7. ASSUME Register(c)  PROVE CallsType'
    <3>1. registered < MaxClients => registered + 1 \in 0..MaxClients
      BY DEF ClientsType
    <3>2. QED
      BY <2>7, <3>1 DEF Register
  <2>8. QED
    BY <1>2, <2>1, <2>2, <2>3, <2>4, <2>5, <2>6, <2>7 DEF CallStep
<1>3. QED
  BY <1>1, <1>2, Steps, OthersKeepCalls

LEMMA RemovalTypeKept ==
  ASSUME TypeOK, Next
  PROVE  RemovalType'
<1> USE DEF RemovalType
<1>0. RemovalType
  BY DEF TypeOK
<1>1. CASE UNCHANGED removal
  BY <1>0, <1>1
<1>2. ConsentStep \/ Evict \/ Age => UNCHANGED removal
  BY DEF ConsentStep, Connect, ComeBack, Redeem, Record, RecordFails, Evict, Age
<1>3. RemovalStep => RemovalType'
  BY <1>0 DEF RemovalStep, Deny, List, Retire, Forget, GiveIn, Live
<1>4. QED
  BY <1>1, <1>2, <1>3, Steps, CallsKeepRemoval

LEMMA VendorTypeKept ==
  ASSUME TypeOK, UnstoredIsUnused, Next
  PROVE  VendorType'
<1> USE DEF VendorType
<1>0. VendorType /\ ClientsType
  BY DEF TypeOK
<1>1. CASE UNCHANGED <<vendor, history>>
  BY <1>0, <1>1
<1>2. ASSUME NEW f \in Consents, Redeem(f)  PROVE VendorType'
  BY <1>0, <1>2 DEF Redeem, ClientsType
<1>3. ASSUME NEW f \in Consents, Connect(f) \/ ComeBack(f) \/ Record(f) \/ RecordFails(f)
      PROVE  UNCHANGED <<vendor, history>>
  BY <1>3 DEF Connect, ComeBack, Record, RecordFails
<1>4. ASSUME NEW c \in Calls, Exchange(c) \/ Refuse(c) \/ GiveUp(c) \/ ArriveLate(c) \/ Keep(c)
      PROVE  VendorType'
  <2>1. call[c] \in Sent /\ row[c] \in Consents
    BY <1>4 DEF UnstoredIsUnused, Sent, Holding, Exchange, Refuse, GiveUp, ArriveLate, Keep
  <2>2. current[row[c]] + 1 \in Nat
    BY <1>0, <2>1
  <2>3. Rotate(c) => current' \in [Consents -> Nat]
    BY <1>0, <2>1, <2>2 DEF Rotate
  <2>4. CASE Exchange(c) \/ ArriveLate(c)
    BY <1>0, <2>1, <2>3, <2>4 DEF Exchange, ArriveLate
  <2>5. CASE Refuse(c) \/ GiveUp(c) \/ Keep(c)
    BY <1>0, <2>1, <2>5 DEF Refuse, GiveUp, Keep, Slip
  <2>6. QED
    BY <1>4, <2>4, <2>5
<1>5. ASSUME NEW p \in People, List(p)  PROVE VendorType'
  BY <1>0, <1>5 DEF List
<1>6. ASSUME NEW p \in People, Deny(p) \/ Retire(p) \/ Forget(p) \/ GiveIn(p)
      PROVE  UNCHANGED <<vendor, history>>
  BY <1>6 DEF Deny, Retire, Forget, GiveIn
<1>7. Evict \/ Age => UNCHANGED <<vendor, history>>
  BY DEF Evict, Age
<1>8. QED
  BY <1>1, <1>2, <1>3, <1>4, <1>5, <1>6, <1>7, Steps, CallsKeepVendor DEF ConsentStep, RemovalStep

LEMMA TypesKept ==
  ASSUME TypeOK, UnstoredIsUnused, Next
  PROVE  TypeOK'
  BY DeploymentTypeKept, ClientsTypeKept, CallsTypeKept, RemovalTypeKept, VendorTypeKept DEF TypeOK

-----------------------------------------------------------------------------
(* A token is spent once.                                                  *)

\* The steps of a call after which it is no further than it was, or over.
LEMMA CallMoves ==
  ASSUME TypeOK, UnstoredIsUnused, NEW c \in Calls, CallStep(c)
  PROVE  /\ \A d \in Calls \ {c} : call'[d] = call[d] /\ row'[d] = row[d] /\ token'[d] = token[d]
         /\ \/ Look(c) \/ Lock(c) \/ Exchange(c) \/ GiveUp(c)
            \/ call'[c] \in {"begun", "disowned", "registered", "over"}
         /\ row'[c] = row[c] \/ Look(c)
<1> USE DEF Goto, CallsType
<1>0. CallsType
  BY DEF TypeOK
<1>1. CASE Begin(c) \/ Look(c) \/ Lock(c) \/ GiveUp(c)
  BY <1>0, <1>1 DEF Begin, Look, Lock, GiveUp
<1>2. CASE Exchange(c) \/ Refuse(c)
  BY <1>0, <1>2 DEF Exchange, Refuse
<1>3. CASE ArriveLate(c) \/ Disown(c) \/ Keep(c) \/ Register(c) \/ Persist(c) \/ Die(c)
  BY <1>0, <1>3 DEF ArriveLate, Disown, Keep, Register, Persist, Die
<1>4. QED
  BY <1>1, <1>2, <1>3 DEF CallStep

LEMMA UnstoredKept ==
  ASSUME TypeOK, UnstoredIsUnused, Next
  PROVE  UnstoredIsUnused'
<1> USE DEF UnstoredIsUnused
<1>0. DeploymentType /\ CallsType /\ VendorType
  BY DEF TypeOK
<1>1. ASSUME NEW f \in Consents, Connect(f) \/ ComeBack(f) \/ RecordFails(f)
      PROVE  UnstoredIsUnused'
  BY <1>0, <1>1 DEF Connect, ComeBack, RecordFails, DeploymentType
<1>2. ASSUME NEW f \in Consents, Redeem(f)  PROVE UnstoredIsUnused'
  BY <1>0, <1>2 DEF Redeem, DeploymentType, VendorType
<1>3. ASSUME NEW f \in Consents, Record(f)  PROVE UnstoredIsUnused'
  <2>1. \A g \in Consents : /\ vault'[g] = "absent" => vault[g] = "absent" /\ g # f
                            /\ consent'[g] # "stored" => g # f /\ consent[g] # "stored"
                            /\ vault[g] = "absent" /\ g # f => vault'[g] = "absent"
    BY <1>0, <1>3 DEF Record, Swapped, Live, DeploymentType
  <2>2. \A p \in People : held'[p] # None => held'[p] = f \/ (held[p] # None /\ held'[p] = held[p])
    BY <1>0, <1>3 DEF Record, DeploymentType
  <2>3. \A p \in People : held'[p] # None => held'[p] \in Consents
    BY <1>0, <2>2, <1>3 DEF DeploymentType
  <2>4. UNCHANGED <<calls, vendor>>
    BY <1>3 DEF Record
  <2>5. QED
    BY <2>1, <2>2, <2>3, <2>4
<1>4. ASSUME NEW c \in Calls, CallStep(c)  PROVE UnstoredIsUnused'
  <2>1. UNCHANGED <<consent, vault, held>>
    BY <1>4, CallsKeepDeployment DEF Keep
  <2>2. \A f \in Consents : vault[f] = "absent" => current'[f] = 0 /\ family'[f] # "revoked"
    <3>1. CASE UNCHANGED <<vendor, history>> \/ GiveUp(c) \/ Keep(c)
      BY <3>1 DEF GiveUp, Keep
    <3>2. CASE Exchange(c) \/ Refuse(c) \/ ArriveLate(c)
      <4>1. row[c] \in Consents /\ vault[row[c]] # "absent"
        BY <3>2 DEF Exchange, Refuse, ArriveLate, Sent, Holding
      <4>2. \A f \in Consents \ {row[c]} : current'[f] = current[f] /\ family'[f] = family[f]
        BY <1>0, <3>2, <4>1 DEF Exchange, Refuse, ArriveLate, Rotate, VendorType
      <4>3. QED
        BY <4>1, <4>2
    <3>3. QED
      BY <1>4, <3>1, <3>2, CallsKeepVendor
  <2>3. call'[c] \in Sent => row'[c] \in Consents /\ vault[row'[c]] # "absent"
    <3>1. CASE Look(c)
      <4>1. Caller[c] \in People
        OBVIOUS
      <4>2. call'[c] = "over" \/ (held[Caller[c]] # None /\ row'[c] = held[Caller[c]])
        BY <1>0, <3>1 DEF Look, Goto, CallsType
      <4>3. QED
        BY <1>0, <4>1, <4>2 DEF Sent, Holding, DeploymentType
    <3>2. CASE Lock(c) \/ Exchange(c) \/ GiveUp(c)
      <4>1. call[c] \in Sent /\ row' = row
        BY <3>2 DEF Lock, Exchange, GiveUp, Sent, Holding
      <4>2. QED
        BY <4>1
    <3>3. CASE call'[c] \in {"begun", "disowned", "registered", "over"}
      BY <3>3 DEF Sent, Holding
    <3>4. QED
      BY <1>4, <3>1, <3>2, <3>3, CallMoves
  <2>4. \A d \in Calls : call'[d] \in Sent => row'[d] \in Consents /\ vault[row'[d]] # "absent"
    BY <1>4, <2>3, CallMoves
  <2>5. QED
    BY <2>1, <2>2, <2>4
<1>5. ASSUME NEW p \in People, Deny(p) \/ List(p) \/ GiveIn(p)  PROVE UnstoredIsUnused'
  BY <1>5 DEF Deny, List, GiveIn
<1>6. ASSUME NEW p \in People, Retire(p) \/ Forget(p)  PROVE UnstoredIsUnused'
  <2>1. /\ \A f \in Consents : vault'[f] = "absent" <=> vault[f] = "absent"
        /\ \A q \in People : held'[q] # None => held'[q] = held[q]
        /\ \A q \in People : held[q] # None => held[q] \in Consents
    BY <1>0, <1>6 DEF Retire, Forget, DeploymentType
  <2>2. UNCHANGED <<consent, calls, vendor>>
    BY <1>6 DEF Retire, Forget
  <2>3. QED
    BY <2>1, <2>2
<1>7. Evict \/ Age => UNCHANGED <<deployment, calls, vendor>>
  BY DEF Evict, Age
<1>8. QED
  BY <1>1, <1>2, <1>3, <1>4, <1>5, <1>6, <1>7, Steps DEF ConsentStep, RemovalStep

LEMMA HolderKept ==
  ASSUME TypeOK, UnstoredIsUnused, HolderHasRow, Next
  PROVE  HolderHasRow'
<1> USE DEF HolderHasRow
<1>0. CallsType
  BY DEF TypeOK
<1>1. CASE UNCHANGED <<lock, calls>>
  BY <1>1
<1>2. ASSUME NEW c \in Calls, CallStep(c)  PROVE HolderHasRow'
  <2>1. call'[c] \in Holding => lock'[row'[c]] = c
    <3>1. CASE Lock(c)
      BY <1>0, <3>1 DEF Lock, Goto, Holding, CallsType, UnstoredIsUnused, Sent
    <3>2. CASE Exchange(c)
      BY <1>0, <3>2 DEF Exchange, Goto, Holding, CallsType
    <3>3. CASE Look(c) \/ GiveUp(c) \/ call'[c] \in {"begun", "disowned", "registered", "over"}
      BY <1>0, <3>3 DEF Look, GiveUp, Goto, Holding, CallsType
    <3>4. QED
      BY <1>2, <3>1, <3>2, <3>3, CallMoves
  <2>2. ASSUME NEW d \in Calls \ {c}, call[d] \in Holding
        PROVE  lock'[row[d]] = d
    <3>1. row[d] \in Consents /\ lock[row[d]] = d
      BY <2>2 DEF UnstoredIsUnused, Sent
    <3>2. CASE Lock(c)
      <4>1. row[c] # row[d]
        BY <3>1, <3>2 DEF Lock, Free
      <4>2. QED
        BY <1>0, <3>1, <3>2, <4>1 DEF Lock, CallsType
    <3>3. CASE Exchange(c) \/ Refuse(c) \/ GiveUp(c) \/ Disown(c) \/ Keep(c)
      <4>1. call[c] \in Holding
        BY <3>3 DEF Exchange, Refuse, GiveUp, Disown, Keep, Holding
      <4>2. row[c] # row[d]
        BY <3>1, <4>1
      <4>3. QED
        BY <1>0, <3>1, <3>3, <4>2 DEF Exchange, Refuse, GiveUp, Disown, Keep, Unlocked, CallsType
    <3>4. CASE Begin(c) \/ Look(c) \/ ArriveLate(c) \/ Register(c) \/ Persist(c) \/ Die(c)
      BY <3>1, <3>4 DEF Begin, Look, ArriveLate, Register, Persist, Die
    <3>5. QED
      BY <1>2, <3>2, <3>3, <3>4 DEF CallStep
  <2>3. QED
    BY <1>2, <2>1, <2>2, CallMoves
<1>3. QED
  BY <1>1, <1>2, Steps, OthersKeepCalls

LEMMA LateKept ==
  ASSUME TypeOK, UnstoredIsUnused, LateIsSlipped, Next
  PROVE  LateIsSlipped'
<1> USE DEF LateIsSlipped
<1>0. slipped \subseteq slipped'
  BY DEF Next, Connect, ComeBack, Redeem, Record, RecordFails, Begin, Look, Lock, Exchange, Refuse,
         GiveUp, ArriveLate, Disown, Keep, Register, Persist, Die, Slip,
         Deny, List, Retire, Forget, GiveIn, Evict, Age
<1>1. CASE UNCHANGED <<lock, calls>>
  BY <1>0, <1>1
<1>2. ASSUME NEW c \in Calls, CallStep(c)  PROVE LateIsSlipped'
  <2>1. call'[c] = "late" => row'[c] \in slipped'
    <3>1. CASE GiveUp(c)
      BY <3>1 DEF GiveUp, Slip
    <3>2. CASE Look(c) \/ Lock(c) \/ Exchange(c)
      BY <3>2 DEF Look, Lock, Exchange, Goto, TypeOK, CallsType
    <3>3. CASE call'[c] \in {"begun", "disowned", "registered", "over"}
      BY <3>3
    <3>4. QED
      BY <1>2, <3>1, <3>2, <3>3, CallMoves
  <2>2. QED
    BY <1>0, <1>2, <2>1, CallMoves
<1>3. QED
  BY <1>1, <1>2, Steps, OthersKeepCalls

\* Slips are never taken back.
LEMMA SlippedGrows ==
  ASSUME Next
  PROVE  slipped \subseteq slipped'
  BY DEF Next, Connect, ComeBack, Redeem, Record, RecordFails, Begin, Look, Lock, Exchange, Refuse,
         GiveUp, ArriveLate, Disown, Keep, Register, Persist, Die, Slip,
         Deny, List, Retire, Forget, GiveIn, Evict, Age

\* What a call shows the vendor where nothing slipped is the vendor's own token.
LEMMA SpendingIsCurrent ==
  ASSUME TypeOK, UnstoredIsUnused, HolderHasRow, KeptUp,
         NEW c \in Calls, call[c] = "spending", row[c] \notin slipped
  PROVE  token[c] = current[row[c]]
<1>1. row[c] \in Consents /\ vault[row[c]] # "absent" /\ lock[row[c]] = c
  BY DEF UnstoredIsUnused, HolderHasRow, Sent, Holding
<1>2. ~Minting(row[c])
  BY <1>1 DEF Minting
<1>3. QED
  BY <1>1, <1>2 DEF KeptUp

LEMMA KeptUpByConsents ==
  ASSUME TypeOK, UnstoredIsUnused, KeptUp, ConsentStep
  PROVE  KeptUp'
<1>0. DeploymentType /\ CallsType
  BY DEF TypeOK
<1>1. UNCHANGED <<lock, calls, current, slipped>>
  BY OthersKeepCalls DEF ConsentStep, Connect, ComeBack, Redeem, Record, RecordFails
<1>2. CASE UNCHANGED <<vault, secret>>
  BY <1>1, <1>2 DEF KeptUp, Minting
<1>3. ASSUME NEW f \in Consents, Record(f)  PROVE KeptUp'
  <2>1. vault[f] = "absent" /\ current[f] = 0 /\ secret'[f] = 0
    BY <1>0, <1>3 DEF Record, UnstoredIsUnused, DeploymentType
  <2>2. \A g \in Consents \ {f} : secret'[g] = secret[g] /\ (vault'[g] = "absent" <=> vault[g] = "absent")
    BY <1>0, <1>3 DEF Record, Swapped, Live, DeploymentType
  <2>3. \A d \in Calls : call[d] = "spending" => row[d] \in Consents \ {f}
    BY <2>1 DEF UnstoredIsUnused, Sent, Holding
  <2>4. QED
    BY <1>1, <2>1, <2>2, <2>3 DEF KeptUp, Minting
<1>4. ConsentStep => UNCHANGED <<vault, secret>> \/ \E f \in Consents : Record(f)
  BY DEF ConsentStep, Connect, ComeBack, Redeem, RecordFails
<1>5. QED
  BY <1>2, <1>3, <1>4

LEMMA KeptUpByCalls ==
  ASSUME TypeOK, UnstoredIsUnused, HolderHasRow, LateIsSlipped, KeptUp, Next, NEW c \in Calls, CallStep(c)
  PROVE  KeptUp'
<1>0. DeploymentType /\ CallsType /\ VendorType /\ slipped \subseteq slipped' /\ vault' = vault
  BY SlippedGrows, CallsKeepDeployment DEF TypeOK, Keep
<1>a. \A d \in Calls : call[d] \in Holding =>
        row[d] \in Consents /\ vault[row[d]] # "absent" /\ lock[row[d]] = d
  BY DEF UnstoredIsUnused, HolderHasRow, Sent, Holding
<1>b. \A d \in Calls \ {c} : call'[d] = call[d] /\ row'[d] = row[d] /\ token'[d] = token[d]
  BY CallMoves
<1>1. CASE Begin(c) \/ Look(c) \/ Register(c) \/ Persist(c) \/ Die(c)
  <2>1. /\ UNCHANGED <<secret, current, slipped, lock>>
        /\ call'[c] \notin Holding /\ call[c] \notin Holding
    BY <1>0, <1>1 DEF Begin, Look, Register, Persist, Die, Goto, Holding, CallsType
  <2>2. \A f \in Consents : Minting(f)' <=> Minting(f)
    BY <1>b, <2>1 DEF Minting, Holding
  <2>3. QED
    BY <1>0, <1>b, <2>1, <2>2 DEF KeptUp, Holding
<1>2. CASE Lock(c)
  <2>1. /\ UNCHANGED <<secret, current, slipped, row>>
        /\ call'[c] = "spending" => token'[c] = secret[row[c]] /\ row[c] \in Consents
        /\ call'[c] # "minted" /\ call[c] # "minted"
    BY <1>0, <1>2 DEF Lock, Goto, CallsType, UnstoredIsUnused, Sent
  <2>2. \A f \in Consents : lock'[f] = lock[f] \/ (lock[f] = None /\ lock'[f] = c)
    BY <1>0, <1>2 DEF Lock, Free, CallsType
  <2>3. \A f \in Consents : Minting(f)' <=> Minting(f)
    BY <1>b, <2>1, <2>2 DEF Minting
  <2>4. QED
    BY <1>0, <1>b, <2>1, <2>3 DEF KeptUp
<1>3. CASE Exchange(c)
  <2>1. /\ call[c] = "spending" /\ row[c] \in Consents /\ lock[row[c]] = c
        /\ UNCHANGED <<secret, slipped, row>>
    BY <1>a, <1>3 DEF Exchange, Holding
  <2>2. \A d \in Calls \ {c} : call[d] \in Holding => row[d] # row[c]
    BY <1>a, <2>1
  <2>3. ~Minting(row[c])
    BY <2>1 DEF Minting
  <2>4. CASE call'[c] = "over"
    <3>1. lock' = [lock EXCEPT ![row[c]] = None] /\ current' = current
      BY <1>0, <1>3, <2>4 DEF Exchange, Goto, Unlocked, CallsType
    <3>2. \A f \in Consents \ {row[c]} : Minting(f)' <=> Minting(f)
      BY <1>0, <1>b, <2>1, <3>1 DEF Minting, CallsType
    <3>3. QED
      BY <1>0, <1>b, <2>1, <2>3, <2>4, <3>1, <3>2 DEF KeptUp
  <2>5. CASE call'[c] # "over"
    <3>1. /\ call'[c] = "minted" /\ token'[c] = current'[row[c]] /\ lock' = lock
          /\ \A f \in Consents \ {row[c]} : current'[f] = current[f]
      BY <1>0, <1>3, <2>1, <2>5 DEF Exchange, Rotate, Goto, CallsType, VendorType
    <3>2. Minting(row[c])'
      BY <2>1, <3>1 DEF Minting
    <3>3. \A f \in Consents \ {row[c]} : Minting(f) => Minting(f)'
      BY <1>b, <2>1, <3>1 DEF Minting
    <3>4. \A d \in Calls \ {c} : call[d] = "minted" => row[d] \in Consents \ {row[c]}
      BY <1>a, <2>2 DEF Holding
    <3>5. QED
      BY <1>0, <1>b, <2>1, <3>1, <3>2, <3>3, <3>4 DEF KeptUp
  <2>6. QED
    BY <2>4, <2>5
<1>4. CASE Refuse(c) \/ Disown(c) \/ GiveUp(c)
  <2>1. /\ call[c] = "spending" /\ row[c] \in Consents /\ lock[row[c]] = c
        /\ call'[c] \notin Holding
        /\ UNCHANGED <<secret, current, row>> /\ lock' = [lock EXCEPT ![row[c]] = None]
    BY <1>0, <1>a, <1>4 DEF Refuse, Disown, GiveUp, Goto, Unlocked, Holding, CallsType
  <2>2. ~Minting(row[c])
    BY <2>1 DEF Minting
  <2>3. \A f \in Consents \ {row[c]} : Minting(f) => Minting(f)'
    BY <1>0, <1>b, <2>1 DEF Minting, CallsType
  <2>4. QED
    BY <1>0, <1>b, <2>1, <2>2, <2>3 DEF KeptUp, Holding
<1>5. CASE ArriveLate(c)
  <2>1. /\ row[c] \in Consents /\ row[c] \in slipped' /\ call'[c] = "over" /\ call[c] = "late"
        /\ UNCHANGED <<secret, lock, row>>
    BY <1>0, <1>5 DEF ArriveLate, LateIsSlipped, UnstoredIsUnused, Sent, Goto, CallsType
  <2>2. \A f \in Consents \ {row[c]} : current'[f] = current[f]
    BY <1>0, <1>5, <2>1 DEF ArriveLate, Rotate, VendorType
  <2>3. \A f \in Consents : Minting(f)' <=> Minting(f)
    BY <1>b, <2>1 DEF Minting
  <2>4. \A d \in Calls : call[d] = "minted" => row[d] \in Consents
    BY <1>a DEF Holding
  <2>5. QED
    BY <1>0, <1>b, <2>1, <2>2, <2>3, <2>4 DEF KeptUp
<1>6. CASE Keep(c)
  <2>1. /\ call[c] = "minted" /\ row[c] \in Consents /\ lock[row[c]] = c
        /\ call'[c] = "over" /\ UNCHANGED <<current, row>> /\ lock' = [lock EXCEPT ![row[c]] = None]
    BY <1>0, <1>a, <1>6 DEF Keep, Goto, Unlocked, Holding, CallsType
  <2>2. /\ \A f \in Consents \ {row[c]} : secret'[f] = secret[f]
        /\ row[c] \in slipped' \/ secret'[row[c]] = token[c]
    BY <1>0, <1>6, <2>1 DEF Keep, Slip, DeploymentType
  <2>3. \A f \in Consents \ {row[c]} : Minting(f) => Minting(f)'
    BY <1>0, <1>b, <2>1 DEF Minting, CallsType
  <2>4. \A d \in Calls \ {c} : call[d] = "spending" => row[d] \in Consents \ {row[c]}
    BY <1>a, <2>1 DEF Holding
  <2>5. QED
    BY <1>0, <1>b, <2>1, <2>2, <2>3, <2>4 DEF KeptUp
<1>7. QED
  BY <1>1, <1>2, <1>3, <1>4, <1>5, <1>6 DEF CallStep

LEMMA KeptUpKept ==
  ASSUME TypeOK, UnstoredIsUnused, HolderHasRow, LateIsSlipped, KeptUp, Next
  PROVE  KeptUp'
<1>0. DeploymentType
  BY DEF TypeOK
<1>1. ASSUME RemovalStep \/ Evict \/ Age  PROVE KeptUp'
  <2>1. UNCHANGED <<lock, calls, secret, current, slipped>>
    BY <1>1, OthersKeepCalls DEF RemovalStep, Deny, List, Retire, Forget, GiveIn, Evict, Age
  <2>2. \A f \in Consents : vault'[f] = "absent" <=> vault[f] = "absent"
    BY <1>0, <1>1 DEF RemovalStep, Deny, List, Retire, Forget, GiveIn, Evict, Age, DeploymentType
  <2>3. QED
    BY <2>1, <2>2 DEF KeptUp, Minting
<1>2. QED
  BY <1>1, Steps, KeptUpByConsents, KeptUpByCalls

LEMMA SpentOnceKept ==
  ASSUME TypeOK, UnstoredIsUnused, HolderHasRow, LateIsSlipped, KeptUp, SpentOnce, Next
  PROVE  SpentOnce'
<1> USE DEF SpentOnce
<1>0. VendorType /\ slipped \subseteq slipped'
  BY SlippedGrows DEF TypeOK
<1>1. CASE UNCHANGED family
  BY <1>0, <1>1
<1>2. ASSUME NEW f \in Consents, Redeem(f)  PROVE SpentOnce'
  BY <1>0, <1>2 DEF Redeem, VendorType
<1>3. ASSUME NEW c \in Calls, Refuse(c)  PROVE SpentOnce'
  <2>1. row[c] \in slipped \/ ~Stolen(c)
    BY <1>3, SpendingIsCurrent DEF Refuse, Stolen
  <2>2. QED
    BY <1>0, <1>3, <2>1 DEF Refuse, VendorType
<1>4. ASSUME NEW c \in Calls, ArriveLate(c)  PROVE SpentOnce'
  BY <1>0, <1>4 DEF ArriveLate, LateIsSlipped, VendorType
<1>5. UNCHANGED family \/ (\E f \in Consents : Redeem(f)) \/ \E c \in Calls : Refuse(c) \/ ArriveLate(c)
  BY DEF Next, Connect, ComeBack, Record, RecordFails, Begin, Look, Lock, Exchange,
         GiveUp, Disown, Keep, Register, Persist, Die,
         Deny, List, Retire, Forget, GiveIn, Evict, Age
<1>6. QED
  BY <1>1, <1>2, <1>3, <1>4, <1>5

LEMMA SpendAtFirst == Init => SpendInv
<1>1. Init => /\ \A f \in Consents : vault[f] = "absent" /\ current[f] = 0 /\ family[f] = "none"
              /\ \A p \in People : held[p] = None
              /\ \A c \in Calls : call[c] = "none"
  BY DEF Init
<1>2. QED
  BY <1>1, TypesAtFirst DEF SpendInv, UnstoredIsUnused, HolderHasRow, LateIsSlipped, KeptUp, SpentOnce,
     Sent, Holding

LEMMA SpendInvKept ==
  ASSUME SpendInv, [Next]_vars
  PROVE  SpendInv'
<1>1. CASE Next
  BY <1>1, TypesKept, UnstoredKept, HolderKept, LateKept, KeptUpKept, SpentOnceKept DEF SpendInv
<1>2. CASE UNCHANGED vars
  BY <1>2 DEF SpendInv, TypeOK, DeploymentType, ClientsType, CallsType, RemovalType, VendorType,
     UnstoredIsUnused, HolderHasRow, LateIsSlipped, KeptUp, Minting, SpentOnce, Sent, Holding
<1>3. QED
  BY <1>1, <1>2

(* Whoever calls, reconnects or is removed, the types hold and no grant is *)
(* lost but where an exchange slipped: connectionTokenFor in store.ts.     *)
THEOREM SpendInvariant == Spec => []SpendInv
  BY SpendAtFirst, SpendInvKept, PTL DEF Spec

(* Every variable keeps its type.                                          *)
THEOREM TypesHold == Spec => []TypeOK
  BY SpendInvariant, PTL DEF SpendInv

(* The vendor never sees a token twice from calls that kept their place.   *)
THEOREM NoTokenIsSpentTwice == Spec => []SpentOnce
  BY SpendInvariant, PTL DEF SpendInv

-----------------------------------------------------------------------------
(* What is live, who holds it, and what a retirement leaves.               *)

LEMMA OutAtFirst == Init => OutInv
  BY DEF Init, OutInv, RetirementIsTheirs, LiveIsHeld, ListedOrUnderway, Live

\* The steps that leave the vault, the connections, the consents and the removals alone.
LEMMA OutUntouched ==
  ASSUME OutInv, UNCHANGED <<consent, vault, held, removal, underway>>
  PROVE  OutInv'
  BY DEF OutInv, RetirementIsTheirs, LiveIsHeld, ListedOrUnderway, Live

LEMMA OutByCalls ==
  ASSUME OutInv, NEW c \in Calls, CallStep(c)
  PROVE  OutInv'
<1>1. UNCHANGED <<consent, vault, held>>
  BY CallsKeepDeployment DEF Keep
<1>2. UNCHANGED underway
  BY CallsKeepVendor DEF Exchange, Refuse, GiveUp, ArriveLate, Keep
<1>3. QED
  BY <1>1, <1>2, CallsKeepRemoval, OutUntouched

LEMMA OutByConsents ==
  ASSUME TypeOK, OutInv, NEW f \in Consents,
         Connect(f) \/ ComeBack(f) \/ Redeem(f) \/ Record(f) \/ RecordFails(f)
  PROVE  OutInv'
<1>0. DeploymentType /\ UNCHANGED <<removal, underway>> /\ Asker[f] \in People
  BY DEF TypeOK, Connect, ComeBack, Redeem, Record, RecordFails
<1>1. RetirementIsTheirs'
  BY <1>0 DEF OutInv, RetirementIsTheirs
<1>2. LiveIsHeld'
  <2>1. CASE UNCHANGED <<vault, held>>
    BY <1>0, <2>1 DEF OutInv, LiveIsHeld, Live
  <2>2. CASE Record(f)
    <3>1. ASSUME NEW p \in People \ denied'  PROVE Live(p)' = { g \in Consents : held'[p] = g }
      <4>1. Live(p) = { g \in Consents : held[p] = g }
        BY <1>0, <3>1 DEF OutInv, LiveIsHeld
      <4>2. CASE p = Asker[f]
        <5>1. held'[p] = f
          BY <1>0, <2>2, <4>2 DEF Record, DeploymentType
        <5>2. \A g \in Consents : vault'[g] = "live" /\ Asker[g] = p <=> g = f
          BY <1>0, <2>2, <4>2 DEF Record, Swapped, Live
        <5>3. QED
          BY <5>1, <5>2 DEF Live
      <4>3. CASE p # Asker[f]
        <5>1. held'[p] = held[p]
          BY <1>0, <2>2, <4>3 DEF Record, DeploymentType
        <5>2. \A g \in Consents : Asker[g] = p => vault'[g] = vault[g]
          BY <1>0, <2>2, <4>3 DEF Record, Swapped, Live, DeploymentType
        <5>3. QED
          BY <4>1, <5>1, <5>2 DEF Live
      <4>4. QED
        BY <4>2, <4>3
    <3>2. QED
      BY <3>1 DEF LiveIsHeld
  <2>3. QED
    BY <2>1, <2>2 DEF Connect, ComeBack, Redeem, RecordFails
<1>3. ListedOrUnderway'
  <2>1. ASSUME NEW p \in People, retiring[p] \in {"listed", "done"}, NEW g \in Consents, Asker[g] = p
        PROVE  /\ vault'[g] = "live" => g \in owned[p] \union underway
               /\ consent'[g] \in {"checked", "granted"} => g \in underway
    <3>1. /\ vault[g] = "live" => g \in owned[p] \union underway
          /\ consent[g] \in {"checked", "granted"} => g \in underway
          /\ p \in denied
      BY <2>1 DEF OutInv, ListedOrUnderway, RetirementIsTheirs
    <3>2. vault'[g] = "live" => vault[g] = "live" \/ (g = f /\ consent[f] = "granted")
      BY <1>0 DEF Connect, ComeBack, Redeem, RecordFails, Record, Swapped
    <3>3. consent'[g] \in {"checked", "granted"} => consent[g] \in {"checked", "granted"} \/ Asker[g] \notin denied
      BY <1>0 DEF Connect, ComeBack, HasAccess, Redeem, RecordFails, Record, DeploymentType
    <3>4. QED
      BY <2>1, <3>1, <3>2, <3>3
  <2>2. QED
    BY <1>0, <2>1 DEF OutInv, ListedOrUnderway
<1>4. QED
  BY <1>1, <1>2, <1>3 DEF OutInv

LEMMA OutByRemovals ==
  ASSUME TypeOK, OutInv, NEW p \in People, Deny(p) \/ List(p) \/ Retire(p) \/ Forget(p) \/ GiveIn(p)
  PROVE  OutInv'
<1> USE DEF OutInv
<1>0. DeploymentType /\ RemovalType /\ VendorType /\ consent' = consent
  BY DEF TypeOK, Deny, List, Retire, Forget, GiveIn
<1>1. /\ \A q \in People \ {p} : retiring'[q] = retiring[q] /\ owned'[q] = owned[q]
      /\ denied \subseteq denied'
  BY <1>0 DEF Deny, List, Retire, Forget, GiveIn, RemovalType
<1>2. p \in denied'
  BY <1>0, <1>1 DEF Deny, List, Retire, Forget, GiveIn, RetirementIsTheirs
<1>3. \A f \in owned'[p] : Asker[f] = p
  BY <1>0 DEF Deny, List, Retire, Forget, GiveIn, Live, RemovalType, RetirementIsTheirs
<1>4. RetirementIsTheirs'
  BY <1>1, <1>2, <1>3 DEF RetirementIsTheirs
<1>5. \A f \in Consents : Asker[f] # p => vault'[f] = vault[f] /\ (f \in underway' <=> f \in underway)
  <2>1. CASE Retire(p)
    BY <1>0, <2>1 DEF Retire, RetirementIsTheirs, DeploymentType
  <2>2. CASE List(p)
    BY <1>0, <2>2 DEF List, VendorType
  <2>3. CASE Deny(p) \/ Forget(p) \/ GiveIn(p)
    BY <2>3 DEF Deny, Forget, GiveIn
  <2>4. QED
    BY <2>1, <2>2, <2>3
<1>6. \A q \in People \ {p} : held'[q] = held[q]
  BY <1>0 DEF Deny, List, Retire, Forget, GiveIn, DeploymentType
<1>7. LiveIsHeld'
  <2>1. ASSUME NEW q \in People \ denied'  PROVE Live(q)' = { f \in Consents : held'[q] = f }
    <3>1. q \in People \ denied /\ q # p
      BY <1>1, <1>2
    <3>2. Live(q)' = Live(q)
      BY <1>5, <3>1 DEF Live
    <3>3. QED
      BY <1>6, <3>1, <3>2 DEF LiveIsHeld
  <2>2. QED
    BY <2>1 DEF LiveIsHeld
<1>8. ListedOrUnderway'
  <2>1. ASSUME retiring'[p] \in {"listed", "done"}, NEW f \in Consents, Asker[f] = p
        PROVE  /\ vault'[f] = "live" => f \in owned'[p] \union underway'
               /\ consent'[f] \in {"checked", "granted"} => f \in underway'
    <3>1. CASE List(p)
      BY <1>0, <2>1, <3>1 DEF List, Live, RemovalType
    <3>2. CASE Retire(p)
      <4>1. retiring[p] = "listed" /\ underway' = underway
        BY <3>2 DEF Retire
      <4>2. PICK g \in owned[p] :
              /\ owned' = [owned EXCEPT ![p] = @ \ {g}]
              /\ vault' = [vault EXCEPT ![g] = "revoked"] \/ (vault' = vault /\ vault[g] # "live")
        BY <3>2 DEF Retire
      <4>3. vault'[f] = "live" => vault[f] = "live" /\ f # g
        BY <1>0, <4>2 DEF DeploymentType
      <4>4. QED
        BY <1>0, <2>1, <4>1, <4>2, <4>3 DEF ListedOrUnderway, RemovalType
    <3>3. CASE Forget(p)
      BY <1>0, <2>1, <3>3 DEF Forget, ListedOrUnderway
    <3>4. CASE Deny(p) \/ GiveIn(p)
      BY <1>0, <2>1, <3>4 DEF Deny, GiveIn, RemovalType
    <3>5. QED
      BY <3>1, <3>2, <3>3, <3>4
  <2>2. retiring'[p] = "done" => owned'[p] = {}
    BY <1>0 DEF Deny, List, Retire, Forget, GiveIn, RemovalType
  <2>3. QED
    BY <1>0, <1>1, <1>5, <2>1, <2>2 DEF ListedOrUnderway
<1>9. QED
  BY <1>4, <1>7, <1>8

LEMMA OutKept ==
  ASSUME TypeOK, OutInv, [Next]_vars
  PROVE  OutInv'
<1>1. UNCHANGED vars \/ Evict \/ Age => OutInv'
  BY OutUntouched DEF Evict, Age
<1>2. QED
  BY <1>1, Steps, OutByCalls, OutByConsents, OutByRemovals DEF ConsentStep, RemovalStep

LEMMA OutMeansOut == OutInv => RemovedIsOut
  BY DEF OutInv, ListedOrUnderway, RemovedIsOut, Live

(* The inductive invariant of the vault, the connections and the removals. *)
THEOREM OutInvariant == Spec => []OutInv
  BY OutAtFirst, OutKept, TypesHold, PTL DEF Spec

(* The vault and the connections of everybody not removed name the same    *)
(* live credential: swapUserCredential in store.ts.                        *)
THEOREM VaultAgrees == Spec => []LiveIsHeld
  BY OutInvariant, PTL DEF OutInv

(* A retirement that ended leaves nothing live but what was let in before  *)
(* and not yet stored: retireConnectionsFor in store.ts.                   *)
THEOREM RetirementIsWhole == Spec => []RemovedIsOut
  BY OutInvariant, OutMeansOut, PTL
=============================================================================

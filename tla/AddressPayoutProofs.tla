------------------------ MODULE AddressPayoutProofs ------------------------
(***************************************************************************)
(* Proofs about AddressPayout, for every set of assets, declared pairs,    *)
(* peers and handles, and any number of concurrent requests and faults.    *)
(*                                                                         *)
(* Handles are stable because an account is read after its insert, and a   *)
(* row is never updated.  The pin is written once, so that it can stand    *)
(* for every answer until a request finds it to be another than its own    *)
(* choice (PinInv).                                                        *)
(***************************************************************************)
EXTENDS AddressPayout, FiniteSetTheorems, TLAPS

-----------------------------------------------------------------------------
(* The operators of AssetPairs.                                            *)

Legs(asset, named) ==
    InvoiceLegs(asset, named) \union ReceiveLegs(named, asset) \union SendLegs(named, asset)

(* Whatever a request of the three routes names or omits, two different    *)
(* assets are exchanged only if CONVERTIBLE_PAIRS declares them.           *)
THEOREM OnlyDeclaredPairsConvert ==
    ASSUME NEW asset \in Asset, NEW named \in Asset \union {None}, NEW leg \in Legs(asset, named),
           leg.inbound # leg.outbound
    PROVE  MayConvert(leg.inbound, leg.outbound)
<1>1. ASSUME NEW inbound, NEW outbound, leg \in Converted(inbound, outbound)
      PROVE  MayConvert(leg.inbound, leg.outbound)
  BY <1>1 DEF Converted, Leg
<1>2. ASSUME NEW a, NEW allowed, leg \in SameAsset(a, allowed) PROVE FALSE
  BY <1>2 DEF SameAsset, Leg
<1>3. ASSUME NEW straight, leg \in LegsOut(named, asset, straight)
      PROVE  MayConvert(leg.inbound, leg.outbound)
  <2>1. PICK inbound \in Named(named, asset) :
           leg \in IF inbound = asset THEN SameAsset(inbound, straight) ELSE Converted(inbound, asset)
    BY <1>3 DEF LegsOut
  <2>. QED BY <1>1, <1>2, <2>1
<1>4. ASSUME leg \in InvoiceLegs(asset, named) PROVE MayConvert(leg.inbound, leg.outbound)
  BY <1>1, <1>2, <1>4 DEF InvoiceLegs, Leg
<1>. QED BY <1>3, <1>4, AssetsAssumption DEF Legs, ReceiveLegs, SendLegs

(* What is read off a list of channels is among them, and paid out.        *)
LEMMA PayoutIsEligible ==
    ASSUME NEW assets PROVE PayoutFromChannels(assets) \in Seen(assets) \union {None}
<1>1. Preferred(Seen(assets)) \subseteq Seen(assets)
  BY DEF Preferred
<1>. QED BY <1>1 DEF PayoutFromChannels

(* Whatever discovery advertises for a payout asset is quoted, for that    *)
(* asset and while no payout asset is known.                               *)
LEMMA AcceptedIsQuoted ==
    ASSUME NEW a \in PayoutEligible, NEW b \in AcceptedAssets(a)
    PROVE  InvoiceLegs(a, b) # {} /\ InvoiceLegs(None, b) # {} /\ b \in Asset
<1>1. a \in Asset /\ a # None
  BY AssetsAssumption DEF PayoutEligible
<1>2. b \in PayoutEligible /\ (b = a \/ MayConvert(b, a))
  BY DEF AcceptedAssets, MayConvert
<1>3. b \in Asset /\ b # None
  BY <1>2, AssetsAssumption DEF PayoutEligible
<1>. QED BY <1>1, <1>2, <1>3 DEF InvoiceLegs, Converted, SameAsset

-----------------------------------------------------------------------------
(* The invariant.                                                          *)

PCs == {"idle", "ensure", "insert", "pin", "list", "persist", "answer"}

TypeInv ==
    /\ handle \in [Peers -> Handles \union {None}]
    /\ pin \in [Peers -> PayoutEligible \union {None}]
    /\ pc \in [Actors -> PCs]
    /\ peer \in [Actors -> Peers \union {None}]
    /\ minted \in [Actors -> Handles \union {None}]
    /\ payout \in [Actors -> PayoutEligible \union {None}]
    /\ told \in [Peers -> SUBSET Handles]
    /\ paidOut \in [Peers -> SUBSET PayoutEligible]
    /\ promised \in [Peers -> SUBSET Asset]
    /\ \A x \in Actors : pc[x] # "idle" => peer[x] \in Peers
    /\ \A x \in Actors : pc[x] = "insert" => minted[x] \in Handles
    /\ \A x \in Actors : pc[x] = "persist" => payout[x] # None

HandleInv ==
    /\ \A p, q \in Peers : handle[p] # None /\ handle[p] = handle[q] => p = q
    /\ \A p \in Peers : told[p] \subseteq {handle[p]}

(* Until a pin is lost, every answer rests on it.                          *)
PinInv ==
    lostPin \/ /\ ~broken
               /\ \A p \in Peers : paidOut[p] \subseteq {pin[p]}
               /\ \A p \in Peers : promised[p] # {} =>
                      pin[p] # None /\ promised[p] \subseteq AcceptedAssets(pin[p])
               /\ \A x \in Actors : pc[x] = "answer" => payout[x] \in {None, pin[peer[x]]}

IInv == TypeInv /\ HandleInv /\ PinInv

-----------------------------------------------------------------------------
(* Every action preserves it.                                              *)

(* A step that writes neither pins nor promises keeps PinInv, if no actor  *)
(* comes to its answer by it.                                              *)
LEMMA PinSame ==
    ASSUME IInv, UNCHANGED <<pin, paidOut, promised, broken, lostPin>>,
           \A x \in Actors : pc'[x] = "answer" =>
               pc[x] = "answer" /\ payout'[x] = payout[x] /\ peer'[x] = peer[x]
    PROVE  PinInv'
BY DEF IInv, PinInv

(* Going on with an account, or without one.                               *)
LEMMA GoesOn ==
    ASSUME IInv, NEW x \in Actors, pc[x] # "idle", Answer(x)
    PROVE  /\ pc' = [pc EXCEPT ![x] = "idle"]
           /\ peer' \in [Actors -> Peers \union {None}]
           /\ minted' \in [Actors -> Handles \union {None}]
           /\ payout' \in [Actors -> PayoutEligible \union {None}]
           /\ \A y \in Actors : y # x => /\ peer'[y] = peer[y] /\ minted'[y] = minted[y]
                                         /\ payout'[y] = payout[y]
BY DEF IInv, TypeInv, Answer, Goto

(* The answer of a request touches nobody else's state.                    *)
LEMMA AnswerType ==
    ASSUME IInv, NEW x \in Actors, pc[x] # "idle", Answer(x), UNCHANGED table,
           told' \in [Peers -> SUBSET Handles], paidOut' \in [Peers -> SUBSET PayoutEligible],
           promised' \in [Peers -> SUBSET Asset]
    PROVE  TypeInv' /\ \A y \in Actors : pc'[y] # "idle" =>
                           y # x /\ pc'[y] = pc[y] /\ payout'[y] = payout[y] /\ peer'[y] = peer[y]
<1>1. \A y \in Actors : pc'[y] = IF y = x THEN "idle" ELSE pc[y]
  BY GoesOn DEF IInv, TypeInv
<1>2. pc' \in [Actors -> PCs]
  BY GoesOn DEF IInv, TypeInv, PCs
<1>. QED BY <1>1, <1>2, GoesOn DEF IInv, TypeInv, table

(* How an actor goes on once it has an account, or can have none.          *)
Continues(x) ==
    \/ Answer(x)
    \/ Goto(x, "pin") /\ minted' = [minted EXCEPT ![x] = None] /\ UNCHANGED <<peer, payout>>

(* It forgets what it minted and answers nothing yet.                      *)
LEMMA EnsuredType ==
    ASSUME IInv, NEW x \in Actors, pc[x] # "idle", UNCHANGED <<table, paidOut, promised>>,
           told' \in [Peers -> SUBSET Handles], Continues(x)
    PROVE  TypeInv' /\ \A y \in Actors : pc'[y] = "answer" =>
                           pc[y] = "answer" /\ payout'[y] = payout[y] /\ peer'[y] = peer[y]
<1>1. CASE Answer(x)
  <2>1. paidOut' \in [Peers -> SUBSET PayoutEligible] /\ promised' \in [Peers -> SUBSET Asset]
    BY DEF IInv, TypeInv
  <2>. QED BY <1>1, <2>1, AnswerType
<1>2. CASE Goto(x, "pin") /\ minted' = [minted EXCEPT ![x] = None] /\ UNCHANGED <<peer, payout>>
  BY <1>2 DEF IInv, TypeInv, Goto, table, PCs
<1>. QED BY <1>1, <1>2 DEF Continues

(* The pins are left alone while accounts are looked up.                   *)
LEMMA EnsuredInv ==
    ASSUME IInv, NEW x \in Actors, pc[x] # "idle",
           UNCHANGED <<table, paidOut, promised, broken, lostPin>>,
           told' \in [Peers -> SUBSET Handles], Continues(x)
    PROVE  TypeInv' /\ PinInv'
<1>1. TypeInv' /\ \A y \in Actors : pc'[y] = "answer" =>
          pc[y] = "answer" /\ payout'[y] = payout[y] /\ peer'[y] = peer[y]
  BY EnsuredType
<1>. QED BY <1>1, PinSame DEF table

(* An account is told only as it is in the table.                          *)
LEMMA GetAccountInv ==
    ASSUME IInv, NEW x \in Actors, GetAccount(x)
    PROVE  IInv'
<1>. USE DEF GetAccount
<1>1. peer[x] \in Peers /\ pc[x] = "ensure" /\ UNCHANGED <<table, paidOut, promised, broken, lostPin>>
  BY DEF IInv, TypeInv
<1>2. CASE handle[peer[x]] # None /\ Ensured(x, handle[peer[x]])
  <2>1. told' = [told EXCEPT ![peer[x]] = @ \union {handle[peer[x]]}]
    BY <1>2 DEF Ensured
  <2>2. told' \in [Peers -> SUBSET Handles]
    BY <1>1, <1>2, <2>1 DEF IInv, TypeInv
  <2>3. TypeInv' /\ PinInv'
    <3>1. Continues(x) /\ pc[x] # "idle"
      BY <1>1, <1>2 DEF Ensured, Continues
    <3>. QED BY <1>1, <2>2, <3>1, EnsuredInv
  <2>4. HandleInv'
    BY <1>1, <2>1 DEF IInv, TypeInv, HandleInv, table
  <2>. QED BY <2>3, <2>4 DEF IInv
<1>3. CASE MintAnother(x)
  <2>. USE <1>3 DEF MintAnother, Goto
  <2>1. TypeInv'
    BY <1>1 DEF IInv, TypeInv, table, PCs
  <2>2. PinInv'
    BY <1>1, PinSame DEF IInv, TypeInv, table
  <2>3. HandleInv'
    BY <1>1 DEF IInv, HandleInv, table
  <2>. QED BY <2>1, <2>2, <2>3 DEF IInv
<1>4. CASE NoAccount(x)
  <2>1. told' \in [Peers -> SUBSET Handles] /\ told' = told
    BY <1>4 DEF NoAccount, IInv, TypeInv
  <2>2. TypeInv' /\ PinInv'
    <3>1. Continues(x) /\ pc[x] # "idle"
      BY <1>1, <1>4 DEF NoAccount, Continues
    <3>. QED BY <1>1, <2>1, <3>1, EnsuredInv
  <2>3. HandleInv'
    BY <1>1, <2>1 DEF IInv, HandleInv, table
  <2>. QED BY <2>2, <2>3 DEF IInv
<1>. QED BY <1>2, <1>3, <1>4

(* An insert takes neither another peer's handle nor a second one.         *)
LEMMA InsertAccountInv ==
    ASSUME IInv, NEW x \in Actors, InsertAccount(x)
    PROVE  IInv'
<1>. USE DEF InsertAccount, local, history, Goto
<1>1. peer[x] \in Peers /\ minted[x] \in Handles
  BY DEF IInv, TypeInv
<1>2. TypeInv'
  BY <1>1 DEF IInv, TypeInv, PCs
<1>3. PinInv'
  BY PinSame DEF IInv, TypeInv
<1>4. HandleInv'
  <2>1. CASE Inserts(peer[x], minted[x])
    <3>1. told[peer[x]] = {}
      BY <1>1, <2>1, ConstantsAssumption DEF IInv, TypeInv, HandleInv, Inserts
    <3>. QED BY <1>1, <2>1, <3>1 DEF IInv, TypeInv, HandleInv, Inserts
  <2>2. CASE ~Inserts(peer[x], minted[x])
    BY <2>2 DEF IInv, HandleInv
  <2>. QED BY <2>1, <2>2
<1>. QED BY <1>2, <1>3, <1>4 DEF IInv

(* A failed account call.                                                  *)
LEMMA AccountFailsInv ==
    ASSUME IInv, NEW x \in Actors, AccountFails(x)
    PROVE  IInv'
<1>. USE DEF AccountFails
<1>1. told' \in [Peers -> SUBSET Handles] /\ told' = told /\ pc[x] # "idle"
  BY DEF NoAccount, IInv, TypeInv
<1>2. TypeInv' /\ PinInv'
  <2>1. Continues(x)
    BY DEF NoAccount, Continues
  <2>. QED BY <1>1, <2>1, EnsuredInv
<1>3. HandleInv'
  BY <1>1 DEF IInv, HandleInv, table
<1>. QED BY <1>2, <1>3 DEF IInv

(* What a write of a pin leaves alone.                                     *)
LEMMA PinnedKeeps ==
    ASSUME IInv, NEW p \in Peers, NEW a \in PayoutEligible
    PROVE  /\ Pinned(p, a) \in [Peers -> PayoutEligible \union {None}]
           /\ \A q \in Peers : pin[q] # None => Pinned(p, a)[q] = pin[q]
BY DEF IInv, TypeInv, Pinned

(* A pin that is kept where it was set keeps what rests on it.             *)
LEMMA PinWritten ==
    ASSUME IInv, UNCHANGED <<paidOut, promised, broken>>, lostPin => lostPin',
           \A p \in Peers : pin[p] # None => pin'[p] = pin[p],
           \A x \in Actors : pc[x] # "idle" => peer[x] \in Peers,
           \A x \in Actors : pc'[x] = "answer" =>
               \/ lostPin'
               \/ payout'[x] = pin'[peer'[x]]
               \/ pc[x] = "answer" /\ payout'[x] = payout[x] /\ peer'[x] = peer[x]
    PROVE  PinInv'
<1>. SUFFICES ASSUME ~lostPin' PROVE PinInv'
  BY DEF PinInv
<1>1. ~lostPin /\ ~broken
  BY DEF IInv, PinInv
<1>2. \A p \in Peers : paidOut'[p] \subseteq {pin'[p]}
  BY <1>1, AssetsAssumption DEF IInv, TypeInv, PinInv, PayoutEligible
<1>3. \A p \in Peers : promised'[p] # {} =>
          pin'[p] # None /\ promised'[p] \subseteq AcceptedAssets(pin'[p])
  BY <1>1 DEF IInv, PinInv
<1>4. \A x \in Actors : pc'[x] = "answer" => payout'[x] \in {None, pin'[peer'[x]]}
  BY <1>1 DEF IInv, PinInv
<1>. QED BY <1>1, <1>2, <1>3, <1>4 DEF PinInv

(* The cron pins what it read off its list, before anybody else or not.    *)
LEMMA PinFromListInv ==
    ASSUME IInv, PinFromList
    PROVE  IInv'
<1>. USE DEF PinFromList, history, Goto
<1>1. Cron \in Actors /\ peer[Cron] \in Peers
  BY DEF Actors, IInv, TypeInv
<1>2. pin' = pin \/ \E a \in PayoutEligible : pin' = Pinned(peer[Cron], a)
  BY PayoutIsEligible DEF PinnedFromList, Seen
<1>3. /\ pin' \in [Peers -> PayoutEligible \union {None}]
      /\ \A p \in Peers : pin[p] # None => pin'[p] = pin[p]
  BY <1>1, <1>2, PinnedKeeps DEF IInv, TypeInv
<1>4. TypeInv'
  BY <1>1, <1>3 DEF IInv, TypeInv, PCs
<1>5. PinInv'
  BY <1>1, <1>3, PinWritten DEF IInv, TypeInv
<1>6. HandleInv'
  BY DEF IInv, HandleInv
<1>. QED BY <1>4, <1>5, <1>6 DEF IInv

(* A tick starts, or goes on with the next peer.                           *)
LEMMA StartTickInv ==
    ASSUME IInv, StartTick
    PROVE  IInv'
<1>. USE DEF StartTick, table, history
<1>1. TypeInv' /\ HandleInv'
  BY DEF IInv, TypeInv, HandleInv
<1>. QED BY <1>1, PinSame DEF IInv

(* The next peer of a tick.                                                *)
LEMMA VisitInv ==
    ASSUME IInv, NEW p \in Peers, Visit(p)
    PROVE  IInv'
<1>. USE DEF Visit, table, history, Goto
<1>0. Cron \in Actors
  BY DEF Actors
<1>1. TypeInv' /\ HandleInv'
  BY <1>0 DEF IInv, TypeInv, HandleInv, PCs
<1>2. PinInv'
  BY <1>0, PinSame DEF IInv, TypeInv
<1>. QED BY <1>1, <1>2 DEF IInv

(* A request comes in.                                                     *)
LEMMA OrderNewInv ==
    ASSUME IInv, NEW x \in Actors, NEW p \in Peers, OrderNew(x, p)
    PROVE  IInv'
<1>. USE DEF OrderNew, table, history, Goto
<1>1. TypeInv' /\ HandleInv'
  BY DEF IInv, TypeInv, HandleInv, PCs
<1>2. PinInv'
  BY PinSame DEF IInv, TypeInv
<1>. QED BY <1>1, <1>2 DEF IInv

(* Discovery and callback start from the pin they read.                    *)
LEMMA LookUpInv ==
    ASSUME IInv, NEW x \in Actors, NEW p \in Peers, NEW k, NEW a, LookUp(x, p, k, a)
    PROVE  IInv'
<1>. USE DEF LookUp, table, history, Goto
<1>1. TypeInv' /\ HandleInv'
  BY DEF IInv, TypeInv, HandleInv, PCs
<1>2. PinInv'
  BY PinWritten DEF IInv, TypeInv
<1>. QED BY <1>1, <1>2 DEF IInv

(* The payout asset is read off the channels of the moment.                *)
LEMMA DerivePayoutInv ==
    ASSUME IInv, NEW x \in Actors, DerivePayout(x)
    PROVE  IInv'
<1>. USE DEF DerivePayout, table, history, Goto
<1>. DEFINE a == PayoutFromChannels(AssetsOf(peer[x], channels))
<1>1. a \in PayoutEligible \union {None}
  BY PayoutIsEligible DEF Seen
<1>2. payout' = [payout EXCEPT ![x] = a] /\ pc' = [pc EXCEPT ![x] = IF a = None THEN "answer" ELSE "persist"]
  OBVIOUS
<1>. HIDE DEF a
<1>3. TypeInv' /\ HandleInv'
  BY <1>1, <1>2 DEF IInv, TypeInv, HandleInv, PCs
<1>4. PinInv'
  BY <1>1, <1>2 DEF IInv, TypeInv, PinInv
<1>. QED BY <1>3, <1>4 DEF IInv

(* The node does not answer.                                               *)
LEMMA DeriveFailsInv ==
    ASSUME IInv, NEW x \in Actors, DeriveFails(x)
    PROVE  IInv'
<1>. USE DEF DeriveFails, history
<1>1. TypeInv' /\ \A y \in Actors : pc'[y] # "idle" =>
          y # x /\ pc'[y] = pc[y] /\ payout'[y] = payout[y] /\ peer'[y] = peer[y]
  BY AnswerType DEF IInv, TypeInv
<1>2. HandleInv' /\ PinInv'
  BY <1>1, PinSame DEF IInv, HandleInv, table
<1>. QED BY <1>1, <1>2 DEF IInv

(* The choice of a request is pinned, or lost.                             *)
LEMMA PersistPayoutInv ==
    ASSUME IInv, NEW x \in Actors, PersistPayout(x)
    PROVE  IInv'
<1>. USE DEF PersistPayout, local, Goto
<1>1. peer[x] \in Peers /\ payout[x] \in PayoutEligible
  BY DEF IInv, TypeInv
<1>2. /\ pin' \in [Peers -> PayoutEligible \union {None}]
      /\ \A p \in Peers : pin[p] # None => pin'[p] = pin[p]
  BY <1>1, PinnedKeeps DEF IInv, TypeInv
<1>3. TypeInv' /\ HandleInv'
  BY <1>1, <1>2 DEF IInv, TypeInv, HandleInv, PCs
<1>4. PinInv'
  BY <1>1, <1>2, PinWritten DEF IInv, TypeInv
<1>. QED BY <1>3, <1>4 DEF IInv

(* Discovery promises what its payout asset converts from, or, when some   *)
(* metadata cannot be had, a part of it.                                   *)
LEMMA AdvertiseInv ==
    ASSUME IInv, NEW x \in Actors, Advertise(x) \/ AdvertiseFails(x)
    PROVE  IInv'
<1>1. /\ pc[x] = "answer" /\ BasedOn(x) /\ Answer(x)
      /\ UNCHANGED <<table, told, broken, lostPin>> /\ peer[x] \in Peers
  BY DEF Advertise, AdvertiseFails, IInv, TypeInv
<1>2. PICK accepted :
        /\ payout[x] = None => accepted = {}
        /\ payout[x] # None => accepted \subseteq AcceptedAssets(payout[x])
        /\ promised' = [promised EXCEPT ![peer[x]] = @ \union accepted]
  <2>1. CASE Advertise(x) /\ payout[x] = None
    <3>1. promised' = [promised EXCEPT ![peer[x]] = @ \union {}]
      BY <2>1 DEF Advertise, IInv, TypeInv
    <3>. QED BY <2>1, <3>1
  <2>2. CASE Advertise(x) /\ payout[x] # None
    BY <2>2 DEF Advertise
  <2>3. CASE AdvertiseFails(x)
    <3>1. PICK accepted \in SUBSET AcceptedAssets(payout[x]) :
            promised' = [promised EXCEPT ![peer[x]] = @ \union accepted]
      BY <2>3 DEF AdvertiseFails
    <3>. QED BY <2>3, <3>1 DEF AdvertiseFails
  <2>. QED BY <2>1, <2>2, <2>3
<1>3. payout[x] \in PayoutEligible \union {None}
  BY DEF IInv, TypeInv
<1>4. accepted \subseteq Asset
  BY <1>2, <1>3, AcceptedIsQuoted
<1>5. /\ promised' \in [Peers -> SUBSET Asset] /\ paidOut' \in [Peers -> SUBSET PayoutEligible]
      /\ told' \in [Peers -> SUBSET Handles]
  BY <1>1, <1>2, <1>3, <1>4 DEF BasedOn, IInv, TypeInv
<1>6. TypeInv' /\ \A y \in Actors : pc'[y] # "idle" =>
          y # x /\ pc'[y] = pc[y] /\ payout'[y] = payout[y] /\ peer'[y] = peer[y]
  BY <1>1, <1>5, AnswerType
<1>7. HandleInv'
  BY <1>1 DEF IInv, HandleInv, table
<1>8. PinInv'
  <2>. SUFFICES ASSUME ~lostPin PROVE PinInv'
    BY <1>1 DEF PinInv
  <2>1. payout[x] \in {None, pin[peer[x]]} /\ ~broken'
    BY <1>1 DEF IInv, PinInv
  <2>2. \A p \in Peers : paidOut'[p] \subseteq {pin'[p]}
    BY <1>1, <2>1 DEF BasedOn, IInv, TypeInv, PinInv, table
  <2>3. \A p \in Peers : promised'[p] # {} =>
            pin'[p] # None /\ promised'[p] \subseteq AcceptedAssets(pin'[p])
    BY <1>1, <1>2, <2>1 DEF IInv, TypeInv, PinInv, table
  <2>4. \A y \in Actors : pc'[y] = "answer" => payout'[y] \in {None, pin'[peer'[y]]}
    BY <1>1, <1>6 DEF IInv, PinInv, table
  <2>. QED BY <2>1, <2>2, <2>3, <2>4 DEF PinInv
<1>. QED BY <1>6, <1>7, <1>8 DEF IInv

(* The callback quotes whatever was promised.                              *)
LEMMA QuoteInv ==
    ASSUME IInv, NEW x \in Actors, Quote(x)
    PROVE  IInv'
<1>. USE DEF Quote
<1>1. /\ pc[x] = "answer" /\ Answer(x) /\ UNCHANGED <<table, told, promised, lostPin>>
      /\ peer[x] \in Peers /\ (BasedOn(x) \/ UNCHANGED paidOut)
      /\ payout[x] \in PayoutEligible \union {None}
  BY DEF IInv, TypeInv
<1>2. /\ promised' \in [Peers -> SUBSET Asset] /\ paidOut' \in [Peers -> SUBSET PayoutEligible]
      /\ told' \in [Peers -> SUBSET Handles]
  BY <1>1 DEF BasedOn, IInv, TypeInv
<1>3. TypeInv' /\ \A y \in Actors : pc'[y] # "idle" =>
          y # x /\ pc'[y] = pc[y] /\ payout'[y] = payout[y] /\ peer'[y] = peer[y]
  BY <1>1, <1>2, AnswerType
<1>4. HandleInv'
  BY <1>1 DEF IInv, HandleInv, table
<1>5. PinInv'
  <2>. SUFFICES ASSUME ~lostPin PROVE PinInv'
    BY <1>1 DEF PinInv
  <2>1. payout[x] \in {None, pin[peer[x]]}
    BY <1>1 DEF IInv, PinInv
  <2>2. \A p \in Peers : paidOut'[p] \subseteq {pin'[p]}
    BY <1>1, <2>1 DEF BasedOn, IInv, TypeInv, PinInv, table
  <2>3. ~broken'
    <3>1. ASSUME asked[x] \in promised[peer[x]] PROVE InvoiceLegs(payout[x], asked[x]) # {}
      <4>1. /\ pin[peer[x]] \in PayoutEligible
            /\ asked[x] \in AcceptedAssets(pin[peer[x]])
        BY <1>1, <3>1 DEF IInv, TypeInv, PinInv
      <4>. QED BY <2>1, <4>1, AcceptedIsQuoted
    <3>. QED BY <3>1 DEF IInv, PinInv
  <2>4. \A y \in Actors : pc'[y] = "answer" => payout'[y] \in {None, pin'[peer'[y]]}
    BY <1>1, <1>3 DEF IInv, PinInv, table
  <2>. QED BY <1>1, <2>2, <2>3, <2>4 DEF IInv, PinInv, table
<1>. QED BY <1>3, <1>4, <1>5 DEF IInv

(* A pair whose metadata cannot be had is refused.                         *)
LEMMA QuoteFailsInv ==
    ASSUME IInv, NEW x \in Actors, QuoteFails(x)
    PROVE  IInv'
<1>. USE DEF QuoteFails, history
<1>1. TypeInv' /\ \A y \in Actors : pc'[y] # "idle" =>
          y # x /\ pc'[y] = pc[y] /\ payout'[y] = payout[y] /\ peer'[y] = peer[y]
  BY AnswerType DEF IInv, TypeInv
<1>2. HandleInv' /\ PinInv'
  BY <1>1, PinSame DEF IInv, HandleInv, table
<1>. QED BY <1>1, <1>2 DEF IInv

(* The empty table satisfies it.                                           *)
LEMMA InitInv == Init => IInv
<1>. SUFFICES ASSUME Init PROVE IInv
  OBVIOUS
<1>1. TypeInv
  BY DEF Init, TypeInv, PCs
<1>2. HandleInv /\ PinInv
  BY DEF Init, HandleInv, PinInv
<1>. QED BY <1>1, <1>2 DEF IInv

(* Every step preserves it, by the lemmas about the actions.               *)
LEMMA NextInv == IInv /\ [Next]_vars => IInv'
<1>. SUFFICES ASSUME IInv, [Next]_vars PROVE IInv'
  OBVIOUS
<1>1. CASE UNCHANGED <<table, pc, local, history>>
  <2>1. TypeInv' /\ HandleInv'
    BY <1>1 DEF IInv, TypeInv, HandleInv, table, local, history
  <2>2. PinInv'
    BY <1>1, PinSame DEF table, local, history
  <2>. QED BY <2>1, <2>2 DEF IInv
<1>2. ASSUME NEW x \in Actors, Ensure(x) PROVE IInv'
  BY <1>2, GetAccountInv, InsertAccountInv, AccountFailsInv DEF Ensure
<1>3. CASE Tick
  BY <1>2, <1>3, StartTickInv, VisitInv, PinFromListInv DEF Tick, Actors
<1>4. ASSUME NEW x \in Requests, Request(x) PROVE IInv'
  <2>1. x \in Actors
    BY DEF Actors
  <2>. QED
    BY <1>2, <1>4, <2>1, OrderNewInv, LookUpInv, DerivePayoutInv, DeriveFailsInv,
       PersistPayoutInv, AdvertiseInv, QuoteInv, QuoteFailsInv DEF Request, Discovery, Callback
<1>. QED BY <1>1, <1>3, <1>4 DEF Next, ChannelChanges, vars

(* The invariant holds in every reachable state.                           *)
THEOREM Invariance == Spec => []IInv
BY InitInv, NextInv, PTL DEF Spec

(* Everybody who is told a peer's handle is told the same, and no two     *)
(* peers are told the same one.                                            *)
THEOREM HandlesDoNotChange == Spec => []HandlesAreStable
<1>1. ASSUME IInv, NEW p \in Peers PROVE Cardinality(told[p]) <= 1
  <2>1. told[p] = {} \/ told[p] = {handle[p]}
    BY <1>1 DEF IInv, HandleInv
  <2>2. Cardinality(told[p]) \in {0, 1}
    BY <2>1, FS_EmptySet, FS_Singleton
  <2>. QED BY <2>2
<1>2. ASSUME IInv, NEW p \in Peers, NEW q \in Peers, p # q PROVE told[p] \intersect told[q] = {}
  BY <1>2, ConstantsAssumption DEF IInv, TypeInv, HandleInv
<1>3. IInv => HandlesAreStable
  BY <1>1, <1>2 DEF HandlesAreStable
<1>. QED BY <1>3, Invariance, PTL

(* All that is answered for an address rests on one payout asset. *)
THEOREM OnePayoutAsset == Spec => []AnswersAgree
<1>1. ASSUME IInv, ~lostPin, NEW p \in Peers PROVE Cardinality(paidOut[p]) <= 1
  <2>1. paidOut[p] = {} \/ paidOut[p] = {pin[p]}
    BY <1>1 DEF IInv, PinInv
  <2>2. Cardinality(paidOut[p]) \in {0, 1}
    BY <2>1, FS_EmptySet, FS_Singleton
  <2>. QED BY <2>2
<1>2. IInv => AnswersAgree
  BY <1>1 DEF AnswersAgree
<1>. QED BY <1>2, Invariance, PTL

(* Discovery promises no quote that the callback refuses. *)
THEOREM QuotesAsPromised == Spec => []PromisesAreKept
<1>1. IInv => PromisesAreKept
  BY DEF IInv, PinInv, PromisesAreKept
<1>. QED BY <1>1, Invariance, PTL
=============================================================================

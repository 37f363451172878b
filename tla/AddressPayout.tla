--------------------------- MODULE AddressPayout ---------------------------
(***************************************************************************)
(* Lightning addresses: the account of a peer, its handle, and the asset   *)
(* the address is paid out in.  The cron goroutine and the requests create *)
(* accounts and pin payout assets at the same time; each database or node  *)
(* call is a step of its own.                                              *)
(*                                                                         *)
(* An actor is the cron goroutine or a request.  A request is an           *)
(* /internal/async_order/new, a discovery or a callback.                   *)
(***************************************************************************)
EXTENDS AssetPairs

CONSTANTS
    Peers,
    Visited,      \* peers the cron sees connected
    Fundable,     \* <<peer, asset>> that may have a channel
    Handles,      \* the handles that may be minted
    RetryLimit,   \* mints per ensureLightningAddressAccount (128)
    Requests,     \* requests in progress at a time
    Cron,         \* the cron goroutine
    MaxFaults

ASSUME ConstantsAssumption ==
    /\ Visited \subseteq Peers /\ Fundable \subseteq Peers \X Asset
    /\ None \notin Peers \cup Handles \cup Requests
    /\ Cron \notin Requests
    /\ RetryLimit \in Nat \ {0} /\ MaxFaults \in Nat

Actors == Requests \cup {Cron}

VARIABLES
    handle,    \* lnaddr_accounts.username, by peer (None: no row)
    pin,       \* lnaddr_accounts.payout_asset_id, by peer
    channels,  \* <<peer, asset>> with a channel
    pc,        \* of each actor
    kind,      \* "order_new", "discovery" or "callback"
    peer,      \* the peer an actor works for
    minted,    \* the handle it is about to insert
    mints,     \* how many it has minted
    payout,    \* the payout asset it knows: read, then derived
    listed,    \* the channels it has read
    asked,     \* the inbound asset of a callback
    todo,      \* peers the tick has still to visit
    told,      \* handles given as a peer's (history)
    paidOut,   \* payout assets that answers for a peer were based on (history)
    promised,  \* assets discovery advertised for a peer (history)
    broken,    \* a callback refused an asset that was advertised (history)
    lostPin,   \* a request answered with an asset it could not pin (history)
    faults

table == <<handle, pin>>
local == <<kind, peer, minted, mints, payout, listed, asked>>
history == <<told, paidOut, promised, broken, lostPin>>
vars == <<table, channels, pc, local, todo, history, faults>>

Init ==
    /\ handle = [p \in Peers |-> None]
    /\ pin = [p \in Peers |-> None]
    /\ channels = {}
    /\ pc = [x \in Actors |-> "idle"]
    /\ kind = [x \in Actors |-> None]
    /\ peer = [x \in Actors |-> None]
    /\ minted = [x \in Actors |-> None]
    /\ mints = [x \in Actors |-> 0]
    /\ payout = [x \in Actors |-> None]
    /\ listed = [x \in Actors |-> {}]
    /\ asked = [x \in Actors |-> None]
    /\ todo = {}
    /\ told = [p \in Peers |-> {}]
    /\ paidOut = [p \in Peers |-> {}]
    /\ promised = [p \in Peers |-> {}]
    /\ broken = FALSE /\ lostPin = FALSE
    /\ faults = 0

Fault == faults < MaxFaults /\ faults' = faults + 1

Goto(x, l) == pc' = [pc EXCEPT ![x] = l]

AssetsOf(p, chans) == {a \in Asset : <<p, a>> \in chans}

(* A request is over: its locals are gone. *)
Answer(x) ==
    /\ Goto(x, "idle")
    /\ kind' = [kind EXCEPT ![x] = None]
    /\ peer' = [peer EXCEPT ![x] = None]
    /\ payout' = [payout EXCEPT ![x] = None]
    /\ listed' = [listed EXCEPT ![x] = {}]
    /\ asked' = [asked EXCEPT ![x] = None]
    /\ minted' = [minted EXCEPT ![x] = None]
    /\ mints' = [mints EXCEPT ![x] = 0]

-----------------------------------------------------------------------------
(* The node's channels: opened and closed by the peers, or by the cron's    *)
(* provisioning (ChannelProvisioning).                                      *)
ChannelChanges ==
    /\ \E c \in Fundable :
          channels' = IF c \in channels THEN channels \ {c} ELSE channels \cup {c}
    /\ UNCHANGED <<table, pc, local, todo, history, faults>>

-----------------------------------------------------------------------------
(* ensureLightningAddressAccount(peer[x]).  Ensured is where an actor goes  *)
(* on once it has the account.                                              *)

Ensured(x, h) ==
    /\ told' = [told EXCEPT ![peer[x]] = @ \cup {h}]
    /\ IF x = Cron
       THEN /\ Goto(x, "pin") /\ minted' = [minted EXCEPT ![x] = None]
            /\ mints' = [mints EXCEPT ![x] = 0]
            /\ UNCHANGED <<kind, peer, payout, listed, asked>>
       ELSE Answer(x)

(* A handle is minted at random; the account is about to be inserted. *)
MintAnother(x) ==
    /\ mints[x] < RetryLimit
    /\ \E h \in Handles : minted' = [minted EXCEPT ![x] = h]
    /\ mints' = [mints EXCEPT ![x] = @ + 1]
    /\ Goto(x, "insert")
    /\ UNCHANGED <<kind, peer, payout, listed, asked, told>>

(* No account can be had: the cron goes on without one, a request fails.    *)
NoAccount(x) ==
    /\ UNCHANGED told
    /\ IF x = Cron
       THEN /\ Goto(x, "pin") /\ minted' = [minted EXCEPT ![x] = None]
            /\ mints' = [mints EXCEPT ![x] = 0]
            /\ UNCHANGED <<kind, peer, payout, listed, asked>>
       ELSE Answer(x)

GetAccount(x) ==
    /\ pc[x] = "ensure"
    /\ IF handle[peer[x]] # None THEN Ensured(x, handle[peer[x]])
       ELSE MintAnother(x) \/ (mints[x] = RetryLimit /\ NoAccount(x))
    /\ UNCHANGED <<table, channels, todo, paidOut, promised, broken, lostPin, faults>>

(* INSERT OR IGNORE, with two unique keys.  Inserted or not, the row is     *)
(* read next.                                                               *)
Inserts(p, h) == handle[p] = None /\ \A q \in Peers : handle[q] # h

InsertAccountTrusting(x) ==
    /\ pc[x] = "insert"
    /\ handle' = IF Inserts(peer[x], minted[x])
                 THEN [handle EXCEPT ![peer[x]] = minted[x]] ELSE handle
    /\ Ensured(x, minted[x])
    /\ UNCHANGED <<pin, channels, todo, paidOut, promised, broken, lostPin, faults>>

InsertAccount(x) ==
    /\ pc[x] = "insert"
    /\ handle' = IF Inserts(peer[x], minted[x])
                 THEN [handle EXCEPT ![peer[x]] = minted[x]] ELSE handle
    /\ Goto(x, "ensure")
    /\ UNCHANGED <<pin, channels, local, todo, history, faults>>

AccountFails(x) ==
    /\ pc[x] \in {"ensure", "insert"}
    /\ Fault
    /\ NoAccount(x)
    /\ UNCHANGED <<table, channels, todo, paidOut, promised, broken, lostPin>>

-----------------------------------------------------------------------------
(* SetLightningAddressPayoutAsset: writes once. *)
PinnedAnew(p, a) ==
    IF handle[p] # None THEN [pin EXCEPT ![p] = a] ELSE pin
Pinned(p, a) ==
    IF handle[p] # None /\ pin[p] = None THEN [pin EXCEPT ![p] = a] ELSE pin

(* reconcileChannels as far as accounts go: the list of the connected peers *)
(* and of the channels, then peer after peer.                               *)
StartTick ==
    /\ pc[Cron] = "idle" /\ todo = {}
    /\ listed' = [listed EXCEPT ![Cron] = channels]
    /\ todo' = Visited
    /\ UNCHANGED <<table, channels, pc, kind, peer, minted, mints, payout, asked, history, faults>>

Visit(p) ==
    /\ pc[Cron] = "idle" /\ p \in todo
    /\ todo' = todo \ {p}
    /\ peer' = [peer EXCEPT ![Cron] = p]
    /\ Goto(Cron, "ensure")
    /\ UNCHANGED <<table, channels, kind, minted, mints, payout, listed, asked, history, faults>>

(* What the pins are after a visit: pinned before the visit looks for a     *)
(* channel that is there already.                                           *)
PinnedUnlessServed(p, assets) ==
    IF PayoutFromChannels(assets) = None \/ assets \cap Supported # {} THEN pin
    ELSE Pinned(p, PayoutFromChannels(assets))
PinnedFromList(p, assets) ==
    IF PayoutFromChannels(assets) = None THEN pin
    ELSE Pinned(p, PayoutFromChannels(assets))

(* A failed write is logged. *)
PinFromList ==
    /\ pc[Cron] = "pin"
    /\ LET assets == AssetsOf(peer[Cron], listed[Cron])
       IN  \/ pin' = PinnedFromList(peer[Cron], assets) /\ UNCHANGED faults
           \/ PayoutFromChannels(assets) # None /\ Fault /\ UNCHANGED pin
    /\ peer' = [peer EXCEPT ![Cron] = None]
    /\ listed' = [listed EXCEPT ![Cron] = IF todo = {} THEN {} ELSE @]
    /\ Goto(Cron, "idle")
    /\ UNCHANGED <<handle, channels, kind, minted, mints, payout, asked, todo, history>>

-----------------------------------------------------------------------------
(* Requests.                                                               *)

OrderNew(x, p) ==
    /\ pc[x] = "idle"
    /\ peer' = [peer EXCEPT ![x] = p]
    /\ kind' = [kind EXCEPT ![x] = "order_new"]
    /\ Goto(x, "ensure")
    /\ UNCHANGED <<table, channels, minted, mints, payout, listed, asked, todo, history, faults>>

(* Discovery and callback look the account up by its handle. *)
LookUp(x, p, k, a) ==
    /\ pc[x] = "idle" /\ handle[p] # None
    /\ peer' = [peer EXCEPT ![x] = p]
    /\ kind' = [kind EXCEPT ![x] = k]
    /\ asked' = [asked EXCEPT ![x] = a]
    /\ payout' = [payout EXCEPT ![x] = pin[p]]
    /\ Goto(x, IF pin[p] = None THEN "list" ELSE "answer")
    /\ UNCHANGED <<table, channels, minted, mints, listed, todo, history, faults>>

Discovery(x, p) == LookUp(x, p, "discovery", None)
Callback(x, p) == \E a \in Asset : LookUp(x, p, "callback", a)

(* payoutAssetFromChannels *)
DerivePayout(x) ==
    /\ pc[x] = "list"
    /\ LET a == PayoutFromChannels(AssetsOf(peer[x], channels))
       IN  /\ payout' = [payout EXCEPT ![x] = a]
           /\ Goto(x, IF a = None THEN "answer" ELSE "persist")
    /\ UNCHANGED <<table, channels, kind, peer, minted, mints, listed, asked, todo, history, faults>>

(* A discovery without an answer of the node advertises nothing, a callback *)
(* is refused.                                                              *)
DeriveFails(x) ==
    /\ pc[x] = "list"
    /\ Fault
    /\ Answer(x)
    /\ UNCHANGED <<table, channels, todo, history>>

(* The answer is based on what was derived, whether or not it could be      *)
(* pinned, and whatever is pinned by then.                                  *)
PersistPayout(x) ==
    /\ pc[x] = "persist"
    /\ \/ pin' = Pinned(peer[x], payout[x]) /\ UNCHANGED faults
       \/ Fault /\ UNCHANGED pin
    /\ lostPin' = (lostPin \/ pin'[peer[x]] # payout[x])
    /\ Goto(x, "answer")
    /\ UNCHANGED <<handle, channels, local, todo, told, paidOut, promised, broken>>

BasedOn(x) ==
    paidOut' = IF payout[x] = None THEN paidOut
               ELSE [paidOut EXCEPT ![peer[x]] = @ \cup {payout[x]}]

(* Metadata that cannot be had takes an asset off the list. *)
Advertise(x) ==
    /\ pc[x] = "answer" /\ kind[x] = "discovery"
    /\ promised' = IF payout[x] = None THEN promised
                   ELSE [promised EXCEPT ![peer[x]] = @ \cup AcceptedAssets(payout[x])]
    /\ BasedOn(x)
    /\ Answer(x)
    /\ UNCHANGED <<table, channels, todo, told, broken, lostPin, faults>>

AdvertiseFails(x) ==
    /\ pc[x] = "answer" /\ kind[x] = "discovery" /\ payout[x] # None
    /\ Fault
    /\ \E accepted \in SUBSET AcceptedAssets(payout[x]) :
          /\ accepted = {} \/ payout[x] \in accepted
          /\ promised' = [promised EXCEPT ![peer[x]] = @ \cup accepted]
    /\ BasedOn(x)
    /\ Answer(x)
    /\ UNCHANGED <<table, channels, todo, told, broken, lostPin>>

Quote(x) ==
    /\ pc[x] = "answer" /\ kind[x] = "callback"
    /\ IF InvoiceLegs(payout[x], asked[x]) # {}
       THEN BasedOn(x) /\ UNCHANGED broken
       ELSE broken' = (broken \/ asked[x] \in promised[peer[x]]) /\ UNCHANGED paidOut
    /\ Answer(x)
    /\ UNCHANGED <<table, channels, todo, told, promised, lostPin, faults>>

(* The metadata of a converted pair cannot be had: refused. *)
QuoteFails(x) ==
    /\ pc[x] = "answer" /\ kind[x] = "callback"
    /\ payout[x] \notin {None, asked[x]}
    /\ Fault
    /\ Answer(x)
    /\ UNCHANGED <<table, channels, todo, history>>

Ensure(x) == GetAccount(x) \/ InsertAccount(x) \/ AccountFails(x)

Tick == StartTick \/ (\E p \in Peers : Visit(p)) \/ Ensure(Cron) \/ PinFromList

Request(x) ==
    \/ \E p \in Peers : OrderNew(x, p) \/ Discovery(x, p) \/ Callback(x, p)
    \/ Ensure(x) \/ DerivePayout(x) \/ DeriveFails(x) \/ PersistPayout(x)
    \/ Advertise(x) \/ AdvertiseFails(x) \/ Quote(x) \/ QuoteFails(x)

Next == ChannelChanges \/ Tick \/ \E x \in Requests : Request(x)

Spec == Init /\ [][Next]_vars /\ WF_vars(Tick)

-----------------------------------------------------------------------------
(* However accounts are created at the same time, everybody who is told a  *)
(* peer's handle is told the same one, and no two peers the same.          *)
HandlesAreStable ==
    \A p, q \in Peers :
        /\ Cardinality(told[p]) <= 1
        /\ p # q => told[p] \cap told[q] = {}

(* All that is advertised and quoted for an address rests on one payout     *)
(* asset, whatever becomes of the channels it was derived from, unless a    *)
(* request found its choice not pinned: the write failed, or another actor  *)
(* had pinned another asset since the account was read.                     *)
AnswersAgree == lostPin \/ \A p \in Peers : Cardinality(paidOut[p]) <= 1

(* Discovery promises no quote that the callback then refuses.              *)
PromisesAreKept == broken => lostPin

(* A connected peer that has an address and whose channels name one payout  *)
(* asset for good has one pinned in the end, whether or not it ever asks.   *)
ChannelGetsPinned ==
    \A p \in Visited :
        (<>[](handle[p] # None /\ PayoutFromChannels(AssetsOf(p, channels)) # None))
            => <>(pin[p] # None)
=============================================================================

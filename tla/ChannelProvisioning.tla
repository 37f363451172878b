------------------------ MODULE ChannelProvisioning ------------------------
(***************************************************************************)
(* The cron's reconcileChannels and maintainUtxos: every connected peer    *)
(* gets a channel in every supported asset, unless it is paid out in       *)
(* another asset or was seen first only a moment ago.  All decisions of a  *)
(* tick are taken from the channel list read at its start, while peers     *)
(* come, go, fund and close channels.                                      *)
(*                                                                         *)
(* The node lists channels that are still opening.  Connections come from  *)
(* /listpeers, so that a peer is to have every supported asset.            *)
(***************************************************************************)
EXTENDS AssetPairs, UtxoPool

CONSTANTS Peers, MaxChannelChanges

ASSUME ProvisioningAssumption == None \notin Peers /\ MaxChannelChanges \in Nat

Pair == Peers \X Asset
Intents == Peers \X Supported

VARIABLES
    connected,  \* the peers the node is connected to
    opening,    \* channels of the LSP's that are not usable yet, by pair
    usable,     \* usable channels of the LSP's, by pair
    funded,     \* <<peer, asset>> with a channel the peer funded
    lateOpen,   \* openings carried out after their timeout
    age,        \* of a peer's account: "none", "young" (within the grace) or "old"
    pin,        \* its payout asset
    stage,      \* of the tick
    listed,     \* the pairs with a channel, as listed
    todo,       \* intents the tick has still to visit
    visiting,   \* the intent it visits
    known,      \* it has the peer's account
    readPin,    \* the payout asset in it
    changes,    \* channel changes so far
    chosen,     \* the asset a peer funded its first channel in (history)
    selfFunded, \* peers that have funded a channel (history)
    missed,     \* peers whose choice the running tick missed (history)
    unread,     \* peers whose account could not be read once (history)
    timedOut    \* an opening timed out (history)

node == <<connected, opening, usable, funded, lateOpen, age, changes, chosen>>
locals == <<listed, todo, visiting, known, readPin>>
history == <<selfFunded, missed, unread, timedOut>>
vars == <<node, pin, stage, locals, history, pool, counted, faults>>

Init ==
    /\ PoolInit
    /\ connected = {} /\ funded = {} /\ lateOpen = {}
    /\ opening = [c \in Intents |-> 0] /\ usable = [c \in Intents |-> 0]
    /\ age = [p \in Peers |-> "none"] /\ pin = [p \in Peers |-> None]
    /\ stage = "list" /\ listed = {} /\ todo = {} /\ visiting = None
    /\ known = FALSE /\ readPin = None
    /\ changes = 0
    /\ chosen = [p \in Peers |-> None] /\ selfFunded = {} /\ missed = {}
    /\ unread = {} /\ timedOut = FALSE

Ours(c) == c \in Intents /\ opening[c] + usable[c] > 0
Channels == {c \in Pair : c \in funded \/ Ours(c)}
AssetsIn(p, chans) == {a \in Asset : <<p, a>> \in chans}

ChannelChange == changes < MaxChannelChanges /\ changes' = changes + 1

-----------------------------------------------------------------------------
(* Peers and the node.                                                     *)

Connect(p) ==
    /\ p \notin connected
    /\ connected' = connected \cup {p}
    /\ UNCHANGED <<opening, usable, funded, lateOpen, age, changes, chosen>>
    /\ UNCHANGED <<pin, history>>

Disconnect(p) ==
    /\ p \in connected /\ ChannelChange
    /\ connected' = connected \ {p}
    /\ UNCHANGED <<opening, usable, funded, lateOpen, age, chosen>>
    /\ UNCHANGED <<pin, history>>

(* Funded by the peer; its choice, when it is its first channel, in an      *)
(* asset the LSP pays out, and the grace is not over.  A tick that has      *)
(* listed already does not see it.  A second asset takes a choice back that *)
(* is not pinned yet: the channels name no payout asset any more.           *)
Chooses(p, a) ==
    /\ age[p] # "old" /\ p \notin selfFunded /\ AssetsIn(p, Channels) = {}
    /\ a \in PayoutEligible

PeerFunds(p, a) ==
    /\ <<p, a>> \notin funded /\ ChannelChange
    /\ funded' = funded \cup {<<p, a>>}
    /\ chosen' = [chosen EXCEPT ![p] = IF Chooses(p, a) THEN a
                                       ELSE IF pin[p] = @ \/ a = @ THEN @ ELSE None]
    /\ missed' = IF Chooses(p, a) /\ stage # "list" THEN missed \cup {p} ELSE missed
    /\ selfFunded' = selfFunded \cup {p}
    /\ UNCHANGED <<connected, opening, usable, lateOpen, age>>
    /\ UNCHANGED <<pin, unread, timedOut>>

(* A channel that is closed before it was pinned is no choice any more.     *)
FundedCloses(c) ==
    /\ c \in funded /\ ChannelChange
    /\ funded' = funded \ {c}
    /\ chosen' = IF pin[c[1]] = c[2] THEN chosen
                 ELSE [chosen EXCEPT ![c[1]] = IF @ = c[2] THEN None ELSE @]
    /\ UNCHANGED <<connected, opening, usable, lateOpen, age>>
    /\ UNCHANGED <<pin, history>>

OursGetsUsable(c) ==
    /\ opening[c] > 0
    /\ opening' = [opening EXCEPT ![c] = @ - 1]
    /\ usable' = [usable EXCEPT ![c] = @ + 1]
    /\ UNCHANGED <<connected, funded, lateOpen, age, changes, chosen>>
    /\ UNCHANGED <<pin, history>>

OursCloses(c) ==
    /\ usable[c] > 0 /\ ChannelChange
    /\ usable' = [usable EXCEPT ![c] = @ - 1]
    /\ UNCHANGED <<connected, opening, funded, lateOpen, age, chosen>>
    /\ UNCHANGED <<pin, history>>

GraceEnds(p) ==
    /\ age[p] = "young"
    /\ age' = [age EXCEPT ![p] = "old"]
    /\ UNCHANGED <<connected, opening, usable, funded, lateOpen, changes, chosen>>
    /\ UNCHANGED <<pin, history>>

(* /internal/async_order/new creates the account of a peer as well.         *)
OrderNew(p) ==
    /\ age[p] = "none"
    /\ age' = [age EXCEPT ![p] = "young"]
    /\ UNCHANGED <<connected, opening, usable, funded, lateOpen, changes, chosen>>
    /\ UNCHANGED <<pin, history>>

(* A discovery or a callback pins what the channels say by now.             *)
RequestPins(p) ==
    LET a == PayoutFromChannels(AssetsIn(p, Channels))
    IN  /\ age[p] # "none" /\ pin[p] = None /\ a # None
        /\ pin' = [pin EXCEPT ![p] = a]
        /\ UNCHANGED <<connected, opening, usable, funded, lateOpen, age, changes, chosen>>
        /\ UNCHANGED <<history>>

OpenedLate(c) ==
    /\ c \in lateOpen
    /\ lateOpen' = lateOpen \ {c}
    /\ opening' = [opening EXCEPT ![c] = @ + 1]
    /\ UNCHANGED <<connected, usable, funded, age, changes, chosen>>
    /\ UNCHANGED <<pin, history>>

Environment ==
    /\ \/ \E p \in Peers : \/ Connect(p) \/ Disconnect(p) \/ GraceEnds(p)
                           \/ OrderNew(p) \/ RequestPins(p)
                           \/ \E a \in Asset : PeerFunds(p, a)
       \/ \E c \in Intents : OursGetsUsable(c) \/ OursCloses(c) \/ OpenedLate(c)
       \/ \E c \in Pair : FundedCloses(c)
    /\ UNCHANGED <<stage, locals, pool, counted, faults>>

-----------------------------------------------------------------------------
(* reconcileChannels.                                                      *)

ListChannels ==
    /\ stage = "list"
    /\ listed' = Channels
    /\ todo' = {c \in Intents : c[1] \in connected}
    /\ stage' = "visit"
    /\ UNCHANGED <<node, pin, visiting, known, readPin, history, pool, counted, faults>>

(* The node does not answer: on to the UTXOs.                               *)
ListFails ==
    /\ stage = "list" /\ Fault
    /\ stage' = "unspents"
    /\ UNCHANGED <<node, pin, locals, history, pool, counted>>

(* ensureLightningAddressAccount; AddressPayout has its steps.  Without the *)
(* account the visit goes on.                                               *)
Visit(c) ==
    LET p == c[1]
    IN  /\ stage = "visit" /\ c \in todo
        /\ todo' = todo \ {c} /\ visiting' = c
        /\ age' = [age EXCEPT ![p] = IF @ = "none" THEN "young" ELSE @]
        /\ \/ known' = TRUE /\ readPin' = pin[p] /\ UNCHANGED <<unread, faults>>
           \/ Fault /\ known' = FALSE /\ readPin' = None /\ unread' = unread \cup {p}
        /\ stage' = "pin"
        /\ UNCHANGED <<connected, opening, usable, funded, lateOpen, changes, chosen>>
        /\ UNCHANGED <<pin, listed, selfFunded, missed, timedOut, pool, counted>>

(* SetLightningAddressPayoutAsset, once and for all; a failure is logged.   *)
PinFromList ==
    /\ stage = "pin"
    /\ LET p == visiting[1]
           a == PayoutFromChannels(AssetsIn(p, listed))
       IN  \/ /\ pin' = IF a # None /\ pin[p] = None THEN [pin EXCEPT ![p] = a] ELSE pin
              /\ UNCHANGED faults
           \/ a # None /\ Fault /\ UNCHANGED pin
    /\ stage' = "open"
    /\ UNCHANGED <<node, locals, history, pool, counted>>

(* existing *)
OnceUsable(c) == c \in funded \/ usable[c] > 0
Exists(c) == c \in listed

(* skipProvisioning: the peer is paid out in another asset.                 *)
FromListOnly(p) == PayoutFromChannels(AssetsIn(p, listed))
Payout(p) == IF readPin # None THEN readPin ELSE PayoutFromChannels(AssetsIn(p, listed))

PayoutMismatch(c) == Payout(c[1]) \notin {None, c[2]}

(* skipProvisioning: its own funding may still have to land.                *)
NoGrace(c) == FALSE
SinceLastSeen(c) == known /\ AssetsIn(c[1], listed) = {}
WithinGrace(c) == known /\ age[c[1]] = "young" /\ AssetsIn(c[1], listed) = {}

Skipped(c) == Exists(c) \/ PayoutMismatch(c) \/ WithinGrace(c)

(* The node opens the channel if a UTXO can fund it.  A failure is logged; *)
(* the outcome of an opening that timed out is not known.                   *)
OpenChannel ==
    LET c == visiting
        done == stage' = "visit" /\ visiting' = None /\ known' = FALSE /\ readPin' = None
    IN  /\ stage = "open" /\ done
        /\ \/ (Skipped(c) \/ ~CanUse) /\ UNCHANGED <<opening, lateOpen, timedOut, free, faults>>
           \/ /\ ~Skipped(c) /\ CanUse /\ Used
              /\ opening' = [opening EXCEPT ![c] = @ + 1]
              /\ UNCHANGED <<lateOpen, timedOut, faults>>
           \/ /\ ~Skipped(c) /\ CanUse /\ Used /\ Fault
              /\ lateOpen' = lateOpen \cup {c} /\ timedOut' = TRUE
              /\ UNCHANGED opening
           \/ /\ ~Skipped(c) /\ Fault
              /\ UNCHANGED <<opening, lateOpen, timedOut, free>>
        /\ UNCHANGED <<connected, usable, funded, age, changes, chosen, pin, listed, todo>>
        /\ UNCHANGED <<selfFunded, missed, unread>>
        /\ UNCHANGED <<unconfirmed, reserved, receives, lateCreate, returned, counted>>

Reconciled ==
    /\ stage = "visit" /\ todo = {}
    /\ stage' = "unspents"
    /\ listed' = {}
    /\ UNCHANGED <<node, pin, todo, visiting, known, readPin, history, pool, counted, faults>>

-----------------------------------------------------------------------------
(* maintainUtxos, and the rest of the tick.                                *)
UnspentsListed ==
    /\ stage = "unspents"
    /\ \/ ListUnspents /\ stage' = "create" /\ UNCHANGED faults
       \/ Fault /\ stage' = "list" /\ UNCHANGED <<pool, counted>>
    /\ UNCHANGED <<node, pin, locals, history>>

UtxosCreated ==
    /\ stage = "create"
    /\ CreateUtxos
    /\ counted' = 0
    /\ stage' = "list"
    /\ UNCHANGED <<node, pin, locals, history>>

(* The process stops and starts again with its first tick.                  *)
Restart ==
    /\ stage # "list" /\ Fault
    /\ stage' = "list" /\ counted' = 0
    /\ listed' = {} /\ todo' = {} /\ visiting' = None
    /\ known' = FALSE /\ readPin' = None
    /\ UNCHANGED <<node, pin, history, pool>>

Tick ==
    \/ ListChannels \/ ListFails \/ (\E c \in Intents : Visit(c)) \/ PinFromList
    \/ OpenChannel \/ Reconciled \/ UnspentsListed \/ UtxosCreated

WalletStep ==
    /\ Wallet
    /\ UNCHANGED <<node, pin, stage, locals, history>>

Next == Environment \/ Tick \/ WalletStep \/ Restart

(* The cron runs, the node confirms.                                        *)
Spec ==
    /\ Init /\ [][Next]_vars /\ WF_vars(Tick)
    /\ WF_vars(Confirm /\ UNCHANGED <<node, pin, stage, locals, history>>)

-----------------------------------------------------------------------------
(* The LSP opens one channel for an intent, not another while the first is  *)
(* there, opening or usable, unless an opening outlived its timeout.        *)
NoSecondChannel == timedOut \/ \A c \in Intents : opening[c] + usable[c] <= 1

(* Within the grace the cron leaves the first channel to the peer, unless   *)
(* its account could not be read.                                           *)
GraceHolds ==
    \A p \in Peers \ unread :
        (age[p] # "old" /\ p \notin selfFunded) => \A a \in Supported : ~Ours(<<p, a>>)

(* A peer that chose an asset within the grace gets no channel in another   *)
(* from the cron, and for good once the choice is pinned, unless the tick   *)
(* that ran then had listed the channels before, the account could not be   *)
(* read, or the peer funded a second asset before the pin.                  *)
ChoiceIsKept ==
    \A p \in Peers \ (missed \cup unread) :
        chosen[p] # None => \A a \in Supported \ {chosen[p]} : ~Ours(<<p, a>>)

(* Nothing but what came back or came late since the cron counted lifts the *)
(* free UTXOs above the target: no /createutxos stacks upon another whose   *)
(* UTXOs have not confirmed.                                                *)
NoStacking ==
    [][(stage = "create" /\ stage' = "list" /\ free' > free)
          => free' <= Target + returned]_vars

(* A peer that stays connected, is not within the grace and is not paid out *)
(* in another asset has its channel again and again.                        *)
PeerIsServed ==
    \A p \in Peers, a \in Supported :
        <>[](/\ p \in connected /\ age[p] = "old"
             /\ pin[p] \in {None, a}
             /\ PayoutFromChannels(AssetsIn(p, Channels)) \in {None, a})
            => []<>(<<p, a>> \in Channels)
=============================================================================

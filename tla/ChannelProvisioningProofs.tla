--------------------- MODULE ChannelProvisioningProofs ---------------------
(***************************************************************************)
(* Proofs about the cron's provisioning, for every set of peers, assets,   *)
(* pairs and preferences, and any number of faults and channel changes.    *)
(*                                                                         *)
(* A tick opens channels by a list it read before, so that what it may     *)
(* still open is tied to that list: an intent that is still ahead and not  *)
(* listed has no channel (OpenInv), a peer the tick has met has the        *)
(* account of the grace (GraceInv), and a choice made before the tick is   *)
(* in its list or pinned (ChoiceInv).  What the cron counted of the pool   *)
(* bounds what is free until it creates UTXOs (PoolInv).                   *)
(***************************************************************************)
EXTENDS ChannelProvisioning, FiniteSetTheorems, TLAPS

-----------------------------------------------------------------------------
(* The operators of AssetPairs.                                            *)

(* What is read off a list of channels is among them, and paid out.        *)
LEMMA PayoutIsEligible ==
    ASSUME NEW assets PROVE PayoutFromChannels(assets) \in Seen(assets) \union {None}
<1>1. Preferred(Seen(assets)) \subseteq Seen(assets)
  BY DEF Preferred
<1>. QED BY <1>1 DEF PayoutFromChannels

(* Channels in one asset that is paid out name that asset.                 *)
LEMMA PayoutOfOne ==
    ASSUME NEW a \in PayoutEligible PROVE PayoutFromChannels({a}) = a
<1>1. Seen({a}) = {a} /\ Cardinality({a}) = 1
  BY FS_Singleton DEF Seen
<1>. QED BY <1>1 DEF PayoutFromChannels

-----------------------------------------------------------------------------
(* The invariant.                                                          *)

Stages == {"list", "visit", "pin", "open", "unspents", "create"}
Met == stage \in {"pin", "open"}
Running == stage \in {"visit", "pin", "open"}

TypeInv ==
    /\ stage \in Stages
    /\ opening \in [Intents -> Nat] /\ usable \in [Intents -> Nat]
    /\ lateOpen \subseteq Intents /\ todo \subseteq Intents
    /\ funded \subseteq Pair
    /\ age \in [Peers -> {"none", "young", "old"}]
    /\ pin \in [Peers -> Asset \union {None}]
    /\ chosen \in [Peers -> Asset \union {None}]
    /\ Met => visiting \in Intents

(* Where the tick may still open a channel there is none.                  *)
OpenInv ==
    \/ timedOut
    \/ /\ lateOpen = {}
       /\ \A c \in Intents : opening[c] + usable[c] <= 1
       /\ todo # {} => Running
       /\ Met => visiting \notin todo
       /\ \A c \in Intents \ listed :
            c \in todo \/ (Met /\ c = visiting) => opening[c] + usable[c] = 0

(* The cron, or one of its openings, may have given the peer a channel.    *)
Free(p) == age[p] = "old" \/ p \in selfFunded \/ p \in unread

GraceInv ==
    /\ \A c \in Intents : Ours(c) \/ c \in lateOpen => Free(c[1])
    /\ \A c \in funded : c[1] \in selfFunded
    /\ \A c \in listed : Free(c[1])
    /\ \A p \in Peers : pin[p] # None => Free(p)
    /\ Met => age[visiting[1]] # "none" /\ (known \/ visiting[1] \in unread)

(* A choice that is not pinned is the only asset of the peer's channels.   *)
Chose(p, a) ==
    /\ a \in PayoutEligible /\ p \in selfFunded
    /\ pin[p] \in {None, a}
    /\ pin[p] = None => AssetsIn(p, funded) = {a}
    /\ \A b \in Supported \ {a} : ~Ours(<<p, b>>) /\ <<p, b>> \notin lateOpen
    /\ Running => pin[p] = a \/ AssetsIn(p, listed) = {a}
    /\ Met /\ visiting[1] = p =>
         readPin = a \/ (readPin = None /\ AssetsIn(p, listed) = {a})

ChoiceInv ==
    \A p \in Peers \ (missed \union unread) : chosen[p] # None => Chose(p, chosen[p])

IInv == TypeInv /\ OpenInv /\ GraceInv /\ ChoiceInv

-----------------------------------------------------------------------------
(* Lemmas: one for each action.                                            *)

(* Nothing is there and nothing is known when the process starts first.    *)
LEMMA InitInv == Init => IInv
<1>. SUFFICES ASSUME Init PROVE IInv
  OBVIOUS
<1>. USE DEF Init
<1>1. TypeInv /\ OpenInv
  BY DEF TypeInv, OpenInv, Stages, Met
<1>2. GraceInv /\ ChoiceInv
  BY DEF GraceInv, ChoiceInv, Ours, Met
<1>. QED BY <1>1, <1>2 DEF IInv

(* What the invariant is about.                                            *)
subject == <<opening, usable, funded, lateOpen, age, chosen, pin, stage, locals, history>>

(* Connections, the wallet and the ends of a tick are none of it.          *)
LEMMA SameInv ==
    ASSUME IInv, UNCHANGED subject PROVE IInv'
<1>. USE DEF subject, locals, history
<1>1. TypeInv' /\ OpenInv'
  BY DEF IInv, TypeInv, OpenInv, Met, Running
<1>2. GraceInv' /\ ChoiceInv'
  BY DEF IInv, GraceInv, ChoiceInv, Chose, Free, Met, Running, Ours, AssetsIn
<1>. QED BY <1>1, <1>2 DEF IInv

(* A channel the peer funds is seen by the next tick.                      *)
LEMMA PeerFundsInv ==
    ASSUME IInv, NEW p \in Peers, NEW a \in Asset, PeerFunds(p, a), UNCHANGED <<stage, locals>>
    PROVE  IInv'
<1>. USE DEF PeerFunds, locals
<1>1. TypeInv'
  BY DEF IInv, TypeInv, Met, Pair, Chooses
<1>2. OpenInv'
  BY DEF IInv, OpenInv, Met, Running
<1>3. GraceInv'
  BY DEF IInv, GraceInv, Free, Met, Ours, Pair
<1>4. ASSUME NEW q \in Peers \ (missed' \union unread'), chosen'[q] # None
      PROVE  Chose(q, chosen[q])'
  <2>1. CASE q = p /\ Chooses(p, a)
    <3>1. q \notin selfFunded /\ q \notin unread /\ age[q] # "old" /\ stage = "list"
      BY <1>4, <2>1 DEF Chooses
    <3>2. pin[q] = None /\ AssetsIn(q, funded') = {a} /\ chosen'[q] = a
      BY <2>1, <3>1 DEF IInv, TypeInv, GraceInv, Free, Chooses, AssetsIn, Channels
    <3>3. \A b \in Supported : ~Ours(<<q, b>>) /\ <<q, b>> \notin lateOpen
      BY <3>1 DEF IInv, GraceInv, Free, Intents
    <3>. QED BY <2>1, <3>1, <3>2, <3>3 DEF Chose, Chooses, Met, Running, Ours, AssetsIn
  <2>2. CASE ~(q = p /\ Chooses(p, a))
    <3>1. chosen'[q] = chosen[q] /\ q \notin missed \union unread
      BY <1>4, <2>2 DEF IInv, TypeInv
    <3>2. Chose(q, chosen[q])
      BY <1>4, <3>1 DEF IInv, ChoiceInv
    <3>3. pin[q] = None => AssetsIn(q, funded') = {chosen[q]}
      <4>1. q = p => pin[q] = chosen[q] \/ a = chosen[q]
        BY <1>4, <2>2 DEF IInv, TypeInv
      <4>. QED BY <1>4, <3>1, <3>2, <4>1 DEF Chose, AssetsIn
    <3>. QED BY <3>1, <3>2, <3>3 DEF Chose, Met, Running, Ours, AssetsIn
  <2>. QED BY <2>1, <2>2
<1>. QED BY <1>1, <1>2, <1>3, <1>4 DEF IInv, ChoiceInv

(* A choice that is not pinned goes with its channel.                      *)
LEMMA FundedClosesInv ==
    ASSUME IInv, NEW c \in Pair, FundedCloses(c), UNCHANGED <<stage, locals>>
    PROVE  IInv'
<1>. USE DEF FundedCloses, locals, history
<1>1. TypeInv' /\ OpenInv'
  BY DEF IInv, TypeInv, OpenInv, Met, Running, Pair
<1>2. GraceInv'
  BY DEF IInv, GraceInv, Free, Met, Ours
<1>3. ASSUME NEW q \in Peers \ (missed \union unread), chosen'[q] # None
      PROVE  Chose(q, chosen[q])' /\ chosen'[q] = chosen[q]
  <2>1. chosen'[q] = chosen[q]
    BY <1>3 DEF IInv, TypeInv, Pair
  <2>2. Chose(q, chosen[q])
    BY <1>3, <2>1 DEF IInv, ChoiceInv
  <2>3. pin[q] = None => AssetsIn(q, funded') = AssetsIn(q, funded)
    <3>1. ASSUME pin[q] = None, c[1] = q PROVE c[2] # chosen[q]
      BY <1>3, <2>1, <3>1 DEF IInv, TypeInv, Pair
    <3>. QED BY <2>2, <3>1 DEF Chose, AssetsIn
  <2>. QED BY <2>1, <2>2, <2>3 DEF Chose, Met, Running, Ours, AssetsIn
<1>. QED BY <1>1, <1>2, <1>3 DEF IInv, ChoiceInv, history

(* A channel that gets usable is one as before.                            *)
LEMMA OursGetsUsableInv ==
    ASSUME IInv, NEW c \in Intents, OursGetsUsable(c), UNCHANGED <<stage, locals>>
    PROVE  IInv'
<1>. USE DEF OursGetsUsable, locals, history
<1>1. TypeInv' /\ \A d \in Intents : opening'[d] + usable'[d] = opening[d] + usable[d]
  BY DEF IInv, TypeInv, Met
<1>2. OpenInv'
  BY <1>1 DEF IInv, OpenInv, Met, Running
<1>3. \A d : Ours(d)' <=> Ours(d)
  BY <1>1 DEF Ours
<1>4. GraceInv' /\ ChoiceInv'
  BY <1>3 DEF IInv, GraceInv, ChoiceInv, Chose, Free, Met, Running, AssetsIn
<1>. QED BY <1>1, <1>2, <1>4 DEF IInv

(* A channel that is closed leaves room for none: it is still listed.      *)
LEMMA OursClosesInv ==
    ASSUME IInv, NEW c \in Intents, OursCloses(c), UNCHANGED <<stage, locals>>
    PROVE  IInv'
<1>. USE DEF OursCloses, locals, history
<1>1. TypeInv' /\ \A d \in Intents : opening'[d] + usable'[d] <= opening[d] + usable[d]
  BY DEF IInv, TypeInv, Met
<1>2. OpenInv'
  BY <1>1 DEF IInv, TypeInv, OpenInv, Met, Running
<1>3. \A d : Ours(d)' => Ours(d)
  BY <1>1 DEF IInv, TypeInv, Ours
<1>4. GraceInv' /\ ChoiceInv'
  BY <1>3 DEF IInv, GraceInv, ChoiceInv, Chose, Free, Met, Running, AssetsIn
<1>. QED BY <1>1, <1>2, <1>4 DEF IInv

(* The grace ends.                                                         *)
LEMMA GraceEndsInv ==
    ASSUME IInv, NEW p \in Peers, GraceEnds(p), UNCHANGED <<stage, locals>>
    PROVE  IInv'
<1>. USE DEF GraceEnds, locals, history
<1>1. TypeInv' /\ OpenInv'
  BY DEF IInv, TypeInv, OpenInv, Met, Running
<1>2. GraceInv' /\ ChoiceInv'
  BY DEF IInv, TypeInv, GraceInv, ChoiceInv, Chose, Free, Met, Running, Ours, AssetsIn, Intents
<1>. QED BY <1>1, <1>2 DEF IInv

(* A request creates the account.                                          *)
LEMMA OrderNewInv ==
    ASSUME IInv, NEW p \in Peers, OrderNew(p), UNCHANGED <<stage, locals>>
    PROVE  IInv'
<1>. USE DEF OrderNew, locals, history
<1>1. TypeInv' /\ OpenInv'
  BY DEF IInv, TypeInv, OpenInv, Met, Running
<1>2. GraceInv' /\ ChoiceInv'
  BY DEF IInv, TypeInv, GraceInv, ChoiceInv, Chose, Free, Met, Running, Ours, AssetsIn, Intents
<1>. QED BY <1>1, <1>2 DEF IInv

(* The channels of a peer with an unpinned choice are all in that asset.   *)
LEMMA ChannelsOfChoice ==
    ASSUME IInv, NEW p \in Peers \ (missed \union unread), chosen[p] # None, pin[p] = None
    PROVE  AssetsIn(p, Channels) = {chosen[p]}
<1>1. Chose(p, chosen[p]) /\ chosen[p] \in Asset
  BY DEF IInv, TypeInv, ChoiceInv
<1>2. ASSUME NEW b \in Asset, <<p, b>> \in Channels, b # chosen[p] PROVE <<p, b>> \in funded
  BY <1>1, <1>2 DEF Chose, Channels, Ours, Intents
<1>. QED BY <1>1, <1>2 DEF Chose, AssetsIn, Channels, Pair

(* A pin is written by what the channels name, once.                       *)
LEMMA RequestPinsInv ==
    ASSUME IInv, NEW p \in Peers, RequestPins(p), UNCHANGED <<stage, locals>>
    PROVE  IInv'
<1>. USE DEF RequestPins, locals, history
<1>. DEFINE a == PayoutFromChannels(AssetsIn(p, Channels))
<1>1. a \in AssetsIn(p, Channels) /\ pin' = [pin EXCEPT ![p] = a] /\ pin[p] = None
  BY PayoutIsEligible DEF Seen
<1>2. chosen[p] # None /\ p \notin missed \union unread => a = chosen[p]
  BY <1>1, ChannelsOfChoice
<1>3. Free(p)
  <2>1. <<p, a>> \in Channels
    BY <1>1 DEF AssetsIn
  <2>2. <<p, a>> \in funded \/ Ours(<<p, a>>)
    BY <2>1 DEF Channels
  <2>. QED BY <2>2 DEF IInv, GraceInv, Free, Ours
<1>. HIDE DEF a
<1>4. TypeInv' /\ OpenInv'
  BY <1>1 DEF IInv, TypeInv, OpenInv, Met, Running, AssetsIn
<1>5. GraceInv'
  BY <1>1, <1>3 DEF IInv, TypeInv, GraceInv, Free, Met, Ours
<1>6. ChoiceInv'
  BY <1>1, <1>2 DEF IInv, TypeInv, ChoiceInv, Chose, Met, Running, Ours, AssetsIn
<1>. QED BY <1>4, <1>5, <1>6 DEF IInv

(* Only a channel whose opening timed out comes late.                      *)
LEMMA OpenedLateInv ==
    ASSUME IInv, NEW c \in Intents, OpenedLate(c), UNCHANGED <<stage, locals>>
    PROVE  IInv'
<1>. USE DEF OpenedLate, locals, history
<1>1. TypeInv' /\ OpenInv'
  BY DEF IInv, TypeInv, OpenInv, Met, Running
<1>2. \A d : Ours(d)' \/ d \in lateOpen' => Ours(d) \/ d \in lateOpen
  BY DEF IInv, TypeInv, Ours
<1>3. GraceInv' /\ ChoiceInv'
  BY <1>2 DEF IInv, GraceInv, ChoiceInv, Chose, Free, Met, Running, AssetsIn, Intents
<1>. QED BY <1>1, <1>3 DEF IInv

(* What a tick lists is there, and an unpinned choice is all it lists.     *)
LEMMA ListChannelsInv ==
    ASSUME IInv, ListChannels
    PROVE  IInv'
<1>. USE DEF ListChannels, node, history
<1>1. TypeInv'
  BY DEF IInv, TypeInv, Stages, Met, Intents
<1>2. ASSUME NEW c \in Intents \ Channels, c \in todo' PROVE opening[c] + usable[c] = 0
  BY <1>2, AssetsAssumption DEF IInv, TypeInv, Channels, Ours, Pair, Intents
<1>3. OpenInv'
  BY <1>2 DEF IInv, OpenInv, Met, Running
<1>4. GraceInv'
  BY DEF IInv, GraceInv, Free, Met, Ours, Channels
<1>5. ChoiceInv'
  BY ChannelsOfChoice DEF IInv, ChoiceInv, Chose, Met, Running, Ours, AssetsIn
<1>. QED BY <1>1, <1>3, <1>4, <1>5 DEF IInv

(* A visit is to a peer with an account, or the account is unread.         *)
LEMMA VisitInv ==
    ASSUME IInv, NEW c \in Intents, Visit(c)
    PROVE  IInv'
<1>. USE DEF Visit
<1>0. c[1] \in Peers
  BY DEF Intents
<1>1. TypeInv' /\ OpenInv'
  BY <1>0 DEF IInv, TypeInv, OpenInv, Stages, Met, Running
<1>2. GraceInv'
  BY <1>0 DEF IInv, TypeInv, GraceInv, Free, Met, Ours, Intents
<1>3. ChoiceInv'
  BY <1>0 DEF IInv, TypeInv, ChoiceInv, Chose, Met, Running, Ours, AssetsIn
<1>. QED BY <1>1, <1>2, <1>3 DEF IInv

(* A tick pins what it has listed.                                         *)
LEMMA PinFromListInv ==
    ASSUME IInv, PinFromList
    PROVE  IInv'
<1>. USE DEF PinFromList, node, locals, history
<1>. DEFINE p == visiting[1]
<1>. DEFINE a == PayoutFromChannels(AssetsIn(p, listed))
<1>1. p \in Peers /\ Met /\ Running
  BY DEF IInv, TypeInv, Met, Running, Intents
<1>2. pin' = pin \/ (a # None /\ pin[p] = None /\ pin' = [pin EXCEPT ![p] = a])
  OBVIOUS
<1>3. a # None => a \in AssetsIn(p, listed)
  BY PayoutIsEligible DEF Seen
<1>4. a # None /\ pin[p] = None /\ chosen[p] # None /\ p \notin missed \union unread => a = chosen[p]
  BY <1>1, <1>3 DEF IInv, ChoiceInv, Chose
<1>5. a # None => Free(p)
  <2>1. a # None => <<p, a>> \in listed
    BY <1>3 DEF AssetsIn
  <2>. QED BY <2>1 DEF IInv, GraceInv, Free
<1>. HIDE DEF a
<1>6. TypeInv' /\ OpenInv'
  BY <1>1, <1>2, <1>3 DEF IInv, TypeInv, OpenInv, Stages, Met, Running, AssetsIn
<1>7. GraceInv'
  BY <1>1, <1>2, <1>5 DEF IInv, TypeInv, GraceInv, Free, Met, Ours
<1>8. ChoiceInv'
  BY <1>1, <1>2, <1>4 DEF IInv, TypeInv, ChoiceInv, Chose, Met, Running, Ours, AssetsIn
<1>. QED BY <1>6, <1>7, <1>8 DEF IInv

(* The channel that is opened: not listed, so that there is none; neither  *)
(* within the grace nor in another asset than the peer's choice.           *)
LEMMA OpenChannelInv ==
    ASSUME IInv, OpenChannel
    PROVE  IInv'
<1>. USE DEF OpenChannel
<1>. DEFINE c == visiting
            p == visiting[1]
<1>1. stage = "open" /\ stage' = "visit" /\ Met /\ Running /\ ~Met' /\ c \in Intents /\ p \in Peers
  BY DEF IInv, TypeInv, Met, Running, Intents
<1>2. \/ opening' = opening /\ lateOpen' = lateOpen /\ timedOut' = timedOut
      \/ /\ ~Skipped(c) /\ opening' = [opening EXCEPT ![c] = @ + 1]
         /\ lateOpen' = lateOpen /\ timedOut' = timedOut
      \/ ~Skipped(c) /\ opening' = opening /\ lateOpen' = lateOpen \union {c} /\ timedOut'
  OBVIOUS
<1>3. TypeInv'
  BY <1>1, <1>2 DEF IInv, TypeInv, Stages
<1>4. OpenInv'
  <2>1. ASSUME ~timedOut, ~Skipped(c) PROVE opening[c] + usable[c] = 0 /\ c \notin todo
    BY <1>1, <2>1 DEF IInv, OpenInv, Skipped, Exists
  <2>2. UNCHANGED <<usable, todo, listed>>
    OBVIOUS
  <2>. QED BY <1>1, <1>2, <2>1, <2>2 DEF IInv, TypeInv, OpenInv, Running
<1>5. ~Skipped(c) => Free(p)
  <2>1. AssetsIn(p, listed) # {} => Free(p)
    BY DEF IInv, GraceInv, AssetsIn
  <2>. QED BY <1>1, <2>1 DEF IInv, TypeInv, GraceInv, Skipped, WithinGrace, Free
<1>6. GraceInv'
  BY <1>1, <1>2, <1>5 DEF IInv, TypeInv, GraceInv, Free, Ours
<1>7. ~Skipped(c) /\ p \notin missed \union unread /\ chosen[p] # None => c[2] = chosen[p]
  <2>1. SUFFICES ASSUME p \notin missed \union unread, chosen[p] # None
                 PROVE  Payout(p) = chosen[p]
    BY <1>1, AssetsAssumption DEF Skipped, PayoutMismatch, IInv, TypeInv
  <2>2. Chose(p, chosen[p]) /\ chosen[p] \in PayoutEligible
    BY <1>1, <2>1 DEF IInv, ChoiceInv, Chose
  <2>. QED BY <1>1, <2>1, <2>2, PayoutOfOne DEF Chose, Payout
<1>8. ChoiceInv'
  BY <1>1, <1>2, <1>7 DEF IInv, TypeInv, ChoiceInv, Chose, Running, Ours, AssetsIn, Intents
<1>. QED BY <1>3, <1>4, <1>6, <1>8 DEF IInv

(* Once a tick is over nothing of it is left to be opened.                 *)
LEMMA TickEndsInv ==
    ASSUME IInv,
           stage' \in {"list", "unspents", "create"}, listed' \in {listed, {}},
           todo' \subseteq todo, timedOut \/ todo' = {},
           UNCHANGED <<opening, usable, funded, lateOpen, age, chosen, pin, history>>
    PROVE  IInv'
<1>. USE DEF history
<1>1. TypeInv' /\ ~Met' /\ ~Running'
  BY DEF IInv, TypeInv, Stages, Met, Running
<1>2. OpenInv' /\ GraceInv' /\ ChoiceInv'
  BY <1>1 DEF IInv, OpenInv, GraceInv, ChoiceInv, Chose, Free, Ours, AssetsIn
<1>. QED BY <1>1, <1>2 DEF IInv

(* ListFails, Reconciled, the two steps about the UTXOs, and a restart.    *)
LEMMA OtherStepsInv ==
    ASSUME IInv, ListFails \/ Reconciled \/ UnspentsListed \/ UtxosCreated \/ Restart
    PROVE  IInv'
<1>1. UNCHANGED <<opening, usable, funded, lateOpen, age, chosen, pin, history>>
  BY DEF ListFails, Reconciled, UnspentsListed, UtxosCreated, Restart, node
<1>2. stage' \in {"list", "unspents", "create"} /\ listed' \in {listed, {}}
  BY DEF ListFails, Reconciled, UnspentsListed, UtxosCreated, Restart, locals
<1>3. todo' \subseteq todo /\ (timedOut \/ todo' = {})
  BY DEF IInv, OpenInv, Running, ListFails, Reconciled, UnspentsListed, UtxosCreated, Restart, locals
<1>. QED BY <1>1, <1>2, <1>3, TickEndsInv

(* Every step keeps the invariant.                                         *)
LEMMA NextInv == IInv /\ [Next]_vars => IInv'
<1>. SUFFICES ASSUME IInv, [Next]_vars PROVE IInv'
  OBVIOUS
<1>1. CASE Environment
  <2>1. UNCHANGED <<stage, locals>>
    BY <1>1 DEF Environment
  <2>2. CASE \E p \in Peers : Connect(p) \/ Disconnect(p)
    <3>1. UNCHANGED subject
      BY <2>1, <2>2 DEF Connect, Disconnect, subject
    <3>. QED BY <3>1, SameInv
  <2>3. CASE \E p \in Peers : GraceEnds(p) \/ OrderNew(p) \/ RequestPins(p)
                              \/ \E a \in Asset : PeerFunds(p, a)
    BY <2>1, <2>3, GraceEndsInv, OrderNewInv, RequestPinsInv, PeerFundsInv
  <2>4. CASE \E c \in Intents : OursGetsUsable(c) \/ OursCloses(c) \/ OpenedLate(c)
    BY <2>1, <2>4, OursGetsUsableInv, OursClosesInv, OpenedLateInv
  <2>5. CASE \E c \in Pair : FundedCloses(c)
    BY <2>1, <2>5, FundedClosesInv
  <2>. QED BY <1>1, <2>2, <2>3, <2>4, <2>5 DEF Environment
<1>2. CASE Tick
  BY <1>2, ListChannelsInv, VisitInv, PinFromListInv, OpenChannelInv, OtherStepsInv DEF Tick
<1>3. CASE WalletStep \/ UNCHANGED vars
  <2>1. UNCHANGED subject
    BY <1>3 DEF WalletStep, vars, node, subject
  <2>. QED BY <2>1, SameInv
<1>4. CASE Restart
  BY <1>4, OtherStepsInv
<1>. QED BY <1>1, <1>2, <1>3, <1>4 DEF Next

-----------------------------------------------------------------------------
(* The theorems.                                                           *)

(* What the cron may still open, for whom, and in which asset.             *)
THEOREM Invariance == Spec => []IInv
<1>. QED BY InitInv, NextInv, PTL DEF Spec

(* No second channel for an intent, whatever peers fund and close while a  *)
(* tick works on its list, and whatever fails short of a timeout.          *)
THEOREM NoSecondChannelHolds == Spec => []NoSecondChannel
<1>1. IInv => NoSecondChannel
  BY DEF IInv, OpenInv, NoSecondChannel
<1>. QED BY <1>1, Invariance, PTL

(* No channel of the cron's before the grace is over or the peer has       *)
(* funded one, whoever creates the account and whenever it ages.           *)
THEOREM GraceAlwaysHolds == Spec => []GraceHolds
<1>1. IInv => GraceHolds
  BY DEF IInv, GraceInv, Free, Ours, Intents, GraceHolds
<1>. QED BY <1>1, Invariance, PTL

(* No channel in an asset other than the one the peer chose in time,       *)
(* whichever of the ticks and the requests pins it.                        *)
THEOREM ChoiceIsAlwaysKept == Spec => []ChoiceIsKept
<1>1. IInv => ChoiceIsKept
  BY DEF IInv, ChoiceInv, Chose, ChoiceIsKept
<1>. QED BY <1>1, Invariance, PTL

-----------------------------------------------------------------------------
(* The pool.                                                               *)

(* Between the count and the creation only what returned or came late adds *)
(* to the free UTXOs.                                                      *)
PoolInv ==
    /\ free \in Nat /\ unconfirmed \in Nat /\ unconfirmed <= free
    /\ reserved \in Nat /\ lateCreate \in Nat
    /\ counted \in Nat /\ returned \in Nat
    /\ stage = "create" => free <= counted + returned

(* The wallet's steps.                                                     *)
LEMMA WalletPool ==
    ASSUME PoolInv, WalletStep PROVE PoolInv'
<1>. USE DEF PoolInv, WalletStep
<1>1. CASE Confirm
  BY <1>1 DEF Confirm
<1>2. CASE BlindReceive
  BY <1>2 DEF BlindReceive, CanUse, Used
<1>3. CASE ReceiveSettles
  BY <1>3 DEF ReceiveSettles
<1>4. CASE ReceiveExpires
  BY <1>4 DEF ReceiveExpires
<1>5. CASE CreatedLate
  BY <1>5 DEF CreatedLate
<1>. QED BY <1>1, <1>2, <1>3, <1>4, <1>5 DEF Wallet

(* A channel takes one of the confirmed UTXOs.                             *)
LEMMA OpenChannelPool ==
    ASSUME PoolInv, OpenChannel PROVE PoolInv'
<1>1. stage' = "visit" /\ UNCHANGED <<unconfirmed, reserved, lateCreate, returned, counted>>
  BY DEF OpenChannel
<1>2. free' = free \/ (CanUse /\ Used)
  BY DEF OpenChannel
<1>. QED BY <1>1, <1>2 DEF PoolInv, CanUse, Used

(* The count is what is free, and nothing has come since.                  *)
LEMMA UnspentsListedPool ==
    ASSUME PoolInv, UnspentsListed PROVE PoolInv'
<1>1. CASE ListUnspents /\ stage' = "create"
  BY <1>1 DEF PoolInv, ListUnspents, FreeColorable
<1>2. CASE stage' = "list" /\ UNCHANGED <<pool, counted>>
  BY <1>2 DEF PoolInv, pool
<1>. QED BY <1>1, <1>2 DEF UnspentsListed

(* As many are created, now or late, as lack the target.                   *)
LEMMA UtxosCreatedPool ==
    ASSUME PoolInv, UtxosCreated PROVE PoolInv'
<1>1. stage' = "list" /\ counted' = 0
  BY DEF UtxosCreated
<1>2. Wanting => Target - counted \in Nat
  BY PoolAssumption DEF PoolInv, Wanting
<1>. QED BY <1>1, <1>2 DEF PoolInv, UtxosCreated, CreateUtxos, pool

(* The steps that leave the pool and the count as they are, or forget it.  *)
LEMMA SamePool ==
    ASSUME PoolInv, UNCHANGED pool,
           \/ counted' = counted /\ stage' \in {stage, "list", "visit", "pin", "open", "unspents"}
           \/ counted' = 0 /\ stage' = "list"
    PROVE  PoolInv'
BY DEF PoolInv, pool

(* Every step keeps the invariant of the pool.                             *)
LEMMA NextPool == PoolInv /\ [Next]_vars => PoolInv'
<1>. SUFFICES ASSUME PoolInv, [Next]_vars PROVE PoolInv'
  OBVIOUS
<1>1. CASE Environment \/ UNCHANGED vars
  BY <1>1, SamePool DEF Environment, vars
<1>2. CASE ListChannels \/ ListFails \/ (\E c \in Intents : Visit(c)) \/ PinFromList \/ Reconciled
  <2>1. UNCHANGED <<pool, counted>> /\ stage' \in {"visit", "unspents", "pin", "open"}
    BY <1>2 DEF ListChannels, ListFails, Visit, PinFromList, Reconciled
  <2>. QED BY <2>1, SamePool
<1>3. CASE OpenChannel \/ UnspentsListed \/ UtxosCreated
  BY <1>3, OpenChannelPool, UnspentsListedPool, UtxosCreatedPool
<1>4. CASE WalletStep
  BY <1>4, WalletPool
<1>5. CASE Restart
  BY <1>5, SamePool DEF Restart
<1>. QED BY <1>1, <1>2, <1>3, <1>4, <1>5 DEF Next, Tick

(* A pool that starts empty, used by channels and receives and refilled by *)
(* the cron, is never used below what is confirmed in it.                  *)
THEOREM PoolInvariance == Spec => []PoolInv
<1>1. Init => PoolInv
  BY DEF Init, PoolInit, PoolInv
<1>. QED BY <1>1, NextPool, PTL DEF Spec

(* No /createutxos of the cron's lifts the pool above the target but by    *)
(* what came back, or came late from one that timed out, since its count.  *)
THEOREM NothingStacks == Spec => NoStacking
<1>. DEFINE A == (stage = "create" /\ stage' = "list" /\ free' > free)
                   => free' <= Target + returned
<1>1. PoolInv /\ [Next]_vars => A
  <2>. SUFFICES ASSUME PoolInv, [Next]_vars, stage = "create", stage' = "list", free' > free
                PROVE  free' <= Target + returned
    OBVIOUS
  <2>1. UtxosCreated
    <3>1. free' # free /\ stage # stage' /\ free \in Nat
      BY DEF PoolInv
    <3>2. ~(Environment \/ WalletStep \/ Restart \/ UNCHANGED vars)
      BY <3>1 DEF Environment, WalletStep, Restart, vars, pool
    <3>3. ~(ListChannels \/ ListFails \/ (\E c \in Intents : Visit(c)) \/ PinFromList
              \/ OpenChannel \/ Reconciled \/ UnspentsListed)
      BY DEF ListChannels, ListFails, Visit, PinFromList, OpenChannel, Reconciled, UnspentsListed
    <3>. QED BY <3>2, <3>3 DEF Next, Tick
  <2>2. Wanting /\ free' = free + (Target - counted)
    <3>1. free' # free
      BY DEF PoolInv
    <3>. QED BY <2>1, <3>1 DEF UtxosCreated, CreateUtxos, pool
  <2>. QED BY <2>2, PoolAssumption DEF PoolInv
<1>. QED BY <1>1, PoolInvariance, PTL DEF Spec, NoStacking
=============================================================================

----------------------------- MODULE AssetPairs -----------------------------
(***************************************************************************)
(* Which asset comes in and which goes out, for the three routes that may  *)
(* convert.  A resolution is a set of legs: empty when the request is      *)
(* refused.  Amounts are carried over 1:1 and left out.                    *)
(***************************************************************************)
EXTENDS Naturals, Sequences, FiniteSets

CONSTANTS
    Asset,         \* RGB contracts
    Supported,     \* SUPPORTED_ASSET_IDS: provisioned and paid out
    Convertible,   \* CONVERTIBLE_ASSET_IDS: paid out, never provisioned
    Pairs,         \* CONVERTIBLE_PAIRS, as written
    Preference,    \* PAYOUT_ASSET_PREFERENCE, most preferred first
    Precision,     \* decimals, by asset
    None           \* no asset: bitcoin, or not known

ASSUME AssetsAssumption ==
    /\ None \notin Asset
    /\ Supported \subseteq Asset /\ Convertible \subseteq Asset
    /\ Pairs \subseteq Asset \X Asset
    /\ Preference \in Seq(Asset)
    /\ Precision \in [Asset -> Nat]

PayoutEligible == Supported \cup Convertible

(* isConvertiblePair: declared in either direction. *)
ConvertiblePair(x, y) == x # y /\ (<<x, y>> \in Pairs \/ <<y, x>> \in Pairs)

(* ensureConvertiblePair *)
MayConvert(x, y) ==
    /\ {x, y} \subseteq PayoutEligible
    /\ ConvertiblePair(x, y)
    /\ Precision[x] = Precision[y]

Counterparts(x) == {y \in Asset : ConvertiblePair(x, y)}

Leg(inbound, outbound) == [inbound |-> inbound, outbound |-> outbound]

(* The legs of a request that names both assets. *)
Converted(inbound, outbound) ==
    IF MayConvert(inbound, outbound) THEN {Leg(inbound, outbound)} ELSE {}

SameAsset(asset, allowed) == IF asset \in allowed THEN {Leg(asset, asset)} ELSE {}

-----------------------------------------------------------------------------
(* GET /pay/callback: the payer names the asset it pays in, the address     *)
(* fixes the one that is paid out.                                          *)
InvoiceLegs(payout, inbound) ==
    IF inbound = None THEN {Leg(None, None)}
    ELSE IF payout = None THEN SameAsset(inbound, PayoutEligible)
    ELSE IF inbound = payout THEN {Leg(payout, payout)}
    ELSE Converted(inbound, payout)

(* The asset an omitted one stands for: the only counterpart if there is    *)
(* one, the other leg's if there is none, and no guess among several.       *)
Omitted(outbound) ==
    IF Counterparts(outbound) = {} THEN {outbound}
    ELSE IF Cardinality(Counterparts(outbound)) = 1 THEN Counterparts(outbound)
    ELSE {}

Named(named, outbound) == IF named = None THEN Omitted(outbound) ELSE {named}

LegsOut(named, outbound, straight) ==
    UNION {IF inbound = outbound THEN SameAsset(inbound, straight)
           ELSE Converted(inbound, outbound) : inbound \in Named(named, outbound)}

(* POST /lightning_receive and POST /lightning_send: the invoice to be paid *)
(* fixes the outbound asset.  An unconverted receive needs an asset the LSP *)
(* supports, an unconverted send one it pays out.                           *)
ReceiveLegs(named, outbound) ==
    IF outbound = None THEN {} ELSE LegsOut(named, outbound, Supported)

SendLegs(named, outbound) == LegsOut(named, outbound, PayoutEligible)

-----------------------------------------------------------------------------
(* payoutAssetFromChannelList, of the assets a peer has channels in.        *)
Seen(assets) == assets \cap PayoutEligible
SeenSupported(assets) == assets \cap Supported

Preferred(assets) ==
    {a \in assets : \E i \in DOMAIN Preference :
        /\ Preference[i] = a
        /\ \A j \in DOMAIN Preference : Preference[j] \in assets => i <= j}

PayoutFromChannels(assets) ==
    LET seen == Seen(assets)
        clear == IF Cardinality(seen) = 1 THEN seen ELSE Preferred(seen)
    IN  IF clear = {} THEN None ELSE CHOOSE a \in clear : TRUE

(* acceptedAssets: what discovery advertises next to the payout asset.      *)
AcceptedAssetsUnchecked(payout) == {payout} \cup Counterparts(payout)
AcceptedAssets(payout) ==
    {payout} \cup {a \in Counterparts(payout) : MayConvert(a, payout)}
=============================================================================

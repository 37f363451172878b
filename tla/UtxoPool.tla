------------------------------ MODULE UtxoPool ------------------------------
(***************************************************************************)
(* The colorable UTXOs of the LSP's wallet and maintainUtxos, the cron's   *)
(* part in them.  A channel opening uses one up, a blind receive reserves  *)
(* one until it settles or is given up, and the cron creates new ones when *)
(* fewer than Min are free.  One node serves both client addresses.        *)
(***************************************************************************)
EXTENDS Naturals

CONSTANTS
    Min,          \* UTXO_MIN_COUNT
    Target,       \* UTXO_TARGET_COUNT
    MaxNum,       \* the most /createutxos takes (255)
    MaxReceives,  \* blind receives, in all
    MaxFaults

(* utxoMaintenanceEnabled *)
ASSUME PoolAssumption ==
    /\ Min \in Nat \ {0} /\ Target \in Nat /\ Min < Target
    /\ MaxNum \in Nat /\ MaxReceives \in Nat /\ MaxFaults \in Nat

VARIABLES
    free,         \* empty colorable UTXOs that nothing reserves
    unconfirmed,  \* how many of them have not confirmed
    reserved,     \* reserved by a pending blind receive
    receives,     \* blind receives so far
    counted,      \* what the cron counted as free
    lateCreate,   \* UTXOs of a /createutxos that is carried out after its timeout
    returned,     \* UTXOs that came back or came late since the count (history)
    faults

pool == <<free, unconfirmed, reserved, receives, lateCreate, returned>>

PoolInit ==
    /\ free = 0 /\ unconfirmed = 0 /\ reserved = 0 /\ receives = 0
    /\ counted = 0 /\ lateCreate = 0 /\ returned = 0
    /\ faults = 0

Fault == faults < MaxFaults /\ faults' = faults + 1

-----------------------------------------------------------------------------
(* The wallet.                                                             *)

CanUse == unconfirmed < free
Used == free' = free - 1

Confirm ==
    /\ unconfirmed > 0
    /\ unconfirmed' = 0
    /\ UNCHANGED <<free, reserved, receives, counted, lateCreate, returned, faults>>

BlindReceive ==
    /\ CanUse /\ receives < MaxReceives
    /\ Used
    /\ reserved' = reserved + 1
    /\ receives' = receives + 1
    /\ UNCHANGED <<unconfirmed, counted, lateCreate, returned, faults>>

(* The UTXO is occupied by an allocation from now on. *)
ReceiveSettles ==
    /\ reserved > 0
    /\ reserved' = reserved - 1
    /\ UNCHANGED <<free, unconfirmed, receives, counted, lateCreate, returned, faults>>

ReceiveExpires ==
    /\ reserved > 0
    /\ reserved' = reserved - 1
    /\ free' = free + 1
    /\ returned' = returned + 1
    /\ UNCHANGED <<unconfirmed, receives, counted, lateCreate, faults>>

CreatedLate ==
    /\ lateCreate > 0
    /\ free' = free + lateCreate
    /\ unconfirmed' = unconfirmed + lateCreate
    /\ returned' = returned + lateCreate
    /\ lateCreate' = 0
    /\ UNCHANGED <<reserved, receives, counted, faults>>

Wallet == Confirm \/ BlindReceive \/ ReceiveSettles \/ ReceiveExpires \/ CreatedLate

-----------------------------------------------------------------------------
(* maintainUtxos.                                                          *)

(* countFreeColorableUtxos: empty and not reserved, confirmed or not.      *)
FreeSettledOnly == free - unconfirmed
FreeOrReserved == free + reserved
FreeColorable == free

ListUnspents ==
    /\ counted' = FreeColorable
    /\ returned' = 0
    /\ UNCHANGED <<free, unconfirmed, reserved, receives, lateCreate>>

(* utxoCreateCount; nothing when the number does not fit its type.         *)
Wanting == counted < Min /\ Target - counted <= MaxNum

CreateUtxos ==
    LET num == Target - counted
    IN  \/ /\ Wanting
           /\ free' = free + num /\ unconfirmed' = unconfirmed + num
           /\ UNCHANGED <<reserved, receives, lateCreate, returned, faults>>
        \/ /\ Wanting /\ Fault
           /\ lateCreate' = lateCreate + num
           /\ UNCHANGED <<free, unconfirmed, reserved, receives, returned>>
        \/ Wanting /\ Fault /\ UNCHANGED pool
        \/ ~Wanting /\ UNCHANGED <<pool, faults>>

-----------------------------------------------------------------------------
(* A pool below its minimum is refilled, whatever receives reserve.         *)
PoolIsRefilled == (free < Min) ~> (free >= Min)
=============================================================================

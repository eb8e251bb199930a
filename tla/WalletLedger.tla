---------------------------- MODULE WalletLedger ----------------------------
(***************************************************************************)
(* What the chain-event ingestion of spec.md 4.5 promises, abstractly: the *)
(* wallet has applied a chain of blocks that moves one block at a time,    *)
(* forward by a connect and back by an unwind ("there is no jump"), and    *)
(* its coins are exactly those created by the applied blocks.              *)
(***************************************************************************)
EXTENDS Sequences, SequencesExt

CONSTANTS Blocks, Genesis, Parent, PaysWallet

VARIABLES
    applied,  \* the chain whose effects the wallet holds
    utxos     \* the wallet's coins

Init ==
    /\ applied = <<Genesis>>
    /\ utxos = {}

\* A block extending the applied chain is connected.
Connect(b) ==
    /\ Parent[b] = Last(applied)
    /\ applied' = Append(applied, b)
    /\ utxos' = utxos \cup ({b} \cap PaysWallet)

\* The last applied block is unwound.
Unwind ==
    /\ Len(applied) > 1
    /\ applied' = Front(applied)
    /\ utxos' = utxos \ {Last(applied)}

Next == (\E b \in Blocks \ {Genesis} : Connect(b)) \/ Unwind

Spec == Init /\ [][Next]_<<applied, utxos>>

\* The coins are those of the applied chain.
CoinsOfChain == utxos = PaysWallet \cap ToSet(applied)

=============================================================================

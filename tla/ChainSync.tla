----------------------------- MODULE ChainSync -----------------------------
(***************************************************************************)
(* The environment of the ContentStore (src/src/store.rs): the Trunk, the  *)
(* read-only canonical chain view, and the chain-sync layer that calls     *)
(* block_connected and unwind_tip.  Neither is under src/; both are        *)
(* modelled from spec.md sections 2, 4.5 and 6.                            *)
(*                                                                         *)
(* Blocks are model values.  Parent is the prev_blockhash of every block   *)
(* but Genesis, so the blocks that can ever be mined form a fixed tree.    *)
(***************************************************************************)
EXTENDS Naturals, Sequences, SequencesExt

CONSTANTS
    Blocks,       \* block hashes
    Genesis,      \* the root of the tree, never unwound
    Parent,       \* [Blocks \ {Genesis} -> Blocks], the header's prev_blockhash
    MaxUnwinds,   \* bound on the number of times the Trunk loses its tip
    MaxRedeliveries \* bound on duplicate deliveries of an already processed block

ASSUME Genesis \in Blocks
ASSUME Parent \in [Blocks \ {Genesis} -> Blocks]

VARIABLES
    trunk,    \* the best chain the Trunk reports, Genesis first
    synced,   \* the chain the sync layer has delivered to the store without error
    unwinds,  \* how often the Trunk has lost its tip
    redeliveries \* how often the sync layer delivered a processed block again

syncVars == <<trunk, synced, unwinds, redeliveries>>

\* The chain from Genesis to b, following prev_blockhash.
RECURSIVE ChainTo(_)
ChainTo(b) == IF b = Genesis THEN <<Genesis>> ELSE Append(ChainTo(Parent[b]), b)

\* Trunk::get_height: the position of a block on the trunk (Genesis is 0).
get_height(b) == CHOOSE i \in 0 .. Len(trunk) - 1 : trunk[i + 1] = b

\* Trunk::is_on_trunk
is_on_trunk(b) == b \in ToSet(trunk)

\* Trunk::get_tip
trunk_tip == Last(trunk)

\* Trunk::len: the number of headers, Genesis included.
trunk_len == Len(trunk)

\* Trunk::get_header_for_height: the header at that height, if any.
get_header_for_height(h) == IF h < Len(trunk) THEN {trunk[h + 1]} ELSE {}

\* new_block(prev): a block whose header's prev_blockhash is prev.
new_block(prev) == {b \in Blocks \ {Genesis} : Parent[b] = prev}

\* mine: a new block on the Trunk's tip.
mine == new_block(trunk_tip)

SyncInit ==
    /\ trunk = <<Genesis>>
    /\ synced = <<Genesis>>
    /\ unwinds = 0
    /\ redeliveries = 0

\* TestTrunk::extend with a block mined on the tip.
TrunkExtend ==
    \E b \in mine :
        /\ trunk' = Append(trunk, b)
        /\ UNCHANGED <<synced, unwinds, redeliveries>>

\* The tip is reorganised away; a reorg is this followed by TrunkExtend.
TrunkUnwind ==
    /\ Len(trunk) > 1
    /\ unwinds < MaxUnwinds
    /\ trunk' = Front(trunk)
    /\ unwinds' = unwinds + 1
    /\ UNCHANGED <<synced, redeliveries>>

\* The sync layer delivers the trunk block at the height after the last
\* one it delivered, and redelivers it for as long as block_connected
\* returns an error.
NextToConnect ==
    IF IsPrefix(synced, trunk) THEN get_header_for_height(Len(synced)) ELSE {}

\* spec.md 4.5: the block already processed may be delivered again.
Redelivery ==
    IF Len(synced) > 1 /\ redeliveries < MaxRedeliveries THEN {Last(synced)} ELSE {}

\* The sync layer's view after block_connected(b) returned Ok: a new block
\* is delivered, a duplicate leaves the delivered chain as it was.
Acknowledge(b) ==
    IF b \in NextToConnect
    THEN synced' = Append(synced, b) /\ UNCHANGED redeliveries
    ELSE redeliveries' = redeliveries + 1 /\ UNCHANGED synced

\* The sync layer unwinds the delivered tip once it left the trunk.
TipToUnwind ==
    IF Len(synced) > 1 /\ ~is_on_trunk(Last(synced)) THEN {Last(synced)} ELSE {}

\* The state the sync layer resumes from after a restart: the chain ending
\* at the durable processed-block marker.
ResumeFrom(marker) == ChainTo(marker)

=============================================================================

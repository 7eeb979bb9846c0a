--------------------------- MODULE BlockhashStore ---------------------------
(***************************************************************************)
(* contracts/BlockhashStore.sol and the chain it observes.                  *)
(*                                                                         *)
(* The chain offers the hash of a block only while the block is among the  *)
(* last BLOCKHASH_WINDOW ones.  Anybody may call store() in that time; the *)
(* hash then stays readable for ever.  A hash is fixed by the block's      *)
(* number, so the mapping `blockhashes' is the set of the stored numbers.  *)
(***************************************************************************)
EXTENDS Integers

CONSTANTS
    BLOCKHASH_WINDOW,   \* 256 in the source
    MaxBlock            \* bound: the chain stops growing at this height

ASSUME BlockhashAssumption ==
    /\ BLOCKHASH_WINDOW \in Nat \ {0}
    /\ MaxBlock \in Nat

VARIABLES
    blockNumber,        \* IBlockContext.blockNumber()
    blockhashes         \* numbers of the blocks whose hash has been stored

chainVars == <<blockNumber, blockhashes>>

Blocks == 0..MaxBlock

\* IBlockContext.blockHash: non-zero for the last BLOCKHASH_WINDOW blocks
ContextHasHash(b) == b < blockNumber /\ blockNumber <= b + BLOCKHASH_WINDOW

\* getBlockHash(b) # 0
HashAvailable(b) == b \in blockhashes \/ ContextHasHash(b)

ChainInit == blockNumber = 0 /\ blockhashes = {}

\* store(b).  Storing a stored block again changes nothing.
Store(b) ==
    /\ b < blockNumber
    /\ blockNumber <= b + BLOCKHASH_WINDOW
    /\ ContextHasHash(b)
    /\ blockhashes' = blockhashes \cup {b}
    /\ UNCHANGED blockNumber

\* The chain grows by one block.
Mine ==
    /\ blockNumber < MaxBlock
    /\ blockNumber' = blockNumber + 1
    /\ UNCHANGED blockhashes

ChainTypeOK == blockNumber \in Blocks /\ blockhashes \subseteq Blocks
=============================================================================

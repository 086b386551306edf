--------------------------- MODULE MCBlockProducer ---------------------------
(***************************************************************************)
(* Instance of BlockProducer for TLC: a block is the sequence of messages, *)
(* each with or without the Init message, that leads to it from the        *)
(* genesis block.                                                          *)
(***************************************************************************)
EXTENDS BlockProducer, SequencesExt

MCBlock == BoundedSeq(Msg \X BOOLEAN, MaxFeed)
MCGenesis == <<>>
MCNum(b) == GenesisNum + Len(b)
MCParent(b) == Front(b)
MCChild(b, m, i) == Append(b, <<m, i>>)
Symmetry == Permutations(Calls)
=============================================================================

----------------------------- MODULE BlockImport -----------------------------
(* Reading block files (LoadExternalBlockFile in main.cpp): on -reindex the  *)
(* files of the node itself, where a block may come before its parent, else  *)
(* files from elsewhere.                                                     *)
EXTENDS FiniteSets, Sequences, SequencesExt

CONSTANTS
    FileBlocks,     \* the blocks in the files
    FileParent,     \* hashPrevBlock of each
    FirstBlock      \* the genesis block, which is known

BlockImportAssumption ==
    FirstBlock \notin FileBlocks /\ FileParent \in [FileBlocks -> FileBlocks \cup {FirstBlock}]

(* Mutant: children are taken, but not what waits for them. *)
WithChildren(known, unknown, bad, b) ==
    LET children == {c \in unknown : FileParent[c] = b}
    IN  [known |-> known \cup (children \ bad), unknown |-> unknown \ children]

(* "Recursively process earlier encountered successors of this block": block *)
(* by block from a queue.                                                    *)
WithSuccessors(known, unknown, bad, b) ==
    LET Step(t, i) ==
            IF t.queue = <<>> THEN t
            ELSE LET children == {c \in t.unknown : FileParent[c] = Head(t.queue)}
                     taken == {c \in children : c \notin bad /\ FileParent[c] \in t.known}
                 IN  [known |-> t.known \cup taken, unknown |-> t.unknown \ children,
                      queue |-> Tail(t.queue) \o SetToSeq(taken)]
        end == FoldLeft(Step, [known |-> known, unknown |-> unknown, queue |-> <<b>>],
                        [i \in 1 .. Cardinality(FileBlocks) |-> i])
    IN  [known |-> end.known, unknown |-> end.unknown]

(* One block of a file; ProcessNewBlock turns the bad ones down.  Only with  *)
(* the position in a file of the node itself a block is remembered.  That a  *)
(* block is bad does not depend on when it is read, every block can be read  *)
(* from disk, and no system error ends the file (state.IsError()).           *)
ReadBlock(t, b, bad, reindex) ==
    IF FileParent[b] \notin t.known
    THEN [t EXCEPT !.unknown = IF reindex THEN @ \cup {b} ELSE @]
    ELSE WithSuccessors(t.known \cup ({b} \ bad), t.unknown, bad, b)

(* The blocks that are known after files with the blocks in this order. *)
LoadBlocks(order, bad, reindex) ==
    FoldLeft(LAMBDA t, b : ReadBlock(t, b, bad, reindex), [known |-> {FirstBlock}, unknown |-> {}], order)

-----------------------------------------------------------------------------
(* The blocks that are good and so are their ancestors: those in every set   *)
(* that has with the parent of a good block the block.                       *)
Reachable(bad) ==
    {b \in FileBlocks : \A S \in SUBSET FileBlocks :
        (\A c \in FileBlocks \ bad : FileParent[c] \in S \cup {FirstBlock} => c \in S) => b \in S}

(* A reindex finds every block that can be known, in whatever order the      *)
(* files have them, and keeps nothing waiting that could be taken.           *)
ReindexFindsAll(order, bad) ==
    LET end == LoadBlocks(order, bad, TRUE)
    IN  /\ end.known = Reachable(bad) \cup {FirstBlock}
        /\ \A b \in end.unknown : FileParent[b] \notin end.known
==============================================================================

------------------------------ MODULE Striding ------------------------------
(***************************************************************************)
(* striding/main.c, as the program of its ranks: every rank but 0 reads    *)
(* half of rank 0's window into every other block of its own buffer, for   *)
(* blocks of one to seven words.  n is ITERATIONS, the gets between two    *)
(* readings of the clock, and r a rank.                                    *)
(***************************************************************************)
EXTENDS SuiteOps

CONSTANT
    NTimes      \* argv[1]: repetitions

ASSUME NTimesAssumption == NTimes \in Nat \ {0}

\* Words of the window, and of the buffer.
WINDOW_SIZE == 8192

BlockSizes == <<1, 2, 3, 4, 5, 6, 7>>

NumBlocks(b) == WINDOW_SIZE \div (2 * b)

\* Where the last block of the strided type ends.
EndOfType(b) == (NumBlocks(b) - 1) * 2 * b + b

\* The words read are in the window, and where they go is in the buffer.
Get(b) == RmaWithin(0, TRUE, {NumBlocks(b) * b, EndOfType(b)} \subseteq 0 .. WINDOW_SIZE)

Section(b, n) == StartClock \o Times(n, Get(b)) \o Flush("all") \o StopClock \o Sample

\* Rank 0 fills its window between the creation and the barrier.
StridingProgram(r, n) ==
    Sync \o Given(r = 0, Touch) \o Sync
        \o OpenEpoch("lock")
        \o Given(r # 0, Times(NTimes, ForEach(BlockSizes, LAMBDA b : Section(b, n))))
        \o CloseEpoch("lock") \o Sync

StridingReported(n) == NTimes * Len(BlockSizes) * n
=============================================================================

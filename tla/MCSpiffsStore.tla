--------------------------- MODULE MCSpiffsStore ---------------------------
(* Writes of half a page and of a whole one, which cross pages and index pages. *)
EXTENDS SpiffsStore, TLC
MCData == {<<1>>, <<2, 2>>}
MCPlain == {{"wr", "creat"}}
MCTruncating == {{"wr", "rd", "creat", "trunc"}}
\* Names are only compared with each other.
MCSymmetry == Permutations(Names)
\* Nothing depends on the last call of a state: only the step to it is judged by it.
MCView == <<flash, fs, fds, losses, scarred>>
=============================================================================

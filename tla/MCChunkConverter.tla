-------------------------- MODULE MCChunkConverter --------------------------
(***************************************************************************)
(* Bodies for checking ChunkConverter with TLC.                            *)
(***************************************************************************)
EXTENDS ChunkConverter

BoundedSeqs(S, n) == UNION {[1..k -> S] : k \in 0..n}

\* Every short body, ill-formed ones included.
ShortBodies == BoundedSeqs(Symbols, 3)

\* Two frames; a frame without its newline; a line over the limit, cut where
\* the buffer overflows, before, inside or after a frame.
TwoFrames == <<"head", "tail", "nl", "head", "tail", "nl">>
NoFinalNl == <<"head", "tail", "nl", "nl", "head", "tail">>
LongFrame == <<"head", "mid", "tail", "nl", "head", "tail">>
LongJunk  == <<"ctl", "ctl", "ctl", "head", "tail", "nl">>
LongTail  == <<"ctl", "nl", "head", "mid", "mid", "tail", "ctl">>

LongBodies == {TwoFrames, NoFinalNl, LongFrame, LongJunk, LongTail}

MCBodies == ShortBodies \cup LongBodies
=============================================================================

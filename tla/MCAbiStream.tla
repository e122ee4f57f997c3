---------------------------- MODULE MCAbiStream ----------------------------
(***************************************************************************)
(* Bodies for checking AbiStream with TLC.                                 *)
(***************************************************************************)
EXTENDS AbiStream

\* Three frames; a frame without its newline; a line cut for its length.
MCBodies ==
  { << >>,
    <<"head", "tail", "nl", "head", "tail", "nl", "head", "tail", "nl">>,
    <<"ctl", "nl", "head", "tail">>,
    <<"ctl", "ctl", "ctl", "head", "tail", "nl">> }
=============================================================================

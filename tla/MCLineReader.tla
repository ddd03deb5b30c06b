---------------------------- MODULE MCLineReader ----------------------------
(***************************************************************************)
(* LineReader on a buffer of a few bytes, with frames that end, begin and  *)
(* overflow in every place of it.                                          *)
(***************************************************************************)
EXTENDS LineReader

Lines == { <<"nl", "a", "nl">>, <<"nl", "a", "b", "nl">>, <<"b", "nl", "a">>,
           <<"nl", "a", "b", "b", "b", "a">> }
MCFrames == Lines \cup { <<"nl", ">", " ">> }
=============================================================================

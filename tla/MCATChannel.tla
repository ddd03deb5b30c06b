----------------------------- MODULE MCATChannel -----------------------------
(***************************************************************************)
(* ATChannel on small instances.  The calls are one of each kind that the  *)
(* channel tells apart; PlainCalls is the one that the reopening and drain *)
(* scenarios need.                                                         *)
(***************************************************************************)
EXTENDS ATChannel

CallOf(type, prefix, sms, out) ==
    [type |-> type, prefix |-> prefix, sms |-> sms, out |-> out, hs |-> FALSE]

AllCalls == { CallOf("NO_RESULT", "none", FALSE, FALSE),
              CallOf("NUMERIC", "digit", FALSE, TRUE),
              CallOf("SINGLELINE", "P", FALSE, TRUE),
              CallOf("SINGLELINE", "P", TRUE, TRUE),
              CallOf("MULTILINE", "P", FALSE, TRUE) }
PlainCalls == { CallOf("NO_RESULT", "none", FALSE, TRUE) }
=============================================================================

--------------------------- MODULE MCEventSubInbox --------------------------
(* Two messages, two contents, and up to three overlapping drains.         *)
EXTENDS EventSubInbox, TLC
CONSTANTS m1, m2, d1, d2
MCIdOrder == {<<m1, m2>>}
MCRetryDelays == <<1, 2>>
=============================================================================

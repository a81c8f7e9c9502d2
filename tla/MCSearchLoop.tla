----------------------------- MODULE MCSearchLoop -----------------------------
(* Instances of SearchLoop for TLC.                                        *)
EXTENDS SearchLoop

CONSTANTS a, b, spanish, abroad, channel

TheCards == {<<a, 1>>, <<a, 2>>, <<b, 1>>}
TheRequests == {Unlimited, <<3, 10>>}
TheWordings == {{spanish, sales, abroad, channel}}
=============================================================================

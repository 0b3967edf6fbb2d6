----------------------------- MODULE MCDispatcher ------------------------------
(* Three messages: the first has two handlers, one of which is retried.  Another *)
(* is acknowledged early, or does not decode.                                    *)
EXTENDS Dispatcher, TLC

CONSTANTS m1, m2, m3, h1, h2

MCMessage   == {m1, m2, m3}
MCHandler   == {h1, h2}
MCRoutes    == (m1 :> {h1, h2}) @@ (m2 :> {h1}) @@ (m3 :> {h2})
MCMalformed == {m3}
MCEarly     == {m2}
MCRetries   == (h1 :> 1) @@ (h2 :> 0)
MCLimits    == {NoLimit, 0, 1, 2}
================================================================================

---------------------------- MODULE MCRateLimit ----------------------------
(* Three requests of one consumer, who has 2 per 2 seconds where the route *)
(* gives 1; a fourth of hers under a stricter tag shares their counter; an *)
(* anonymous one has a window of no length.                                *)
EXTENDS RateLimit, TLC

CONSTANTS r1, r2, r3, r4, r5, alice, nobody

MCConsumerOf == [r \in Requests |-> IF r = r5 THEN nobody ELSE alice]
MCTagsOf == [r \in Requests |-> CASE r = r4 -> <<"loose", "unknown", "strict">>
                                  [] r = r5 -> <<"broken">>
                                  [] OTHER -> <<>>]

MCBase == [limit |-> 1, window_seconds |-> 2]
MCConsumerLimits == alice :> [limit |-> 2]
MCTagLimits == "loose" :> [limit |-> 3, window_seconds |-> 3]
               @@ "strict" :> [limit |-> 1, window_seconds |-> 2]
               @@ "broken" :> [window_seconds |-> 0]

Alike == Permutations({r1, r2, r3})
=============================================================================

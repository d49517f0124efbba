--------------------------- MODULE MCUpstreamAuth ---------------------------
(* Two requests that fetch, are rejected and refresh around each other, on *)
(* routes that order the plugins differently; one of them may be repeated  *)
(* with a new token, the other may not.                                    *)
EXTENDS UpstreamAuth

CONSTANTS get1, post

(* Tokens of two seconds, or expired at once, or ending a second before    *)
(* what the default makes of them.                                         *)
MCReplies == {[life |-> 2, stated |-> TRUE], [life |-> 0, stated |-> TRUE],
              [life |-> 1, stated |-> FALSE]}
=============================================================================

--------------------------- MODULE MCForwardChain ----------------------------
(* Every chain of at most two of the eight plugins, of three with retry, and *)
(* four longer ones, with six configurations and two attempts.              *)
EXTENDS ForwardChain

MCChains ==
    {c \in UNION {[1..n -> Types] : n \in 0..3} :
        IsInjective(c) /\ (Len(c) = 3 => "retry" \in Range(c))} \cup
    { <<"cors", "correlation_id", "retry", "transformation", "request_size">>,
      <<"retry", "correlation_id", "transformation", "event_bridge">>,
      <<"cors", "validation", "transformation", "event_bridge", "retry", "forward_auth">>,
      <<"transformation", "retry", "forward_auth", "correlation_id">> }

Plain == [rename |-> <<>>, defaults |-> {}, remove |-> {},
          setHeaders |-> {"custom"}, removeHeaders |-> {"auth"},
          after |-> FALSE, block |-> FALSE, credentials |-> FALSE,
          require |-> {}, auth |-> "propagate", target |-> "auth"]
Renaming == [Plain EXCEPT !.rename = << <<"a", "b">> >>, !.defaults = {"c"},
                          !.after = TRUE, !.auth = "static"]

(* Unstable: a is put back; <<"b", "c">>, <<"a", "b">> passes a on to c    *)
(* when done twice, <<"a", "b">>, <<"b", "c">> at once.                    *)
MCConfigs ==
    { Plain,
      [Renaming EXCEPT !.defaults = {"a"}, !.block = TRUE],
      [Renaming EXCEPT !.rename = << <<"b", "c">>, <<"a", "b">> >>, !.require = {"b"}],
      [Renaming EXCEPT !.rename = << <<"a", "b">>, <<"b", "c">> >>, !.defaults = {"b"},
                       !.credentials = TRUE, !.target = "ctype"],
      [Renaming EXCEPT !.setHeaders = {"id", "ctype"}, !.auth = "tokenless"],
      [Renaming EXCEPT !.remove = {"c"}, !.removeHeaders = {"id", "ctype"},
                       !.require = {"a"}] }

Named(S) == Object([f \in S |-> f])
MCBodies == {Named(S) : S \in {{"a"}, {"a", "b"}, {"a", "c"}}} \cup
            {[kind |-> "empty", fields |-> NoFields], [kind |-> "text", fields |-> NoFields]}

Quiet == [body |-> Named({"a"}), id |-> FALSE, auth |-> TRUE, rules |-> TRUE,
          origin |-> "allowed", preflight |-> FALSE]
MCClients ==
    {[Quiet EXCEPT !.body = b] : b \in MCBodies} \cup
    {[Quiet EXCEPT !.origin = o, !.preflight = p] :
        o \in {"allowed", "disallowed"}, p \in BOOLEAN} \cup
    {[Quiet EXCEPT !.origin = "none"]} \cup
    {[Quiet EXCEPT !.id = TRUE], [Quiet EXCEPT !.auth = FALSE, !.rules = FALSE]}

MCUuids == <<"first", "second">>
=============================================================================

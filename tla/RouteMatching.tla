---------------------------- MODULE RouteMatching ----------------------------
(* Which route serves a path (match_route, src/app/config_store.py), and   *)
(* the path and the tenant that follow from it.                            *)
(*                                                                         *)
(* A path is a slash and the sequence of its pieces between slashes, which *)
(* may be empty: "/" is <<"">>, "/t/" is <<"t", "">>.  A tenant is text as *)
(* well, and a sequence of pieces too: "acme", "/acme", "a/b" or none.  A  *)
(* prefix may have placeholders, which are pieces: {name} stands for a     *)
(* piece and {name:.*} for any number of them.  A prefix is weighed by the *)
(* length of its text, so Width gives every piece a number of characters.  *)
(* Trim is a piece without the white space at its end.                     *)
(*                                                                         *)
(* The table is a dictionary, which Python keeps in the order its keys     *)
(* were first entered: a sequence of entries here.                         *)
(***************************************************************************)
EXTENDS Integers, Sequences, SequencesExt

CONSTANTS Segments,  \* literal pieces
          One, Rest, \* placeholders for a piece, and for any number
          Width,     \* the length of the text of each
          Trim       \* each without white space at its end

Items == Segments \cup One \cup Rest

ASSUME MatchingAssumption ==
    /\ "" \in Segments /\ Segments \cap (One \cup Rest) = {} /\ One \cap Rest = {}
    /\ Width \in [Items -> Nat] /\ Width[""] = 0
    /\ Trim \in [Items -> Items] /\ Trim[""] = ""
    /\ \A s \in Items : s \in Segments <=> Trim[s] \in Segments
    /\ \A s \in One \cup Rest : Trim[s] = s

Root == <<"">>
Anyone == <<"">>   \* the tenant of a route that names none
NoRoute == [id |-> "none", tenantId |-> Anyone, tenant |-> Anyone, api |-> "none",
            prefix |-> Root, methods |-> <<>>]

Texts == Seq(Segments) \ {<<>>}

(* At most one placeholder stands for any number of pieces. *)
Templates == {p \in Seq(Items) \ {<<>>} :
                \A m, n \in DOMAIN p : p[m] \in Rest /\ p[n] \in Rest => m = n}

(* A document of the routes collection; tenantId and tenant are both read. *)
(* The slashes a prefix begins with count as one.                          *)
RouteRecords == [id : STRING \ {NoRoute.id}, tenantId : Texts, tenant : Texts, api : STRING,
                 prefix : Templates, methods : Seq(STRING)]

RouteTenant(r) == IF r.tenantId # Anyone THEN r.tenantId ELSE r.tenant

-----------------------------------------------------------------------------

(* What is left of text p, <<>> for none, without white space and then one *)
(* slash at the end.                                                       *)
Tidy(p) ==
    LET last == Trim[p[Len(p)]]
    IN  IF last = "" THEN Front(p) ELSE [p EXCEPT ![Len(p)] = last]

(* _normalize_match_path *)
Normal(p) == IF Tidy(p) = <<>> THEN Root ELSE Tidy(p)

IsTemplate(prefix) == \E n \in DOMAIN prefix : prefix[n] \in One \cup Rest

(* _is_static_prefix_match *)
StaticMatch(path, prefix) == IsPrefix(prefix, path)

(* fullmatch of the compiled template: {name} wants a piece of text, and   *)
(* what comes behind {name:.*} is matched from the end of the path.        *)
TemplateMatch(path, prefix) ==
    LET extra == Len(path) - Len(prefix)
        Piece(n) == path[IF \E m \in DOMAIN prefix : m < n /\ prefix[m] \in Rest THEN n + extra ELSE n]
    IN  /\ extra = 0 \/ (extra > 0 /\ \E n \in DOMAIN prefix : prefix[n] \in Rest)
        /\ \A n \in DOMAIN prefix :
              \/ prefix[n] \in Rest
              \/ prefix[n] \in One /\ Piece(n) # ""
              \/ prefix[n] = Piece(n)

Matches(path, prefix) ==
    IF IsTemplate(prefix) THEN TemplateMatch(path, prefix) ELSE StaticMatch(path, prefix)

(* len(value_prefix) *)
Score(prefix) == FoldLeft(LAMBDA sum, item : sum + 1 + Width[item], 0, prefix)

(* strip("/") *)
Bare(t) ==
    LET named == {n \in DOMAIN t : t[n] # ""}
    IN  IF named = {} THEN Anyone ELSE SubSeq(t, Min(named), Max(named))

(* Plausible defects of the next three, used by no action. *)
BetterAny(score, best) == best = -1
ComposeAlways(t, prefix) == IF Bare(t) = Anyone THEN prefix ELSE Bare(t) \o prefix
StripFirst(path, t) == IF t = Anyone \/ Len(path) = 1 THEN path ELSE Tail(path)

Better(score, best) == score > best

(* _compose_cache_path: a prefix that starts with the tenant stays as it is. *)
Compose(t, prefix) ==
    IF Bare(t) = Anyone \/ IsPrefix(Bare(t), prefix) THEN prefix ELSE Bare(t) \o prefix

(* strip_tenant_from_path: of the path as it came, the tenant as it is. *)
Strip(path, t) ==
    IF t = Anyone \/ ~IsPrefix(t, path) THEN path
    ELSE IF path = t THEN Root ELSE SubSeq(path, Len(t) + 1, Len(path))

-----------------------------------------------------------------------------
(* The table and the match. *)

(* routes[key] = r: a key that is there keeps its place. *)
Enter(table, method, r) ==
    LET entry == [method |-> method, prefix |-> Compose(RouteTenant(r), r.prefix), route |-> r]
        same == {n \in DOMAIN table : table[n].method = method /\ table[n].prefix = entry.prefix}
    IN  IF same = {} THEN Append(table, entry)
        ELSE [n \in DOMAIN table |-> IF n \in same THEN entry ELSE table[n]]

MethodsOf(r) == IF r.methods = <<>> THEN <<"GET">> ELSE r.methods

EnterRoute(table, r) == FoldLeft(LAMBDA t, m : Enter(t, m, r), table, MethodsOf(r))

(* The table after these documents, in the order they were read. *)
TableOf(routes) == FoldLeft(EnterRoute, <<>>, routes)

Suits(e, method, path) == e.method = method /\ Matches(Normal(path), Normal(e.prefix))

(* The loop of match_route. *)
MatchRoute(table, method, path) ==
    FoldLeft(LAMBDA best, e :
                 IF Suits(e, method, path) /\ Better(Score(Normal(e.prefix)), best.score)
                 THEN [route |-> e.route, score |-> Score(Normal(e.prefix))] ELSE best,
             [route |-> NoRoute, score |-> -1], table).route

(* The tenant of the route, else the header x-tenant-id, else the first    *)
(* piece of the path that is not empty.                                    *)
TenantOf(r, header, path) ==
    LET named == {n \in DOMAIN path : path[n] # ""}
    IN  IF RouteTenant(r) # Anyone THEN RouteTenant(r)
        ELSE IF header # Anyone \/ named = {} THEN header
        ELSE <<path[Min(named)]>>
=============================================================================

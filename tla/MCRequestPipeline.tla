-------------------------- MODULE MCRequestPipeline --------------------------
(* One request: requests share nothing but the registry, which reloads     *)
(* change at any moment.  The routes list plugins in different shapes;     *)
(* "worker" and "audit" are not registered at first: a reload brings them. *)
EXTENDS RequestPipeline, TLC

CONSTANT q1

MCTypes == {"auth", "cache", "retry", "worker", "audit"}

\* By order: auth and retry at 2, worker at 3, cache at 5; audit not at all.
MCLists ==
    { << Ordered("cache", 5), Ordered("auth", 2), Ignored, Ordered("retry", 2),
         Ordered("worker", 3), Ordered("audit", 0) >>,
      << Named("worker"), Named("audit"), Ordered("auth", -1) >> }

MCRegistered == [t \in MCTypes |->
    CASE t \in {"auth", "cache"} -> "before_after"
      [] t = "retry" -> "forward"
      [] OTHER -> "absent"]

\* What a reload may load: types that were absent, and one stored under a
\* type that is registered with the other phase (a document made by
\* POST /admin/plugins always loads as before_after).
MCReloads == { "worker" :> "before_after", "audit" :> "before_after",
               "audit" :> "forward", "retry" :> "before_after", "auth" :> "forward" }
=============================================================================

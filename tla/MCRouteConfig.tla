---------------------------- MODULE MCRouteConfig ----------------------------
(* Two documents, two methods, two paths: enough for a document to change  *)
(* path, to gain and lose a method, and for two of them to share a key.    *)
EXTENDS RouteConfig, TLC

CONSTANTS r1, r2, p, q

Doc(i, path, methods) == [id |-> i, path |-> path, methods |-> methods, ver |-> 0]

\* One document is stored when the process starts; the other may come later.
MCInitial == { (r1 :> Doc(r1, p, {})) @@ (r2 :> NoDoc) }

MCMethodSets == {{}, {"GET", "POST"}}

\* For the run about start-up: one document stored, or both.
MCApart == { (r1 :> Doc(r1, p, {"GET", "POST"})) @@ (r2 :> NoDoc),
             (r1 :> Doc(r1, p, {})) @@ (r2 :> Doc(r2, q, {})) }
=============================================================================

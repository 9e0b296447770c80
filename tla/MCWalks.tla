------------------------------ MODULE MCWalks ------------------------------
(***************************************************************************)
(* Two projects that share a task, one of which may be listed twice, and   *)
(* lists that are empty, fill a page, or go on to a second page.           *)
(***************************************************************************)
EXTENDS Walks

MCProjects == {"p1", "p2"}
MCEntities == {"u1", "u2", "t1", "t2"}
MCListings ==
    {[s \in {"users", "projects", "p1", "p2"} |->
         CASE s = "users" -> users [] s = "projects" -> projects
           [] s = "p1" -> first [] s = "p2" -> second] :
        users \in {<<>>, <<"u1", "nogid">>, <<"nogid", "u1", "u2">>},
        projects \in {<<>>, <<"p1", "nogid", "p1">>, <<"p2", "p1", "p2">>},
        first \in {<<"t1">>, <<"t1", "nogid", "t2">>},
        second \in {<<>>, <<"t2", "t1">>}}
============================================================================

--------------------------- MODULE MCDeploymentsV2 ---------------------------
(***************************************************************************)
(* The second interface on a small instance: an app of two deployments, at *)
(* the root and at a path of one site, and releases with and without       *)
(* filters, without a port, and that listen on none.                       *)
(***************************************************************************)
EXTENDS DeploymentsV2, TLC

CONSTANTS web, api, root, path, plain, guardedrelease, portless, worker, p1

MCAppOf == [n \in Name |-> CHOOSE a \in AppID : TRUE]
MCRouteOf == [n \in Name |-> IF n = web THEN root ELSE path]
MCBegins == {<<root, root>>, <<root, path>>, <<path, path>>}
MCPublished == [n \in Name |-> {}]
MCPortOf == [r \in Release |-> CASE r = portless -> Unset [] r = worker -> NoPort [] OTHER -> p1]
MCFiltersOf == [r \in Release |-> IF r = guardedrelease THEN <<"jwt", "cors">> ELSE <<>>]
Handlers == Permutations(Handler)
==============================================================================

-------------------------- MODULE MCActivityFanout --------------------------
(* Model-checking instance of ActivityFanout: two payload kinds, two       *)
(* subscribers.                                                            *)
EXTENDS ActivityFanout

CONSTANTS s1, s2

MCKinds == {"RebaseRequest", "RebaseFinished"}
MCSubscribers == {s1, s2}

\* Every subscriber passes the same filter: only rebase requests.
OneFilter == {<<"RebaseRequest">>}
\* Subscribers pass different filters.
TwoFilters == {<<"RebaseRequest">>, <<"RebaseFinished">>}
\* Subscribers pass the same two kinds, in different orders.
PermutedFilters ==
    {<<"RebaseRequest", "RebaseFinished">>, <<"RebaseFinished", "RebaseRequest">>}
=============================================================================

------------------------------ MODULE MCExecutor ------------------------------
(* Lists of one, two and all files, folders, the older layout, two actions    *)
(* that match the same spank, and configurations that do not validate.        *)
EXTENDS Executor

Sound(id, paths, order) ==
    [id |-> id, enabled |-> TRUE, tiers |-> {}, min_intensity |-> 0, kind |-> "sound",
     fields |-> "in range", filled |-> TRUE, paths |-> paths, path |-> Unset, order |-> order]
Script == [Sound("script", <<>>, "random") EXCEPT !.kind = "exec", !.tiers = {"major"}]

MCRaw ==
    {<<Sound("a", <<Folder>>, "sequential"), Script>>,
     <<Sound("a", <<2, Folder>>, "random")>>,
     <<Sound("a", <<1, 2>>, "sequential"), Sound("b", <<2, 3>>, "random")>>,
     <<[Sound("a", <<>>, "random") EXCEPT !.path = 1, !.min_intensity = 1]>>,
     <<Sound("a", <<1>>, "random"), Sound("a", <<2>>, "random")>>,
     <<[Sound("a", <<1>>, "random") EXCEPT !.fields = "out of range"]>>}
MCSpanks == [tier : {"micro", "major"}, intensity : {0, 1}]
=============================================================================

------------------------- MODULE MCAnalysisPipeline -------------------------
(* Model-checking instances of AnalysisPipeline.  RunAll is the sequence   *)
(* of analyses runAllAnalyzers performs: help queries (Forculus), city and *)
(* rating (correlation), module names, module names for private release,  *)
(* hour of day (basic RAPPOR) and URLs.                                    *)
EXTENDS AnalysisPipeline

Rec(k, b, c, p, x, s, e) ==
    [kind |-> k, basic |-> b, assoc |-> c, private |-> p,
     prefix |-> x, src |-> s, estimate |-> e]

RunAll ==
    << Rec("forculus", FALSE, FALSE, FALSE, "help_query", "hq_cand", 1),
       Rec("rappor", FALSE, TRUE, FALSE, "city_name", "city_cand", 1),
       Rec("rappor", FALSE, FALSE, FALSE, "module_name", "module_cand", 0),
       Rec("rappor", FALSE, FALSE, TRUE, "module_name", "module_cand", 0),
       Rec("rappor", TRUE, FALSE, FALSE, "hour", "hour_map", 1),
       Rec("rappor", FALSE, FALSE, FALSE, "url", "url_cand", 1) >>

(* The hour-of-day analysis asked for a private release.                  *)
PrivateBasic ==
    << Rec("rappor", TRUE, FALSE, TRUE, "hour", "hour_map", 1) >>

(* A correlation analysis of (city_name, rating), whose map is cached     *)
(* under its first variable, and a single-variable analysis whose metric  *)
(* is also named city_name but has its own candidate file.                 *)
SharedPrefix ==
    << Rec("rappor", FALSE, TRUE, FALSE, "city_name", "city_cand", 1),
       Rec("rappor", FALSE, FALSE, FALSE, "city_name", "city_cand2", 1) >>

MCSources == {"hq_cand", "city_cand", "city_cand2", "module_cand", "hour_map", "url_cand"}
MCPrefixes == {"help_query", "city_name", "module_name", "hour", "url"}
MCSrcMtime == [s \in MCSources |-> 0]
MCGrace == 2
MCMaxTime == 3
MCNoise == {-1, 0, 1}
=============================================================================

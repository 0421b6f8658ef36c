-------------------------- MODULE MCMapCacheCrash --------------------------
(* Model-checking instance of MapCacheCrash, with the bounds of MCMapCache.*)
EXTENDS MCMapCache, MapCacheCrash
=============================================================================

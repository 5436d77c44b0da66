------------------------------ MODULE MCParts ------------------------------
(***************************************************************************)
(* The parts of the system that share no state, checked in one run: each   *)
(* behaviour is a behaviour of one of them, which Init chooses, while the  *)
(* others rest in their initial states.  A product of parts that do not    *)
(* interact would show nothing more of any of them.                        *)
(***************************************************************************)
EXTENDS StdioUpstream, SearchChain, WebCache, ConfigWatch, ConfigLayers,
        DocsSessions, TokenStore

CONSTANTS brave, ddg

MCChain == <<brave, ddg>>

VARIABLE part

Parts == {"pipe", "search", "web", "watch", "layers", "docs", "token"}

PartsInit ==
  /\ part \in Parts
  /\ PipeInit /\ SearchInit /\ CacheInit /\ WatchInit
  /\ LayersInit /\ DocsInit /\ TokenInit

PartsNext ==
  /\ UNCHANGED part
  /\ IF part = "pipe" THEN PipeNext ELSE UNCHANGED pipeVars
  /\ IF part = "search" THEN SearchNext ELSE UNCHANGED searchVars
  /\ IF part = "web" THEN CacheNext ELSE UNCHANGED cacheVars
  /\ IF part = "watch" THEN WatchNext ELSE UNCHANGED watchVars
  /\ IF part = "layers" THEN LayersNext ELSE UNCHANGED layerVars
  /\ IF part = "docs" THEN DocsNext ELSE UNCHANGED docVars
  /\ IF part = "token" THEN TokenNext ELSE UNCHANGED tokenVars

PartsSpec ==
  PartsInit /\ [][PartsNext]_<<part, pipeVars, searchVars, cacheVars, watchVars,
                              layerVars, docVars, tokenVars>>
=============================================================================

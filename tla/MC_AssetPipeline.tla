-------------------------- MODULE MC_AssetPipeline --------------------------
(***************************************************************************)
(* Assets of every kind, as run and startup load them: the shader, a       *)
(* texture, an OBJ mesh and a mesh from memory; one pass draws with each   *)
(* mesh.                                                                   *)
(***************************************************************************)
EXTENDS AssetPipeline

CONSTANTS Shader, Stone, Monkey, Cube

MCAssets == {Shader, Stone, Monkey, Cube}
MCKind == [a \in MCAssets |->
  CASE a = Shader -> "shader" [] a = Stone -> "texture" [] a = Monkey -> "obj" [] OTHER -> "memory"]
MCPasses == {{Shader, Stone, Monkey}, {Shader, Stone, Cube}}

GoodFiles == {[a \in MCAssets |-> "good"]}

\* At most one asset's file is at fault.
OneFault ==
  GoodFiles \cup
  {[a \in MCAssets |-> IF a = b THEN fault ELSE "good"] :
     b \in {Shader, Stone, Monkey}, fault \in {"missing", "bad"}} \cup
  {[a \in MCAssets |-> IF a = Monkey THEN "no_model" ELSE "good"]}
=============================================================================

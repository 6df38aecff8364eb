----------------------------- MODULE MCRenderLoop -----------------------------
(* A device that asks for one, four or six frames: too few for a cross-fade,  *)
(* and enough for one of two or three.                                       *)
EXTENDS RenderLoop
===============================================================================

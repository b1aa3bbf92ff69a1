---------------------------- MODULE MCAudioEngine ----------------------------
(* Three sounds played for two artboards.                                  *)
EXTENDS AudioEngine
=============================================================================

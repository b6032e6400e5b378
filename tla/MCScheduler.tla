---------------------------- MODULE MCScheduler ----------------------------
(* Model checking of Scheduler on one graph that nests every kind of unit: *)
(*                                                                         *)
(*   fetch -------------------------> join --> each [row3: meta]           *)
(*   loop [row1: call1] [row2: call2] --^                                  *)
(*                                                                         *)
(* where each is a sequential loop and meta a metanode [sub: arg -> inner] *)
(* whose boundary input arg is a cached node.  fetch, call1 and call2 are  *)
(* of one limited type; the rows of loop may run together.                 *)
EXTENDS Scheduler

MCUnits == {"fetch", "loop", "join", "each", "call1", "call2", "meta", "arg", "inner"}
MCScopes == {"root", "row1", "row2", "row3", "sub"}
MCScopeOf == [u \in MCUnits |->
    CASE u = "call1" -> "row1" [] u = "call2" -> "row2" [] u = "meta" -> "row3"
      [] u \in {"arg", "inner"} -> "sub" [] OTHER -> "root"]
MCDeps == [u \in MCUnits |->
    CASE u = "join" -> {"fetch", "loop"} [] u = "each" -> {"join"}
      [] u = "inner" -> {"arg"} [] OTHER -> {}]
MCKind == [u \in MCUnits |->
    CASE u \in {"loop", "each"} -> "loop" [] u = "meta" -> "meta" [] OTHER -> "node"]
MCDriver == [s \in MCScopes \ {"root"} |->
    CASE s = "sub" -> "meta" [] s = "row3" -> "each" [] OTHER -> "loop"]
MCEmbedded == {"sub"}
MCType == [u \in MCUnits |-> IF u \in {"fetch", "call1", "call2"} THEN "http" ELSE "other"]
MCTypeLimit == [t \in {"http"} |-> 2]
MCConcurrency == [u \in {"loop", "meta", "each"} |-> IF u = "loop" THEN 2 ELSE 1]

============================================================================

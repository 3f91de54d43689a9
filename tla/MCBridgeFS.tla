----------------------------- MODULE MCBridgeFS -----------------------------
EXTENDS BridgeFS, TLC
CONSTANTS o1, o2

D == <<"d">>
F == <<"d", "f">>
G == <<"e">>

MCPaths == {D, F, G}

MCTree == [p \in MCPaths |-> IF p = D THEN "dir" ELSE IF p = F THEN "file" ELSE "none"]

Ask(m, p) == [m |-> m, p |-> p, q |-> p]

MCAsks ==
  {Ask("stat", F), Ask("stat", D),
   Ask("write", F), Ask("create", G), Ask("remove", F), Ask("chmod", F),
   [m |-> "rename", p |-> D, q |-> G]}

MCSymmetry == Permutations({o1, o2})
=============================================================================

--------------------------- MODULE MCMnemonicOpen ---------------------------
EXTENDS MnemonicOpen

\* Two paths, so that a store and a missing path coexist.
MCPaths == {"p1", "p2"}
=============================================================================
